------------------------ MODULE ConnectionTableProofs ------------------------
(***************************************************************************)
(* Ids tell addresses apart, nobody is served an id of an old generation,  *)
(* the table of connections is true, and what it says of a connection      *)
(* leads to its address for a generation.                                  *)
(***************************************************************************)
EXTENDS ConnectionTable, TLAPS

\* What the phases of check_generation know of the rows: once the new generation
\* is committed everything ever issued is older, and while serving the table
\* holds all that was issued in this generation, and nothing else unless the
\* erasure failed.
GenerationInv ==
    /\ \A r \in issued : r.generation <= generation
    /\ phase \in {"starting", "erasing"} => \A r \in issued : r.generation < generation
    /\ phase = "serving" /\ ~unerased => \A r \in addressIds : r.generation = generation
    /\ phase = "serving" => \A r \in issued : r.generation = generation => r \in addressIds

\* A row is issued when it is made.
Recorded == addressIds \subseteq issued

\* Within a generation an id occurs once, and an address does.
OneRowEach ==
    \A r, s \in issued :
        r.generation = s.generation /\ (r.counter = s.counter \/ r.addr = s.addr) => r = s

IInv == TypeOK /\ GenerationInv /\ Recorded /\ OneRowEach

LEMMA InitIInv == Init => IInv
<1> SUFFICES ASSUME Init PROVE IInv
  OBVIOUS
<1>1. unerased \in BOOLEAN
  BY DEF Init
<1>2. TypeOK
  BY <1>1, PeriodAssumption DEF Init, TypeOK
<1>3. GenerationInv /\ Recorded /\ OneRowEach
  BY DEF Init, GenerationInv, Recorded, OneRowEach
<1> QED BY <1>2, <1>3 DEF IInv

LEMMA NewGenerationIInv ==
    ASSUME IInv, NewGeneration, sinceCheck' \in 0..Period, phase' \in {"starting", "erasing"},
           early' \in Nat
    PROVE  IInv'
BY DurationAssumption DEF IInv, TypeOK, GenerationInv, Recorded, OneRowEach, AddressId,
       NewGeneration, NextGeneration, NextAge

LEMMA GetNewIInv ==
    ASSUME IInv, NEW a \in Addr, GetNew(a)
    PROVE  IInv'
<1>1. PICK k \in 1..(Cardinality(addressIds) + 1) :
          /\ IsNextCounter(k)
          /\ addressIds' = addressIds \union
                 {[generation |-> generation, counter |-> k, addr |-> a]}
          /\ issued' = issued \union
                 {[generation |-> generation, counter |-> k, addr |-> a]}
  BY DEF GetNew
<1> DEFINE new == [generation |-> generation, counter |-> k, addr |-> a]
<1>2. new \in AddressId
  BY DEF IInv, TypeOK, AddressId
<1>3. \A r \in issued : r.generation = generation => r.counter # k /\ r.addr # a
  <2>1. \A r \in addressIds : r.generation = generation => r.counter # k
    BY <1>1 DEF IsNextCounter, CurrentRows, IInv, TypeOK, AddressId
  <2>2. \A r \in issued : r.generation = generation => r \in addressIds
    BY DEF IInv, GenerationInv, GetNew
  <2>3. \A r \in addressIds : r.addr # a
    BY DEF GetNew
  <2> QED BY <2>1, <2>2, <2>3
<1>4. TypeOK' /\ Recorded'
  BY <1>1, <1>2 DEF IInv, TypeOK, Recorded, GetNew
<1>5. GenerationInv'
  BY <1>1, <1>2 DEF IInv, TypeOK, GenerationInv, GetNew, AddressId
<1>6. OneRowEach'
  BY <1>1, <1>3 DEF IInv, OneRowEach
<1> QED BY <1>4, <1>5, <1>6 DEF IInv

LEMMA GetKnownIInv ==
    ASSUME IInv, NEW a \in Addr, GetKnown(a)
    PROVE  IInv'
<1>1. issued' = issued
  BY DEF GetKnown, IInv, Recorded
<1> QED
  BY <1>1 DEF IInv, TypeOK, GenerationInv, Recorded, OneRowEach, GetKnown

LEMMA NextIInv == IInv /\ [Next]_vars => IInv'
<1> SUFFICES ASSUME IInv, [Next]_vars PROVE IInv'
  OBVIOUS
<1>1. CASE Start
  BY <1>1, NewGenerationIInv, PeriodAssumption DEF Start, IInv, TypeOK
<1>2. CASE Erase \/ EraseFails
  <2>1. unerased' \in BOOLEAN
    BY <1>2 DEF Erase, EraseFails
  <2>2. TypeOK'
    BY <1>2, <2>1 DEF IInv, TypeOK, Erase, EraseAll, EraseFails
  <2>3. GenerationInv'
    BY <1>2 DEF IInv, TypeOK, GenerationInv, AddressId, Erase, EraseAll, EraseFails
  <2>4. Recorded' /\ OneRowEach'
    BY <1>2 DEF IInv, Recorded, OneRowEach, Erase, EraseAll, EraseFails
  <2> QED BY <2>2, <2>3, <2>4 DEF IInv
<1>3. CASE Check
  <2>1. CASE Expired
    BY <1>3, <2>1, NewGenerationIInv, PeriodAssumption DEF Check
  <2>2. CASE ~Expired
    BY <1>3, <2>2, PeriodAssumption DEF Check, IInv, TypeOK, GenerationInv, Recorded, OneRowEach
  <2> QED BY <2>1, <2>2
<1>4. ASSUME NEW a \in Addr, GetKnown(a) \/ GetNew(a) PROVE IInv'
  BY <1>4, GetKnownIInv, GetNewIInv
<1>5. CASE Tick
  BY <1>5, PeriodAssumption DEF IInv, TypeOK, GenerationInv, Recorded, OneRowEach, Tick
<1>6. CASE Crash
  BY <1>6, PeriodAssumption DEF IInv, TypeOK, GenerationInv, Recorded, OneRowEach, Crash
<1>7. CASE UNCHANGED vars
  BY <1>7 DEF IInv, TypeOK, GenerationInv, Recorded, OneRowEach, vars
<1> QED BY <1>1, <1>2, <1>3, <1>4, <1>5, <1>6, <1>7 DEF Next

LEMMA SpecIInv == Spec => []IInv
BY InitIInv, NextIInv, PTL DEF Spec

\* For any durations and bounds, with the table in a file or in memory, wherever
\* the process dies and whichever erasure fails, two ids of a generation are the
\* same exactly if the addresses are.
THEOREM IdsTellAddressesApart == Spec => []IdsTellAddresses
<1>1. IInv => IdsTellAddresses
  BY DEF IInv, OneRowEach, IdsTellAddresses
<1> QED BY <1>1, SpecIInv, PTL

\* Every id served is of the generation the channel database records, unless the
\* erasure failed: the crash between the two commits of check_generation cannot
\* be seen by a client.
THEOREM CurrentIds == Spec => []ServedIdsAreCurrent
<1>1. IInv => ServedIdsAreCurrent
  BY DEF IInv, GenerationInv, ServedIdsAreCurrent
<1> QED BY <1>1, SpecIInv, PTL

-----------------------------------------------------------------------------
(* How long a generation lasts. *)

\* A generation that the timer has found young enough ages with the timer, and
\* it has lasted longer than its recorded age by what early starts have added.
AgeInv ==
    /\ phase \in {"starting", "erasing"} => age <= Duration
    /\ phase = "serving" => age <= Duration + sinceCheck
    /\ life <= age + early * Duration

\* No early start yet: what they have added, k, is nothing.
LEMMA NothingAdded == \A x \in Int : \A k, l : x >= 0 /\ k = 0 /\ l = 0 => l <= x + k
OBVIOUS

LEMMA NextAgeInv == IInv /\ AgeInv /\ [Next]_vars => AgeInv'
<1> SUFFICES ASSUME IInv, AgeInv, [Next]_vars PROVE AgeInv'
  OBVIOUS
<1> USE DurationAssumption, PeriodAssumption DEF IInv, TypeOK, AgeInv
<1>1. ASSUME NewGeneration, phase' \in {"starting", "erasing"}
      PROVE  age' <= Duration /\ life' = 0
  BY <1>1 DEF NewGeneration, NextAge
<1>2. CASE Start
  <2>1. phase' = "starting" /\ NewGeneration
    BY <1>2 DEF Start
  <2>2. life' <= age' + early' * Duration
    <3>1. CASE generation > 0 /\ age < Duration
      <4>1. early' = early + 1 /\ age' = age - Duration
        BY <1>2, <2>1, <3>1 DEF Start, NewGeneration, NextAge
      <4>2. early' * Duration = early * Duration + Duration /\ early * Duration \in Int
        BY <4>1
      <4> HIDE DEF AgeInv
      <4>3. age + early * Duration >= life /\ life >= 0
        BY DEF AgeInv
      <4> QED BY <1>1, <2>1, <4>1, <4>2, <4>3
    <3>2. CASE ~(generation > 0 /\ age < Duration)
      <4>1. early' = 0 /\ age' >= 0 /\ age' \in Int
        BY <1>2, <2>1, <3>2 DEF Start, NewGeneration, NextAge
      <4>2. early' * Duration = 0
        BY <4>1
      <4>3. life' = 0
        BY <1>1, <2>1
      <4> HIDE DEF IInv, AgeInv
      <4> QED BY <4>1, <4>2, <4>3, NothingAdded
    <3> QED BY <3>1, <3>2
  <2> QED BY <1>1, <2>1, <2>2
<1>3. CASE Erase \/ EraseFails
  BY <1>3 DEF Erase, EraseFails
<1>4. CASE Check
  <2>1. CASE Expired
    <3>1. phase' = "erasing" /\ NewGeneration /\ early' = 0
      BY <1>4, <2>1 DEF Check
    <3>2. age' >= 0 /\ age' \in Int
      BY <2>1, <3>1 DEF Expired, NewGeneration, NextAge
    <3>3. early' * Duration = 0
      BY <3>1
    <3>4. life' = 0
      BY <1>1, <3>1
    <3>5. life' <= age' + early' * Duration
      <4> HIDE DEF IInv, AgeInv
      <4> QED BY <3>2, <3>3, <3>4, NothingAdded
    <3> QED BY <1>1, <3>1, <3>5
  <2>2. CASE ~Expired
    BY <1>4, <2>2 DEF Check, Expired
  <2> QED BY <2>1, <2>2
<1>5. ASSUME NEW a \in Addr, GetKnown(a) \/ GetNew(a) PROVE AgeInv'
  BY <1>5 DEF GetKnown, GetNew
<1>6. CASE Tick
  BY <1>6 DEF Tick
<1>7. CASE Crash
  BY <1>7 DEF Crash
<1>8. CASE UNCHANGED vars
  BY <1>8 DEF vars
<1> QED BY <1>2, <1>3, <1>4, <1>5, <1>6, <1>7, <1>8 DEF Next

\* For any duration and timer period, however long the server was down, and
\* wherever it was killed, the generation it serves has lasted a duration and a
\* timer period at most, and one more duration for every early start in a row.
THEOREM GenerationsEnd == Spec => []GenerationEnds
<1>1. Init => AgeInv
  BY DurationAssumption DEF Init, AgeInv
<1>2. IInv /\ AgeInv => GenerationEnds
  <2> SUFFICES ASSUME IInv, AgeInv, phase = "serving" PROVE life <= (1 + early) * Duration + Period
    BY DEF GenerationEnds
  <2>1. (1 + early) * Duration = Duration + early * Duration /\ early * Duration \in Int
    BY DurationAssumption DEF IInv, TypeOK
  <2> QED BY <2>1, DurationAssumption, PeriodAssumption DEF IInv, TypeOK, AgeInv
<1> QED BY <1>1, <1>2, NextAgeInv, SpecIInv, PTL DEF Spec

-----------------------------------------------------------------------------
(* The tracker in the server: every step of the composition is a step of the *)
(* tracker, or none.                                                         *)

tableAll == <<vars, tableVars>>

LEMMA TableStepTracks == [TableNext]_tableAll => [Next]_vars
BY DEF TableNext, tableAll, TrackerStep, Clear, Connect, Established, AddMessage, Bound, Lost,
       ProcessDies, Next

LEMMA TableTracks == TableSpec => Spec
<1>1. TableInit => Init
  BY DEF TableInit
<1> QED BY <1>1, TableStepTracks, PTL DEF TableSpec, Spec, tableAll

-----------------------------------------------------------------------------
(* The table. *)

RowOf(c) == [id |-> socket[c].id, addrid |-> socket[c].addrid, side |-> socket[c].side]

Listed == {c \in Live : socket[c].id # 0}

\* AUTOINCREMENT: no id is used twice.
IdsGrow ==
    /\ lastId \in Nat
    /\ \A r \in connections : r.id \in Nat /\ r.id <= lastId
    /\ \A c \in Live : socket[c].id \in Nat /\ socket[c].id <= lastId
    /\ \A c, d \in Listed : socket[c].id = socket[d].id => c = d

\* From clear_connections on, the rows are those of the live connections.
Mirrored ==
    IF cleared
      THEN /\ connections = {RowOf(c) : c \in Listed}
           /\ \A c \in Live \ Listed : socket[c].side = None
           /\ connectionMessages \subseteq {r.id : r \in connections}
      ELSE Live = {}

SocketsTyped == socket \in [Conn -> Socket \union {None}]

TableInv == SocketsTyped /\ IdsGrow /\ Mirrored

LEMMA SocketFields ==
    ASSUME SocketsTyped, NEW c \in Live
    PROVE  /\ c \in Conn /\ socket[c] \in Socket
           /\ socket[c].id \in Nat
           /\ socket[c].addrid \in AddrId
           /\ socket[c].side \in Side \union {None}
BY DEF SocketsTyped, Live, Socket

LEMMA InitTable == TableInit => TableInv
BY SocketAssumption DEF TableInit, TableInv, SocketsTyped, IdsGrow, Mirrored, Live, Listed

\* clear_connections: nobody is connected yet.
LEMMA ClearTable ==
    ASSUME TableInv, Clear
    PROVE  TableInv'
<1>1. SocketsTyped'
  BY DEF Clear, TableInv, SocketsTyped
<1>2. Live = {} /\ Live' = {} /\ Listed' = {}
  BY DEF Clear, TableInv, Mirrored, Live, Listed
<1>3. IdsGrow'
  BY <1>2 DEF Clear, ClearAll, TableInv, IdsGrow
<1>4. Mirrored'
  BY <1>2 DEF Clear, ClearAll, Mirrored
<1> QED BY <1>1, <1>3, <1>4 DEF TableInv

\* onConnect's first half: a socket without a row.
LEMMA ConnectTable ==
    ASSUME TableInv, NEW c \in Conn, NEW a \in Addr, Connect(c, a), addressIds' \subseteq AddressId
    PROVE  TableInv'
<1>1. PICK r \in addressIds' : socket' = [socket EXCEPT ![c] =
          [id |-> 0, addr |-> a, side |-> None,
           addrid |-> [generation |-> r.generation, counter |-> r.counter]]]
  BY DEF Connect
<1> DEFINE new == [id |-> 0, addr |-> a, side |-> None,
                   addrid |-> [generation |-> r.generation, counter |-> r.counter]]
<1>2. new \in Socket /\ new # None /\ new.id = 0
  BY SocketAssumption DEF Socket, AddrId, AddressId
<1> HIDE DEF new
<1>3. /\ SocketsTyped'
      /\ socket'[c] = new
      /\ \A d \in Conn \ {c} : socket'[d] = socket[d]
  BY <1>1, <1>2 DEF TableInv, SocketsTyped, new
<1>4. /\ Live' = Live \union {c}
      /\ c \notin Live
      /\ Listed' = Listed
  BY <1>2, <1>3 DEF Live, Listed, Connect
<1>5. \A d \in Live : socket'[d] = socket[d]
  BY <1>3, <1>4 DEF Live
<1>6. UNCHANGED <<connections, connectionMessages, lastId, cleared>> /\ cleared
  BY DEF Connect, Serving
<1>7. IdsGrow'
  <2>1. \A d \in Live' : socket'[d].id \in Nat /\ socket'[d].id <= lastId
    BY <1>2, <1>3, <1>4, <1>5 DEF TableInv, IdsGrow
  <2> QED BY <1>4, <1>5, <1>6, <2>1 DEF TableInv, IdsGrow, Listed
<1>8. Mirrored'
  <2>1. ASSUME NEW d \in Listed PROVE RowOf(d)' = RowOf(d)
    BY <1>5, <2>1 DEF RowOf, Listed
  <2>2. {RowOf(d) : d \in Listed}' = {RowOf(d) : d \in Listed}
    BY <1>4, <2>1
  <2>3. \A d \in Live' \ Listed' : socket'[d].side = None
    <3>1. new.side = None
      BY DEF new
    <3> QED BY <1>3, <1>4, <1>5, <1>6, <3>1 DEF TableInv, Mirrored
  <2> QED BY <1>6, <2>2, <2>3 DEF TableInv, Mirrored
<1> QED BY <1>3, <1>7, <1>8 DEF TableInv

\* ConnectionTable.established: the next id.
LEMMA EstablishedTable ==
    ASSUME TableInv, NEW c \in Conn, Established(c)
    PROVE  TableInv'
<1> DEFINE row == [id |-> lastId + 1, addrid |-> socket[c].addrid, side |-> None]
<1>1. /\ c \in Live /\ socket[c].id = 0 /\ lastId \in Nat
      /\ lastId' = lastId + 1
      /\ connections' = connections \union {row}
      /\ socket' = [socket EXCEPT ![c].id = lastId + 1]
      /\ UNCHANGED <<connectionMessages, cleared>>
  BY DEF Established, TableInv, IdsGrow
<1>2. socket[c] \in Socket /\ row.id = lastId + 1
  BY <1>1, SocketFields DEF TableInv
<1>3. /\ socket'[c] = [socket[c] EXCEPT !.id = lastId + 1]
      /\ socket'[c] \in Socket
      /\ \A d \in Conn \ {c} : socket'[d] = socket[d]
  BY <1>1, <1>2 DEF TableInv, SocketsTyped, Socket
<1>4. /\ socket'[c].id = lastId + 1
      /\ socket'[c].addrid = socket[c].addrid
      /\ socket'[c].side = socket[c].side
  BY <1>2, <1>3 DEF Socket
<1>5. SocketsTyped'
  BY <1>1, <1>2 DEF TableInv, SocketsTyped, Socket
<1>6. Live' = Live /\ Listed' = Listed \union {c} /\ c \notin Listed
  BY <1>1, <1>3, <1>4, SocketAssumption DEF Live, Listed
<1>7. \A d \in Listed : socket'[d] = socket[d] /\ socket[d].id \in Nat /\ socket[d].id <= lastId
  BY <1>3, <1>6 DEF Listed, Live, TableInv, IdsGrow
<1>8. IdsGrow'
  <2> HIDE DEF row
  <2>1. \A r \in connections' : r.id \in Nat /\ r.id <= lastId'
    BY <1>1, <1>2 DEF TableInv, IdsGrow
  <2>2. \A d \in Live' : socket'[d].id \in Nat /\ socket'[d].id <= lastId'
    BY <1>1, <1>3, <1>4, <1>6 DEF TableInv, IdsGrow, Live
  <2>3. \A d, e \in Listed' : socket'[d].id = socket'[e].id => d = e
    BY <1>1, <1>4, <1>6, <1>7 DEF TableInv, IdsGrow
  <2> QED BY <1>1, <2>1, <2>2, <2>3 DEF IdsGrow
<1>9. Mirrored'
  <2>1. cleared /\ cleared'
    BY <1>1 DEF TableInv, Mirrored
  <2>2. socket[c].side = None
    BY <1>1, <1>6, <2>1 DEF TableInv, Mirrored
  <2>3. RowOf(c)' = row
    BY <1>4, <2>2 DEF RowOf
  <2>4. ASSUME NEW d \in Listed PROVE RowOf(d)' = RowOf(d)
    BY <1>7 DEF RowOf
  <2>5. {RowOf(d) : d \in Listed}' = {RowOf(d) : d \in Listed} \union {row}
    BY <1>6, <2>3, <2>4
  <2>6. connections' = {RowOf(d) : d \in Listed}'
    BY <1>1, <2>1, <2>5 DEF TableInv, Mirrored
  <2>7. \A d \in Live' \ Listed' : socket'[d].side = None
    BY <1>3, <1>6, <2>1 DEF TableInv, Mirrored, Live
  <2>8. connectionMessages' \subseteq {r.id : r \in connections'}
    BY <1>1, <2>1 DEF TableInv, Mirrored
  <2> QED BY <2>1, <2>6, <2>7, <2>8 DEF Mirrored
<1> QED BY <1>5, <1>8, <1>9 DEF TableInv

LEMMA AddMessageTable ==
    ASSUME TableInv, NEW c \in Conn, AddMessage(c)
    PROVE  TableInv'
<1>1. /\ UNCHANGED <<connections, lastId, socket, cleared>>
      /\ connectionMessages' = connectionMessages \union {socket[c].id}
      /\ c \in Listed /\ cleared
  BY DEF AddMessage, Serving, Listed
<1>2. socket[c].id \in {r.id : r \in connections}
  <2>1. RowOf(c) \in connections /\ RowOf(c).id = socket[c].id
    BY <1>1 DEF TableInv, Mirrored, RowOf
  <2> QED BY <2>1
<1> QED BY <1>1, <1>2 DEF TableInv, SocketsTyped, IdsGrow, Mirrored, RowOf, Live, Listed

\* bind writes the side into the row of its connection.
LEMMA BoundTable ==
    ASSUME TableInv, NEW c \in Conn, NEW s \in Side, Bound(c, s)
    PROVE  TableInv'
<1>1. /\ c \in Live /\ c \in Listed /\ cleared /\ cleared' /\ lastId' = lastId
      /\ connectionMessages' = connectionMessages \union {socket[c].id}
      /\ connections' = {IF r.id = socket[c].id THEN [r EXCEPT !.side = s] ELSE r :
                            r \in connections}
      /\ socket' = [socket EXCEPT ![c].side = s]
      /\ Live = Listed
  BY DEF Bound, Serving, Listed
<1>2. socket[c] \in Socket
  BY <1>1, SocketFields DEF TableInv
<1>3. /\ socket'[c] = [socket[c] EXCEPT !.side = s]
      /\ socket'[c] \in Socket
      /\ \A d \in Conn \ {c} : socket'[d] = socket[d]
  BY <1>1, <1>2 DEF TableInv, SocketsTyped, Socket
<1>4. /\ socket'[c].id = socket[c].id
      /\ socket'[c].addrid = socket[c].addrid
      /\ socket'[c].side = s
  BY <1>2, <1>3 DEF Socket
<1>5. SocketsTyped'
  BY <1>1, <1>2 DEF TableInv, SocketsTyped, Socket
<1>6. Live' = Live /\ Listed' = Listed
  BY <1>1, <1>3, <1>4, SocketAssumption DEF Live, Listed
<1>7. \A d \in Live : d \in Conn
  BY DEF Live
<1>8. \A d \in Listed : socket'[d].id = socket[d].id
  BY <1>1, <1>3, <1>4, <1>7
<1>9. ASSUME NEW d \in Listed
      PROVE  RowOf(d)' = IF RowOf(d).id = socket[c].id THEN [RowOf(d) EXCEPT !.side = s] ELSE RowOf(d)
  <2>1. CASE d = c
    BY <1>4, <2>1 DEF RowOf
  <2>2. CASE d # c
    <3>1. RowOf(d)' = RowOf(d)
      BY <1>1, <1>3, <1>7, <2>2 DEF RowOf
    <3>2. RowOf(d).id # socket[c].id
      BY <1>1, <2>2 DEF RowOf, TableInv, IdsGrow
    <3> QED BY <3>1, <3>2
  <2> QED BY <2>1, <2>2
<1>10. connections' = {RowOf(d)' : d \in Listed}
  <2>1. connections = {RowOf(d) : d \in Listed}
    BY <1>1 DEF TableInv, Mirrored
  <2>2. connections' = {IF RowOf(d).id = socket[c].id THEN [RowOf(d) EXCEPT !.side = s]
                                                       ELSE RowOf(d) : d \in Listed}
    BY <1>1, <2>1
  <2> QED BY <1>9, <2>2
<1>11. \A d \in Listed : RowOf(d)'.id = socket[d].id
  BY <1>8 DEF RowOf
<1>12. IdsGrow'
  <2>1. \A r \in connections' : r.id \in Nat /\ r.id <= lastId
    BY <1>1, <1>10, <1>11 DEF TableInv, IdsGrow
  <2>2. \A d \in Live' : socket'[d].id \in Nat /\ socket'[d].id <= lastId
    BY <1>1, <1>6, <1>8 DEF TableInv, IdsGrow
  <2> QED BY <1>1, <1>6, <1>8, <2>1, <2>2 DEF TableInv, IdsGrow
<1>13. Mirrored'
  <2>1. connections' = {RowOf(d) : d \in Listed}'
    BY <1>6, <1>10
  <2>2. {r.id : r \in connections} = {socket[d].id : d \in Listed}
    <3>1. \A d \in Listed : RowOf(d).id = socket[d].id
      BY DEF RowOf
    <3> QED BY <1>1, <3>1 DEF TableInv, Mirrored
  <2>3. {r.id : r \in connections'} = {socket[d].id : d \in Listed}
    BY <1>10, <1>11
  <2>4. connectionMessages' \subseteq {r.id : r \in connections'}
    BY <1>1, <2>2, <2>3 DEF TableInv, Mirrored
  <2> QED BY <1>1, <1>6, <2>1, <2>4 DEF Mirrored
<1> QED BY <1>5, <1>12, <1>13 DEF TableInv

\* onClose takes the row and its messages away.
LEMMA LostTable ==
    ASSUME TableInv, NEW c \in Conn, Lost(c)
    PROVE  TableInv'
<1>1. /\ c \in Live /\ c \in Listed /\ cleared /\ cleared' /\ lastId' = lastId
      /\ connectionMessages' = connectionMessages \ {socket[c].id}
      /\ connections' = {r \in connections : r.id # socket[c].id}
      /\ socket' = [socket EXCEPT ![c] = None]
      /\ Live = Listed
  BY DEF Lost, MessagesWithout, Serving, Listed
<1>2. /\ SocketsTyped'
      /\ socket'[c] = None
      /\ \A d \in Conn \ {c} : socket'[d] = socket[d]
  BY <1>1 DEF TableInv, SocketsTyped
<1>3. Live' = Live \ {c} /\ Listed' = Listed \ {c}
  BY <1>1, <1>2 DEF Live, Listed
<1>4. \A d \in Live \ {c} : socket'[d] = socket[d]
  BY <1>2 DEF Live
<1>5. IdsGrow'
  BY <1>1, <1>3, <1>4 DEF TableInv, IdsGrow
<1>6. Mirrored'
  <2>1. ASSUME NEW d \in Listed PROVE RowOf(d).id = socket[d].id
    BY DEF RowOf
  <2>2. ASSUME NEW d \in Listed \ {c} PROVE RowOf(d)' = RowOf(d) /\ RowOf(d).id # socket[c].id
    BY <1>1, <1>4, <2>1 DEF RowOf, TableInv, IdsGrow
  <2>3. RowOf(c).id = socket[c].id
    BY <1>1, <2>1
  <2>4. connections = {RowOf(d) : d \in Listed}
    BY <1>1 DEF TableInv, Mirrored
  <2>5. connections' = {RowOf(d) : d \in Listed \ {c}}
    BY <1>1, <2>2, <2>3, <2>4
  <2>6. connections' = {RowOf(d) : d \in Listed}'
    BY <1>3, <2>2, <2>5
  <2>7. connectionMessages' \subseteq {r.id : r \in connections'}
    BY <1>1 DEF TableInv, Mirrored
  <2> QED BY <1>1, <1>3, <2>6, <2>7 DEF Mirrored
<1> QED BY <1>2, <1>5, <1>6 DEF TableInv

LEMMA ProcessDiesTable ==
    ASSUME TableInv, ProcessDies
    PROVE  TableInv'
<1>1. Live' = {} /\ Listed' = {} /\ SocketsTyped'
  BY DEF ProcessDies, Live, Listed, SocketsTyped
<1> QED BY <1>1 DEF ProcessDies, TableInv, IdsGrow, Mirrored

LEMMA TableInvKept ==
    ASSUME TableInv, [TableNext]_tableAll, addressIds' \subseteq AddressId
    PROVE  TableInv'
<1>1. CASE UNCHANGED tableVars
  BY <1>1 DEF tableVars, TableInv, SocketsTyped, IdsGrow, Mirrored, RowOf, Live, Listed
<1> QED BY <1>1, ClearTable, ConnectTable, EstablishedTable, AddMessageTable, BoundTable, LostTable,
           ProcessDiesTable DEF TableNext, TrackerStep, tableAll

LEMMA SpecTable == TableSpec => [](TableInv /\ IInv)
<1>1. IInv' => addressIds' \subseteq AddressId
  BY DEF IInv, TypeOK
<1>2. TableInv /\ [TableNext]_tableAll /\ IInv' => TableInv'
  BY <1>1, TableInvKept
<1> QED BY <1>2, InitTable, TableTracks, SpecIInv, PTL DEF TableSpec, tableAll

\* While the server listens, the table has the rows of the live connections and
\* no other, whatever a previous process left behind.
THEOREM TableTrue == TableSpec => []TableIsCurrent
<1>1. TableInv => TableIsCurrent
  BY DEF TableInv, IdsGrow, Mirrored, TableIsCurrent, Serving, Listed, Live, RowOf
<1> QED BY <1>1, SpecTable, PTL

-----------------------------------------------------------------------------
(* From a row to an address. *)

RecordOf(c) == [generation |-> socket[c].addrid.generation,
                counter    |-> socket[c].addrid.counter,
                addr       |-> socket[c].addr]

\* A connection was served its address id for its own address, in whatever
\* generation that was.
ServedTheirOwn == \A c \in Live : RecordOf(c) \in issued

LEMMA ConnectServes ==
    ASSUME SocketsTyped, ServedTheirOwn, NEW c \in Conn, NEW a \in Addr, Connect(c, a),
           addressIds' \subseteq AddressId, addressIds' \subseteq issued'
    PROVE  ServedTheirOwn'
<1>1. PICK r \in addressIds' : r.addr = a /\ socket' = [socket EXCEPT ![c] =
          [id |-> 0, addr |-> a, side |-> None,
           addrid |-> [generation |-> r.generation, counter |-> r.counter]]]
  BY DEF Connect
<1>2. RecordOf(c)' \in issued'
  <2>1. socket'[c].addr = a /\ socket'[c].addrid = [generation |-> r.generation, counter |-> r.counter]
    BY <1>1 DEF SocketsTyped
  <2>2. RecordOf(c)' = [generation |-> r.generation, counter |-> r.counter, addr |-> r.addr]
    BY <1>1, <2>1 DEF RecordOf
  <2>3. RecordOf(c)' = r
    BY <2>2 DEF AddressId
  <2> QED BY <2>3
<1>3. ASSUME NEW d \in Live', d # c PROVE RecordOf(d)' \in issued'
  <2>1. socket'[d] = socket[d] /\ d \in Live
    BY <1>1, <1>3 DEF SocketsTyped, Live
  <2>2. RecordOf(d)' = RecordOf(d)
    BY <2>1 DEF RecordOf
  <2>3. issued \subseteq issued'
    BY DEF Connect, GetKnown, GetNew
  <2> QED BY <2>1, <2>2, <2>3 DEF ServedTheirOwn
<1> QED BY <1>2, <1>3 DEF ServedTheirOwn

\* The rest of a connection's life does not touch its id or its address, and
\* what has been issued stays so.
LEMMA ServedKept ==
    ASSUME SocketsTyped, ServedTheirOwn, [TableNext]_tableAll,
           addressIds' \subseteq AddressId, addressIds' \subseteq issued'
    PROVE  ServedTheirOwn'
<1>1. ASSUME NEW c \in Conn, NEW a \in Addr, Connect(c, a) PROVE ServedTheirOwn'
  BY <1>1, ConnectServes
<1>2. CASE ProcessDies
  BY <1>2 DEF ProcessDies, ServedTheirOwn, Live
<1>3. ASSUME issued \subseteq issued',
             \A d \in Live' : /\ d \in Live
                              /\ socket'[d].addrid = socket[d].addrid
                              /\ socket'[d].addr = socket[d].addr
      PROVE  ServedTheirOwn'
  BY <1>3 DEF ServedTheirOwn, RecordOf
<1>4. ASSUME NEW c \in Conn, Established(c) \/ AddMessage(c) \/ (\E s \in Side : Bound(c, s)) \/ Lost(c)
      PROVE  ServedTheirOwn'
  <2>1. issued' = issued
    BY <1>4 DEF Established, AddMessage, Bound, Lost, vars
  <2>2. \/ socket' = socket
        \/ socket' = [socket EXCEPT ![c].id = lastId'] /\ c \in Live
        \/ \E s \in Side : socket' = [socket EXCEPT ![c].side = s] /\ c \in Live
        \/ socket' = [socket EXCEPT ![c] = None]
    BY <1>4 DEF Established, AddMessage, Bound, Lost
  <2>3. ASSUME NEW d \in Live'
        PROVE  /\ d \in Live
               /\ socket'[d].addrid = socket[d].addrid
               /\ socket'[d].addr = socket[d].addr
    <3>1. d \in Conn /\ socket'[d] # None
      BY DEF Live
    <3>2. d \in Live
      BY <2>2, <3>1 DEF Live, SocketsTyped
    <3>3. socket[d] \in Socket
      BY <3>2, SocketFields
    <3> QED BY <2>2, <3>1, <3>2, <3>3 DEF SocketsTyped, Socket
  <2> QED BY <1>3, <2>1, <2>3
<1>5. CASE TrackerStep \/ Clear \/ UNCHANGED tableAll
  <2>1. socket' = socket /\ issued \subseteq issued'
    BY <1>5 DEF TrackerStep, Start, NewGeneration, Erase, EraseFails, Check, Tick, Clear, vars,
                tableVars, tableAll
  <2> QED BY <1>3, <2>1 DEF Live
<1> QED BY <1>1, <1>2, <1>4, <1>5 DEF TableNext

LEMMA SpecServed == TableSpec => []ServedTheirOwn
<1>1. TableInit => ServedTheirOwn
  BY DEF TableInit, ServedTheirOwn, Live
<1>2. TableInv => SocketsTyped
  BY DEF TableInv
<1>3. IInv' => addressIds' \subseteq AddressId /\ addressIds' \subseteq issued'
  BY DEF IInv, TypeOK, Recorded
<1>4. ServedTheirOwn /\ TableInv /\ IInv' /\ [TableNext]_tableAll => ServedTheirOwn'
  BY <1>2, <1>3, ServedKept
<1> QED BY <1>1, <1>4, SpecTable, PTL DEF TableSpec, tableAll

\* The row of a live connection leads to the address of that very connection
\* while its generation lasts, and to no address afterwards, unless the erasure
\* failed: for any number of connections and generations, also for a
\* connection that outlives its generation while others are given its counter,
\* and wherever the process died before.
THEOREM Traced == TableSpec => []TracedForAGeneration
<1>1. TableInv /\ IInv /\ ServedTheirOwn => TracedForAGeneration
  <2> SUFFICES ASSUME TableInv, IInv, ServedTheirOwn, Serving,
                      NEW r \in connections, NEW c \in Live, socket[c].id = r.id
               PROVE  IF r.addrid.generation = generation
                        THEN AddressesOf(r.addrid) = {socket[c].addr}
                        ELSE ~unerased => AddressesOf(r.addrid) = {}
    BY DEF TracedForAGeneration
  <2>1. r.addrid = socket[c].addrid
    <3>1. PICK d \in Live : r = RowOf(d)
      BY DEF TableInv, Mirrored, Serving, Listed
    <3>2. socket[d].id = socket[c].id
      BY <3>1 DEF RowOf
    <3>3. d = c
      BY <3>2 DEF TableInv, IdsGrow, Serving, Listed
    <3> QED BY <3>1, <3>3 DEF RowOf
  <2>2. phase = "serving"
    BY DEF Serving
  <2>3. CASE r.addrid.generation = generation
    <3>1. RecordOf(c) \in issued /\ RecordOf(c).generation = generation
      BY <2>1, <2>3 DEF ServedTheirOwn, RecordOf
    <3>2. RecordOf(c) \in addressIds
      BY <2>2, <3>1 DEF IInv, GenerationInv
    <3>3. /\ RecordOf(c).generation = r.addrid.generation
          /\ RecordOf(c).counter = r.addrid.counter
          /\ RecordOf(c).addr = socket[c].addr
      BY <2>1 DEF RecordOf
    <3>4. ASSUME NEW x \in addressIds, x.generation = r.addrid.generation,
                 x.counter = r.addrid.counter
          PROVE  x = RecordOf(c)
      BY <3>1, <3>3, <3>4 DEF IInv, Recorded, OneRowEach
    <3> QED BY <2>3, <3>2, <3>3, <3>4 DEF AddressesOf
  <2>4. CASE r.addrid.generation # generation
    BY <2>2, <2>4 DEF AddressesOf, IInv, GenerationInv
  <2> QED BY <2>3, <2>4
<1> QED BY <1>1, SpecTable, SpecServed, PTL
=============================================================================
