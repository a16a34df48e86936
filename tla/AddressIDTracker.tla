-------------------------- MODULE AddressIDTracker --------------------------
(***************************************************************************)
(* The address tracker (address_id.py) as server_tap.py drives it: every   *)
(* address that connects gets an id (generation, counter), the mapping     *)
(* lives in a database of its own, and it is erased when the generation    *)
(* changes.  The generation is recorded in the channel database; changing  *)
(* it commits the channel database first and the other one after, and the  *)
(* process may die in between.                                             *)
(***************************************************************************)
EXTENDS Integers, FiniteSets

CONSTANTS
    Addr,           \* (type, address) pairs of clients
    Duration,       \* --generation-duration
    Period,         \* EXPIRATION_CHECK_PERIOD
    InMemory,       \* --addrid-db=:memory:, which does not survive the process
    MaxGeneration,  \* bound on the number of generations
    MaxAge          \* bound on the age of a generation while the server is down

ASSUME DurationAssumption == Duration \in Nat \ {0}
ASSUME PeriodAssumption   == Period \in Nat \ {0}
ASSUME BoundsAssumption   == MaxGeneration \in Nat /\ MaxAge \in Nat
ASSUME InMemoryAssumption == InMemory \in BOOLEAN

VARIABLES
    generation,     \* addrid_generation.generation; 0 when the table has no row
    age,            \* time since addrid_generation.started: negative if that is to come
    addressIds,     \* rows of address_ids
    phase,          \* "down", "serving", or between the commits of check_generation:
                    \* "starting" in makeService, "erasing" in the timer's expire()
    unerased,       \* the last erasure failed
    sinceCheck,     \* time since the timer last ran expire()
    life,           \* history: time since the generation really changed
    early,          \* history: how many starts in a row, up to the one that began this
                    \* generation, came before the end of the generation they found
    issued          \* history: the ids get_id has returned, with their addresses

vars == <<generation, age, addressIds, phase, unerased, sinceCheck, life, early, issued>>

AddressId == [generation : Nat, counter : Nat, addr : Addr]

Init ==
    /\ generation = 0
    /\ age = 0
    /\ addressIds = {}
    /\ phase = "down"
    /\ unerased = FALSE
    /\ sinceCheck = 0
    /\ life = 0
    /\ early = 0
    /\ issued = {}

-----------------------------------------------------------------------------
\* Fault: a forced check keeps the generation's number.
SameGeneration == IF generation = 0 THEN 1 ELSE generation

NextGeneration == generation + 1

\* Fault: started is when the generation is to end.
NextAgeAhead == IF generation = 0 THEN 0 ELSE -Duration

\* "don't accumulate lag", "but don't let the new generation end early":
\* next_started is started + duration, or now if that generation would be over.
\* With a start that is forced before the generation has ended it lies ahead.
NextAge ==
    IF generation = 0 \/ age - Duration > Duration THEN 0 ELSE age - Duration

\* check_generation up to the commit of the channel database.
NewGeneration ==
    /\ NextGeneration <= MaxGeneration
    /\ generation' = NextGeneration
    /\ age' = NextAge
    /\ life' = 0
    /\ UNCHANGED <<addressIds, unerased, issued>>

\* makeService: the check is forced, before the server listens; the timer
\* service then calls expire() at once.
Start ==
    /\ phase = "down"
    /\ NewGeneration
    /\ phase' = "starting"
    /\ sinceCheck' = Period
    /\ early' = IF generation > 0 /\ age < Duration THEN early + 1 ELSE 0

\* Fault: the addresses of the old generation stay.
EraseNothing == addressIds' = addressIds

EraseAll == addressIds' = {}

\* check_generation after that commit: DELETE FROM address_ids.
Erase ==
    /\ phase \in {"starting", "erasing"}
    /\ EraseAll
    /\ phase' = "serving"
    /\ unerased' = FALSE
    /\ UNCHANGED <<generation, age, sinceCheck, life, early, issued>>

\* expire() logs an exception and goes on: the new generation is recorded, the
\* addresses of the old one stay.  In makeService it ends the process.
EraseFails ==
    /\ phase = "erasing"
    /\ phase' = "serving"
    /\ unerased' = TRUE
    /\ UNCHANGED <<generation, age, addressIds, sinceCheck, life, early, issued>>

Expired == age > Duration

\* expire(), every Period.
Check ==
    /\ phase = "serving"
    /\ sinceCheck = Period
    /\ sinceCheck' = 0
    /\ IF Expired
         THEN NewGeneration /\ phase' = "erasing" /\ early' = 0
         ELSE UNCHANGED <<generation, age, addressIds, phase, unerased, life, early, issued>>

CurrentRows == {r \in addressIds : r.generation = generation}

\* One more than the top counter of this generation.
IsNextCounter(k) ==
    /\ \A r \in CurrentRows : r.counter < k
    /\ k = 1 \/ \E r \in CurrentRows : r.counter = k - 1

\* get_id of an address with a row, whatever the row's generation.
GetKnown(a) ==
    /\ phase = "serving"
    /\ \E r \in addressIds : r.addr = a /\ issued' = issued \union {r}
    /\ UNCHANGED <<generation, age, addressIds, phase, unerased, sinceCheck, life, early>>

GetNew(a) ==
    /\ phase = "serving"
    /\ \A r \in addressIds : r.addr # a
    /\ \E k \in 1..(Cardinality(addressIds) + 1) :
          /\ IsNextCounter(k)
          /\ LET r == [generation |-> generation, counter |-> k, addr |-> a]
             IN /\ addressIds' = addressIds \union {r}
                /\ issued' = issued \union {r}
    /\ UNCHANGED <<generation, age, phase, unerased, sinceCheck, life, early>>

\* The timer is not late while the server runs; a server that is down has no timer.
Tick ==
    /\ \/ phase = "serving" /\ sinceCheck < Period /\ sinceCheck' = sinceCheck + 1
       \/ phase = "down" /\ generation > 0 /\ age < MaxAge /\ sinceCheck' = sinceCheck
    /\ age' = age + 1
    /\ life' = life + 1
    /\ UNCHANGED <<generation, addressIds, phase, unerased, early, issued>>

\* At any point, between the two commits as well.
Crash ==
    /\ phase # "down"
    /\ phase' = "down"
    /\ addressIds' = IF InMemory THEN {} ELSE addressIds
    /\ sinceCheck' = 0
    /\ UNCHANGED <<generation, age, unerased, life, early, issued>>

Next ==
    \/ Start
    \/ Erase
    \/ EraseFails
    \/ Check
    \/ \E a \in Addr : GetKnown(a) \/ GetNew(a)
    \/ Tick
    \/ Crash

Spec == Init /\ [][Next]_vars

-----------------------------------------------------------------------------
TypeOK ==
    /\ generation \in Nat
    /\ age \in Int
    /\ addressIds \subseteq AddressId
    /\ phase \in {"down", "starting", "erasing", "serving"}
    /\ unerased \in BOOLEAN
    /\ sinceCheck \in 0..Period
    /\ life \in Nat
    /\ early \in Nat
    /\ issued \subseteq AddressId

\* docs/operations.md:15 "This makes it easy to tell when two connections are from
\* the same place": two ids of one generation are the same exactly if the
\* addresses are, across restarts, the loss of an in-memory table, and erasures
\* that fail.
IdsTellAddresses ==
    \A r, s \in issued :
        r.generation = s.generation => (r.counter = s.counter <=> r.addr = s.addr)

\* While connections are accepted, every id given out, new or known, is of the
\* current generation: a restart between the two commits leaves rows of an
\* older one behind, but nobody is served from them.  After an erasure that
\* failed, known addresses go on with their old ids.
ServedIdsAreCurrent ==
    phase = "serving" /\ ~unerased => \A r \in addressIds : r.generation = generation

\* A generation ends, and its addresses with it: while the server runs, the
\* current one has lasted at most a duration and a timer period, but for one more
\* duration for every start in a row that did not wait for the end of the
\* generation before (each adds a duration to a start that may lie ahead already).
\* Neither downtime nor the times between the timer's checks add up.
GenerationEnds ==
    phase = "serving" => life <= (1 + early) * Duration + Period

\* docs/operations.md:17 "--generation-duration= specifies (in seconds) the
\* erasure interval, and defaults to 86400 (one day)": while the server runs,
\* the table was last erased at most a duration and a timer period ago.
\* (GenerationEnds is what is left of it when the process is restarted early;
\* DurationOption is about a process that is not restarted.)
ErasureInterval ==
    phase = "serving" => life <= Duration + Period
=============================================================================
