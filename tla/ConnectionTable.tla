--------------------------- MODULE ConnectionTable ---------------------------
(***************************************************************************)
(* The table of current connections (connections.py), which the websocket  *)
(* protocol keeps up to date and makeService clears, together with the     *)
(* address tracker its rows refer to.  Accepting a connection commits to   *)
(* the address database first and to the channel database after.           *)
(***************************************************************************)
EXTENDS AddressIDTracker

CONSTANTS
    Conn,       \* websocket connections the server can have at a time
    Side,       \* what clients bind
    None,       \* Python's None
    MaxId       \* bound on the rows ever inserted

ASSUME TableAssumption == None \notin Side /\ MaxId \in Nat

VARIABLES
    connections,        \* rows of connections
    connectionMessages, \* the ids of the rows of connection_messages
    lastId,             \* AUTOINCREMENT
    socket,             \* socket[c]: a websocket that is connected, or None
    cleared             \* makeService has called clear_connections

tableVars == <<connections, connectionMessages, lastId, socket, cleared>>

AddrId     == [generation : Nat, counter : Nat]
Connection == [id : Nat, addrid : AddrId, side : Side \union {None}]
\* id 0: get_address_id has returned, connection_established has not been called
Socket     == [id : Nat, addr : Addr, addrid : AddrId, side : Side \union {None}]

\* None is no socket.
ASSUME SocketAssumption == None \notin Socket

TableInit ==
    /\ Init
    /\ connections = {}
    /\ connectionMessages = {}
    /\ lastId = 0
    /\ socket = [c \in Conn |-> None]
    /\ cleared = FALSE

Live == {c \in Conn : socket[c] # None}

\* The process listens, and is between two events.
Serving == phase = "serving" /\ cleared /\ \A c \in Live : socket[c].id # 0

-----------------------------------------------------------------------------
\* Fault: only the rows of connections that sent something.
ClearSilent == {r \in connections : r.id \notin connectionMessages}

\* ConnectionTable.clear: what is left.
ClearAll == {}

\* The last thing makeService does before it listens.
Clear ==
    /\ phase = "serving"
    /\ ~cleared
    /\ connections' = ClearAll
    /\ connectionMessages' = {}
    /\ cleared' = TRUE
    /\ UNCHANGED <<vars, lastId, socket>>

\* onConnect as far as get_id's commit.
Connect(c, a) ==
    /\ Serving
    /\ c \notin Live
    /\ GetKnown(a) \/ GetNew(a)
    /\ \E r \in addressIds' :
          /\ r.addr = a
          /\ socket' = [socket EXCEPT ![c] =
                [id |-> 0, addr |-> a, side |-> None,
                 addrid |-> [generation |-> r.generation, counter |-> r.counter]]]
    /\ UNCHANGED <<connections, connectionMessages, lastId, cleared>>

\* The rest of onConnect: ConnectionTable.established.
Established(c) ==
    /\ c \in Live
    /\ socket[c].id = 0
    /\ lastId < MaxId
    /\ lastId' = lastId + 1
    /\ connections' = connections
            \union {[id |-> lastId', addrid |-> socket[c].addrid, side |-> None]}
    /\ socket' = [socket EXCEPT ![c].id = lastId']
    /\ UNCHANGED <<vars, connectionMessages, cleared>>

\* onMessage, whatever the command and whether or not it is an error.
AddMessage(c) ==
    /\ Serving
    /\ c \in Live
    /\ connectionMessages' = connectionMessages \union {socket[c].id}
    /\ UNCHANGED <<vars, connections, lastId, socket, cleared>>

\* handle_bind, the first that works: Connection.add_message, then bound.
Bound(c, s) ==
    /\ Serving
    /\ c \in Live
    /\ socket[c].side = None
    /\ connectionMessages' = connectionMessages \union {socket[c].id}
    /\ connections' = {IF r.id = socket[c].id THEN [r EXCEPT !.side = s] ELSE r :
                          r \in connections}
    /\ socket' = [socket EXCEPT ![c].side = s]
    /\ UNCHANGED <<vars, lastId, cleared>>

MessagesWithout(id) == connectionMessages \ {id}

\* onClose: Connection.lost.
Lost(c) ==
    /\ Serving
    /\ c \in Live
    /\ connectionMessages' = MessagesWithout(socket[c].id)
    /\ connections' = {r \in connections : r.id # socket[c].id}
    /\ socket' = [socket EXCEPT ![c] = None]
    /\ UNCHANGED <<vars, lastId, cleared>>

\* The tracker's own steps, where the process takes them.
TrackerStep ==
    /\ \/ Start \/ Erase \/ EraseFails
       \/ Serving /\ Check
       \/ (Serving \/ phase = "down") /\ Tick
    /\ UNCHANGED tableVars

\* The process dies, between two commits as well.
ProcessDies ==
    /\ Crash
    /\ socket' = [c \in Conn |-> None]
    /\ cleared' = FALSE
    /\ UNCHANGED <<connections, connectionMessages, lastId>>

TableNext ==
    \/ TrackerStep
    \/ Clear
    \/ \E c \in Conn :
          \/ \E a \in Addr : Connect(c, a)
          \/ Established(c)
          \/ AddMessage(c)
          \/ \E s \in Side : Bound(c, s)
          \/ Lost(c)
    \/ ProcessDies

TableSpec == TableInit /\ [][TableNext]_<<vars, tableVars>>

-----------------------------------------------------------------------------
TableTypeOK ==
    /\ connections \subseteq Connection
    /\ connectionMessages \subseteq Nat
    /\ lastId \in Nat
    /\ socket \in [Conn -> Socket \union {None}]
    /\ cleared \in BOOLEAN

\* docs/operations.md:28 promises a row for each current connection: while the
\* server listens the table has one row for every live websocket, with its
\* address id and its side, and no other, whatever a previous process that died
\* left behind; and what it logged is about those.
TableIsCurrent ==
    Serving =>
        /\ connections = {[id |-> socket[c].id, addrid |-> socket[c].addrid,
                           side |-> socket[c].side] : c \in Live}
        /\ \A c, d \in Live : socket[c].id = socket[d].id => c = d
        /\ connectionMessages \subseteq {r.id : r \in connections}

\* get_address: the address of an id, if there still is one.
AddressesOf(i) == {r.addr : r \in {x \in addressIds : x.generation = i.generation
                                                        /\ x.counter = i.counter}}

\* docs/operations.md:15 "Each time the generation is incremented, the
\* `address_ids` table is erased.  This table is the only place where IP
\* addresses are recorded": the row of a connection leads to its address until
\* the generation ends, and nowhere after, also when the connection outlives
\* its generation and others are given the same counter.
TracedForAGeneration ==
    Serving => \A r \in connections, c \in Live :
        socket[c].id = r.id =>
            IF r.addrid.generation = generation THEN AddressesOf(r.addrid) = {socket[c].addr}
            ELSE ~unerased => AddressesOf(r.addrid) = {}
=============================================================================
