---------------------------- MODULE AppNamespace ----------------------------
(***************************************************************************)
(* The in-memory objects of server.py: one AppNamespace per application in *)
(* use, and the Mailbox objects each of them has spawned, with their       *)
(* listeners.  They cache nothing of the database but decide who is told   *)
(* of a new message, so their IDENTITY matters: two objects for one        *)
(* mailbox id split its subscribers.  An object's identity is the thing it *)
(* stands for and a generation number no other reachable object has.       *)
(***************************************************************************)
EXTENDS ChannelDB

CONSTANTS
    Conn,       \* websocket connections the server can have at a time
    Gen         \* generation numbers of namespaces and of Mailbox objects

ASSUME GenAssumption == Gen \subseteq Nat

VARIABLES
    apps,       \* Server._apps: the registered namespaces
    spawned,    \* the _mailboxes of all reachable namespaces together
    listeners   \* the _listeners of all Mailbox objects: [conn, box] pairs

registry == <<apps, spawned, listeners>>

Namespace == [app : App, gen : Gen]
Box       == [ns : Namespace, id : Mailbox, gen : Gen]
Listener  == [conn : Conn, box : Box]

\* Python's None is no AppNamespace and no Mailbox.
ASSUME ObjectAssumption == None \notin Namespace \union Box

RegistryTypeOK ==
    /\ apps \subseteq Namespace
    /\ spawned \subseteq Box
    /\ listeners \subseteq Listener

RegistryInit ==
    /\ apps = {}
    /\ spawned = {}
    /\ listeners = {}

\* Garbage identities are used again, smallest first.  A connection holds at
\* most one namespace and one Mailbox, so |Conn| + 1 generations always suffice.
LeastUnused(used) == {g \in Gen \ used : \A h \in Gen \ used : g <= h}

Registered(ns, m) == {b \in spawned : b.ns = ns /\ b.id = m}

\* Fault: the dictionary's get(), without the default.
GetRegisteredApp(a, held) ==
    IF \E ns \in apps : ns.app = a THEN {ns \in apps : ns.app = a} ELSE {None}

\* Server.get_app: the registered namespace, or a new one.  `held` are the
\* namespaces connections still refer to.
GetApp(a, held) ==
    IF \E ns \in apps : ns.app = a
      THEN {ns \in apps : ns.app = a}
      ELSE {[app |-> a, gen |-> g] :
               g \in LeastUnused({ns.gen : ns \in {h \in held : h.app = a}})}

\* open_mailbox: the object the namespace has for this id, or a new one.
SpawnMailbox(ns, m, held) ==
    IF Registered(ns, m) # {}
      THEN Registered(ns, m)
      ELSE {[ns |-> ns, id |-> m, gen |-> g] :
               g \in LeastUnused({b.gen : b \in {h \in held : h.ns = ns /\ h.id = m}})}

ListeningTo(b)        == {l.conn : l \in {k \in listeners : k.box = b}}
WithoutListener(c)    == {l \in listeners : l.conn # c}
StopListeners(b)      == {l \in listeners : l.box # b}

\* free_mailbox pops by id: whichever object the namespace has for it now.
FreeMailbox(ns, m)    == spawned \ Registered(ns, m)

\* Fault: subscribing does not protect.
ListenedNowhere(ns) == {}

\* The mailboxes prune() touches: those whose object, in this namespace, has listeners.
ListenedIn(ns) == {b.id : b \in {k \in spawned : k.ns = ns /\ ListeningTo(k) # {}}}

\* Objects of a namespace nobody refers to are gone with it.
Reachable(held) == {b \in spawned : b.ns \in apps \union held}
=============================================================================
