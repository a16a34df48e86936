--------------------------- MODULE MailboxServer ---------------------------
(***************************************************************************)
(* The mailbox server: websocket connections (server_websocket.py), the    *)
(* application namespaces and mailboxes they work on (server.py), the      *)
(* pruning timer and the restart of the process (server_tap.py).           *)
(*                                                                         *)
(* The server is one thread, so handlers never interleave; but a handler   *)
(* may commit several transactions, and the process may die between two of *)
(* them.  An action is therefore one transaction with the in-memory work   *)
(* around it; `task` says which handler is part way through, and while it  *)
(* does nothing else runs, except that the process may die.                *)
(***************************************************************************)
EXTENDS AppNamespace

CONSTANTS
    Overlap,        \* may one side of an application have two connections at once?
    Reopen          \* may a side open again a mailbox it has closed?

ASSUME EnvironmentAssumption ==
    /\ Overlap \in BOOLEAN
    /\ Reopen \in BOOLEAN

VARIABLES
    conn,       \* conn[c]: the attributes of a WebSocketServer object
    delivered,  \* delivered[c]: messages sent to c in its current subscription
    task        \* the handler in progress

vars == <<channelDB, registry, conn, delivered, task>>

\* `_listening` has no field of its own: outside a handler it says that `mailbox` is set.
ConnState ==
    [app         : Namespace \union {None},     \* None: not bound
     side        : Side \union {None},
     didAllocate : BOOLEAN,
     didClaim    : BOOLEAN,
     nameplate   : Name \union {None},
     didRelease  : BOOLEAN,
     mailboxId   : Mailbox \union {None},
     mailbox     : Box \union {None},
     didClose    : BOOLEAN]

\* No connection, or one that has not sent its bind yet.
Unbound ==
    [app |-> None, side |-> None, didAllocate |-> FALSE, didClaim |-> FALSE,
     nameplate |-> None, didRelease |-> FALSE, mailboxId |-> None,
     mailbox |-> None, didClose |-> FALSE]

Idle == [op |-> "idle"]

Task ==
    {Idle}
    \union [op : {"claim", "allocate"}, conn : Conn, mailbox : Mailbox]
    \union [op : {"retire"}, conn : Conn, name : Name]
    \union [op : {"close", "delete"}, conn : Conn, box : Box]
    \union [op : {"prune"}, todo : SUBSET App]
    \union [op : {"expire"}, ns : Namespace, todo : SUBSET App]

Init ==
    /\ ChannelInit
    /\ RegistryInit
    /\ conn = [c \in Conn |-> Unbound]
    /\ delivered = [c \in Conn |-> {}]
    /\ task = Idle

-----------------------------------------------------------------------------
(* What the handlers are made of. *)

Bound(c) == conn[c].app # None

\* onMessage dispatches a command of c.
Handling(c) == task = Idle /\ Bound(c)

HeldNamespaces == {conn[c].app : c \in {k \in Conn : Bound(k)}}
HeldBoxes      == {conn[c].mailbox : c \in {k \in Conn : conn[k].mailbox # None}}

\* generate_mailbox_id: 64 random bits, so an id nothing in the system mentions.
FreshMailbox(m) ==
    /\ mailboxes[m] = None
    /\ \A x \in messages : x.mailbox # m
    /\ \A b \in spawned : b.id # m
    /\ \A c \in Conn : conn[c].mailboxId # m

\* A message no row and no subscriber has seen.
FreshMessage(x) ==
    /\ \A r \in messages : r.id # x
    /\ \A c \in Conn : x \notin delivered[c]

\* Messages are told apart within a subscription only.
Forget(cs) == delivered' = [c \in Conn |-> IF c \in cs THEN {} ELSE delivered[c]]

\* onClose: by the client, the network, or after a handler raised an unforeseen exception.
Disconnect(c) ==
    /\ conn' = [conn EXCEPT ![c] = Unbound]
    /\ listeners' = WithoutListener(c)
    /\ Forget({c})
    /\ spawned' = Reachable({conn[d].app : d \in {k \in Conn \ {c} : Bound(k)}})
    /\ apps' = apps
    /\ task' = Idle

-----------------------------------------------------------------------------
(* handle_bind, handle_allocate, handle_claim, handle_release. *)

Bind(c, a, s) ==
    /\ task = Idle
    /\ ~Bound(c)
    /\ Overlap \/ \A d \in Conn : Bound(d) => conn[d].app.app # a \/ conn[d].side # s
    /\ \E ns \in GetApp(a, HeldNamespaces) :
          /\ apps' = apps \union {ns}
          /\ conn' = [conn EXCEPT ![c].app = ns, ![c].side = s]
    /\ UNCHANGED <<channelDB, spawned, listeners, delivered, task>>

\* claim_nameplate on a name without a row, up to its commit.
CreateNameplate(a, n, s, m) ==
    /\ NameplateRows(a, n) = {}
    /\ FreshMailbox(m)
    /\ mailboxes' = [mailboxes EXCEPT ![m] = a]
    /\ idle' = [idle EXCEPT ![m] = 0]
    /\ nameplates' = nameplates \union {[app |-> a, name |-> n, mailbox |-> m]}
    /\ nameplateSides' = nameplateSides
            \union {[app |-> a, name |-> n, side |-> s, claimed |-> TRUE]}

\* claim_nameplate on a name that has a row, up to its commit.
JoinNameplate(a, n, s, m) ==
    /\ [app |-> a, name |-> n, mailbox |-> m] \in nameplates
    /\ \A r \in ClaimRowOf(a, n, s) : r.claimed
    /\ nameplateSides' = nameplateSides
            \union {[app |-> a, name |-> n, side |-> s, claimed |-> TRUE]}
    /\ UNCHANGED <<mailboxes, idle, nameplates>>

\* handle_allocate: _find_available_nameplate_id picks any name without a row.
Allocate(c) ==
    /\ Handling(c)
    /\ ~conn[c].didAllocate
    /\ \E n \in Name, m \in Mailbox :
          /\ CreateNameplate(conn[c].app.app, n, conn[c].side, m)
          /\ task' = [op |-> "allocate", conn |-> c, mailbox |-> m]
    /\ UNCHANGED <<mailboxSides, messages, registry, conn, delivered>>

\* All names are taken: ValueError, which onMessage does not catch.
AllocateFails(c) ==
    /\ Handling(c)
    /\ ~conn[c].didAllocate
    /\ \A n \in Name : NameplateRows(conn[c].app.app, n) # {}
    /\ Disconnect(c)
    /\ UNCHANGED channelDB

Claim(c, n) ==
    /\ Handling(c)
    /\ ~conn[c].didClaim
    /\ \E m \in Mailbox :
          /\ \/ CreateNameplate(conn[c].app.app, n, conn[c].side, m)
             \/ JoinNameplate(conn[c].app.app, n, conn[c].side, m)
          /\ task' = [op |-> "claim", conn |-> c, mailbox |-> m]
    /\ conn' = [conn EXCEPT ![c].didClaim = TRUE, ![c].nameplate = n]
    /\ UNCHANGED <<mailboxSides, messages, registry, delivered>>

\* ReclaimedError is answered with an error; the connection has used its claim.
ClaimRefused(c, n) ==
    /\ Handling(c)
    /\ ~conn[c].didClaim
    /\ \E r \in ClaimRowOf(conn[c].app.app, n, conn[c].side) : ~r.claimed
    /\ conn' = [conn EXCEPT ![c].didClaim = TRUE, ![c].nameplate = n]
    /\ UNCHANGED <<channelDB, registry, delivered, task>>

\* claim_nameplate after its commit: open the nameplate's mailbox.  CrowdedError
\* changes the answer only.
OpenClaimed ==
    /\ task.op \in {"claim", "allocate"}
    /\ LET c == task.conn
           m == task.mailbox
       IN /\ OpenTransaction(conn[c].app.app, m, conn[c].side)
          /\ \E b \in SpawnMailbox(conn[c].app, m, HeldBoxes) : spawned' = spawned \union {b}
          /\ conn' = [conn EXCEPT ![c].didAllocate = @ \/ task.op = "allocate"]
    /\ task' = Idle
    /\ UNCHANGED <<nameplates, nameplateSides, messages, apps, listeners, delivered>>

\* Fault: release stops only at a nameplate all sides still claim.
ClaimedByAll(a, n, rows) == \A r \in rows : r.app = a /\ r.name = n => r.claimed

\* Any remaining claims?
StillClaimed(a, n, rows) == \E r \in rows : r.app = a /\ r.name = n /\ r.claimed

\* No row for the name, or for this side on it: release_nameplate returns at once.
Release(c, n) ==
    /\ Handling(c)
    /\ ~conn[c].didRelease
    /\ conn[c].nameplate \in {None, n}
    /\ conn' = [conn EXCEPT ![c].didRelease = TRUE]
    /\ LET a == conn[c].app.app
           after == ClaimsAfterRelease(a, n, conn[c].side)
       IN /\ nameplateSides' = after
          /\ task' = IF ClaimRowOf(a, n, conn[c].side) # {} /\ ~StillClaimed(a, n, after)
                       THEN [op |-> "retire", conn |-> c, name |-> n]
                       ELSE Idle
    /\ UNCHANGED <<mailboxes, idle, mailboxSides, nameplates, messages, registry, delivered>>

\* release_nameplate after its commit, when no claims remain.
RetireNameplate ==
    /\ task.op = "retire"
    /\ LET gone == NameplateRows(conn[task.conn].app.app, task.name)
       IN /\ nameplates' = nameplates \ gone
          /\ nameplateSides' = ClaimsWithoutNameplates(gone)
    /\ task' = Idle
    /\ UNCHANGED <<mailboxes, idle, mailboxSides, messages, registry, conn, delivered>>

-----------------------------------------------------------------------------
(* handle_open, handle_add, handle_close. *)

\* The environment: a client that keeps to one open and one close per mailbox.
MayOpen(c, m) ==
    Reopen \/ [mailbox |-> m, side |-> conn[c].side, opened |-> FALSE] \notin mailboxSides

\* Fault: a new listener hears of later messages only.
ReplayNothing(a, m) == {}

\* add_listener returns the messages so far.
Replay(a, m) == MessagesOf(a, m)

Open(c, m) ==
    /\ Handling(c)
    /\ conn[c].mailbox = None
    /\ MayOpen(c, m)
    /\ ~Crowded(m, conn[c].side)
    /\ OpenTransaction(conn[c].app.app, m, conn[c].side)
    /\ \E b \in SpawnMailbox(conn[c].app, m, HeldBoxes) :
          /\ spawned' = spawned \union {b}
          /\ listeners' = listeners \union {[conn |-> c, box |-> b]}
          /\ conn' = [conn EXCEPT ![c].mailboxId = m, ![c].mailbox = b]
    /\ delivered' = [delivered EXCEPT ![c] = Replay(conn[c].app.app, m)]
    /\ UNCHANGED <<nameplates, nameplateSides, messages, apps, task>>

\* The third side's row is committed before the error is raised.
OpenCrowded(c, m) ==
    /\ Handling(c)
    /\ conn[c].mailbox = None
    /\ MayOpen(c, m)
    /\ Crowded(m, conn[c].side)
    /\ OpenTransaction(conn[c].app.app, m, conn[c].side)
    /\ \E b \in SpawnMailbox(conn[c].app, m, HeldBoxes) : spawned' = spawned \union {b}
    /\ conn' = [conn EXCEPT ![c].mailboxId = m]
    /\ UNCHANGED <<nameplates, nameplateSides, messages, apps, listeners, delivered, task>>

\* open, or a close that has to open first, of an id another application has.
OpenFails(c, m) ==
    /\ Handling(c)
    /\ conn[c].mailbox = None
    /\ IdTaken(conn[c].app.app, m)
    /\ Disconnect(c)
    /\ UNCHANGED channelDB

\* Fault: the loop returns after its first listener.
BroadcastToOne(b, x) ==
    IF ListeningTo(b) = {}
      THEN UNCHANGED delivered
      ELSE \E c \in ListeningTo(b) : delivered' = [delivered EXCEPT ![c] = @ \union {x}]

\* broadcast_message: to the listeners of this very object.
Broadcast(b, x) ==
    delivered' = [c \in Conn |-> IF c \in ListeningTo(b) THEN delivered[c] \union {x}
                                                         ELSE delivered[c]]

Add(c, x) ==
    /\ Handling(c)
    /\ conn[c].mailbox # None
    /\ FreshMessage(x)
    /\ LET b == conn[c].mailbox
       IN /\ messages' = messages \union {[app |-> b.ns.app, mailbox |-> b.id, id |-> x]}
          /\ Touch({b.id})
          /\ Broadcast(b, x)
    /\ UNCHANGED <<mailboxes, mailboxSides, nameplates, nameplateSides, registry, conn, task>>

MayClose(c, m) ==
    /\ Handling(c)
    /\ ~conn[c].didClose
    /\ conn[c].mailboxId \in {None, m}

\* handle_close on the mailbox the connection has open.
CloseHeld(c, m) ==
    /\ MayClose(c, m)
    /\ conn[c].mailbox # None
    /\ listeners' = WithoutListener(c)
    /\ Forget({c})
    /\ conn' = [conn EXCEPT ![c].didClose = TRUE]
    /\ task' = [op |-> "close", conn |-> c, box |-> conn[c].mailbox]
    /\ UNCHANGED <<channelDB, apps, spawned>>

\* handle_close without one: a client closes again after it reconnected.
CloseUnheld(c, m) ==
    /\ MayClose(c, m)
    /\ conn[c].mailbox = None
    /\ ~Crowded(m, conn[c].side)
    /\ OpenTransaction(conn[c].app.app, m, conn[c].side)
    /\ \E b \in SpawnMailbox(conn[c].app, m, HeldBoxes) :
          /\ spawned' = spawned \union {b}
          /\ conn' = [conn EXCEPT ![c].didClose = TRUE, ![c].mailbox = b]
          /\ task' = [op |-> "close", conn |-> c, box |-> b]
    /\ UNCHANGED <<nameplates, nameplateSides, messages, apps, listeners, delivered>>

CloseCrowded(c, m) ==
    /\ MayClose(c, m)
    /\ conn[c].mailbox = None
    /\ Crowded(m, conn[c].side)
    /\ OpenTransaction(conn[c].app.app, m, conn[c].side)
    /\ \E b \in SpawnMailbox(conn[c].app, m, HeldBoxes) : spawned' = spawned \union {b}
    /\ UNCHANGED <<nameplates, nameplateSides, messages, apps, listeners, conn, delivered, task>>

\* Mailbox.close returns early: there is no row to close.
NothingToClose(b, s) ==
    \/ mailboxes[b.id] # b.ns.app
    \/ \A r \in SidesOf(b.id) : r.side # s

\* Fault: the mailbox is kept only while all its sides are open.
AllOpen(m, rows) == \A r \in rows : r.mailbox = m => r.opened

\* Mailbox.close looks at the rows of all sides.
StillOpen(m, rows) == \E r \in rows : r.mailbox = m /\ r.opened

\* Mailbox.close up to its first commit.
CloseSide ==
    /\ task.op = "close"
    /\ LET c == task.conn
           b == task.box
           after == SidesAfterClose(b.id, conn[c].side)
           last == ~NothingToClose(b, conn[c].side) /\ ~StillOpen(b.id, after)
       IN /\ mailboxSides' = IF NothingToClose(b, conn[c].side) THEN mailboxSides ELSE after
          /\ task' = IF last THEN [task EXCEPT !.op = "delete"] ELSE Idle
          /\ conn' = IF last THEN conn ELSE [conn EXCEPT ![c].mailbox = None]
    /\ UNCHANGED <<mailboxes, idle, nameplates, nameplateSides, messages, registry, delivered>>

\* Deleting the mailbox's nameplates fails while another side has a row on one.
NameplateInTheWay(b, s) ==
    \E r \in ClaimsWithout(s), n \in NameplatesOf(b.id) : n.app = r.app /\ n.name = r.name

\* Mailbox.close after the last side closed: second transaction, then stop the
\* listeners and forget the object.
DeleteMailbox ==
    /\ task.op = "delete"
    /\ LET c == task.conn
           b == task.box
       IN /\ ~NameplateInTheWay(b, conn[c].side)
          /\ nameplateSides' = ClaimsWithout(conn[c].side)
          /\ nameplates' = nameplates \ NameplatesOf(b.id)
          /\ DeleteMailboxes({b.id})
          /\ listeners' = StopListeners(b)
          /\ Forget(ListeningTo(b))
          /\ spawned' = FreeMailbox(b.ns, b.id)
          /\ conn' = [conn EXCEPT ![c].mailbox = None]
    /\ task' = Idle
    /\ apps' = apps

\* IntegrityError: the connection goes, and its onClose commits what the
\* transaction had done so far.
DeleteFails ==
    /\ task.op = "delete"
    /\ NameplateInTheWay(task.box, conn[task.conn].side)
    /\ nameplateSides' = ClaimsWithout(conn[task.conn].side)
    /\ Disconnect(task.conn)
    /\ UNCHANGED <<mailboxes, idle, mailboxSides, nameplates, messages>>

\* onClose
Lost(c) ==
    /\ Handling(c)
    /\ Disconnect(c)
    /\ UNCHANGED channelDB

-----------------------------------------------------------------------------
(* The expiration timer (prune_all_apps), time, and the process. *)

StartPrune ==
    /\ task = Idle
    /\ AppsWithRows # {}
    /\ task' = [op |-> "prune", todo |-> AppsWithRows]
    /\ UNCHANGED <<channelDB, registry, conn, delivered>>

\* prune, first transaction: mailboxes with listeners count as just used.
PruneTouch ==
    /\ task.op = "prune"
    /\ \E a \in task.todo : 
          /\ \A later \in task.todo : a <= later
          /\ \E ns \in GetApp(a, HeldNamespaces) :
                /\ apps' = apps \union {ns}
                /\ Touch(ListenedIn(ns))
                /\ task' = [op |-> "expire", ns |-> ns, todo |-> task.todo \ {a}]
    /\ UNCHANGED <<mailboxes, mailboxSides, nameplates, nameplateSides, messages,
                   spawned, listeners, conn, delivered>>

\* "updated" > old is new, anything else is old.
OldMailboxes(a) == {m \in Mailbox : mailboxes[m] = a /\ idle[m] = Expire}

\* Fault: an old mailbox's nameplate is kept.
OldNameplatesOfSides(a) ==
    {n \in nameplates : /\ n.app = a /\ n.mailbox \in OldMailboxes(a)
                        /\ \A r \in ClaimRows(n.app, n.name) : ~r.claimed}

OldNameplates(a) == {n \in nameplates : n.app = a /\ n.mailbox \in OldMailboxes(a)}

\* prune, second transaction; prune_all_apps then drops a namespace without mailboxes.
PruneDelete ==
    /\ task.op = "expire"
    /\ LET ns == task.ns
       IN /\ nameplates' = nameplates \ OldNameplates(ns.app)
          /\ nameplateSides' = ClaimsWithoutNameplates(OldNameplates(ns.app))
          /\ DeleteMailboxes(OldMailboxes(ns.app))
          /\ apps' = IF \E b \in spawned : b.ns = ns THEN apps ELSE apps \ {ns}
    /\ task' = IF task.todo = {} THEN Idle ELSE [op |-> "prune", todo |-> task.todo]
    /\ UNCHANGED <<spawned, listeners, conn, delivered>>

\* Time passes for every mailbox row.
Tick ==
    /\ task = Idle
    /\ idle' = [m \in Mailbox |->
                  IF mailboxes[m] # None /\ idle[m] < Expire THEN idle[m] + 1 ELSE idle[m]]
    /\ UNCHANGED <<mailboxes, mailboxSides, nameplates, nameplateSides, messages,
                   registry, conn, delivered, task>>

\* The process dies, at any point of any handler, and is started again.
Restart ==
    /\ apps' = {}
    /\ spawned' = {}
    /\ listeners' = {}
    /\ conn' = [c \in Conn |-> Unbound]
    /\ delivered' = [c \in Conn |-> {}]
    /\ task' = Idle
    /\ UNCHANGED channelDB

-----------------------------------------------------------------------------
Command(c) ==
    \/ \E a \in App, s \in Side : Bind(c, a, s)
    \/ Allocate(c)
    \/ AllocateFails(c)
    \/ \E n \in Name : Claim(c, n) \/ ClaimRefused(c, n) \/ Release(c, n)
    \/ \E m \in Mailbox :
          \/ Open(c, m) \/ OpenCrowded(c, m) \/ OpenFails(c, m)
          \/ CloseHeld(c, m) \/ CloseUnheld(c, m) \/ CloseCrowded(c, m)
    \/ \E x \in Msg : Add(c, x)
    \/ Lost(c)

\* The rest of a handler, or of a run of the timer, that has begun.
Continue ==
    \/ OpenClaimed
    \/ RetireNameplate
    \/ CloseSide
    \/ DeleteMailbox
    \/ DeleteFails
    \/ PruneTouch
    \/ PruneDelete

Next ==
    \/ \E c \in Conn : Command(c)
    \/ Continue
    \/ StartPrune
    \/ Tick
    \/ Restart

Spec == Init /\ [][Next]_vars

\* The reactor runs a handler to its end, and time passes (strong fairness: it is
\* stopped while a handler runs, however often that is).  The timer fires again and
\* again, and the process does not die in the middle of every run of the pruner, nor
\* every time before the turn of the last application.
Fairness ==
    /\ WF_vars(Continue)
    /\ SF_vars(Tick)
    /\ []<>(AppsWithRows = {}) \/ []<><<PruneDelete /\ task' = Idle>>_vars

FairSpec == Spec /\ Fairness

\* No bound connection's namespace has been dropped by the timer (prune_all_apps
\* drops one without Mailbox objects, whoever is bound to it).  This and the next
\* are assumptions on behaviours that the code does not see to: DocumentedClaims
\* has what happens otherwise.
NamespacesKept == \A c \in Conn : Bound(c) => conn[c].app \in apps

\* ... and no connection's Mailbox object has been dropped by a last close (which
\* stops the listeners of the mailbox's other connections, but leaves them the object).
ObjectsKept ==
    NamespacesKept /\ \A c \in Conn : conn[c].mailbox # None => conn[c].mailbox \in spawned

\* The behaviours in which it holds.
ObjectsKeptSpec == Init /\ [][Next /\ ObjectsKept']_vars

-----------------------------------------------------------------------------
(* What holds whatever the clients do, and whenever the process dies. *)

ConnTypeOK ==
    /\ conn \in [Conn -> ConnState]
    /\ \A c \in Conn : Bound(c) => conn[c].side \in Side

TypeOK ==
    /\ ChannelTypeOK
    /\ RegistryTypeOK
    /\ ConnTypeOK
    /\ delivered \in [Conn -> SUBSET Msg]
    /\ task \in Task

\* Every committed state satisfies the schema's REFERENCES clauses, and a
\* nameplate's mailbox belongs to the nameplate's own application (which the
\* schema does not say): the two-transaction claim, release and close, a
\* restart between their transactions, and the half-done close whose last
\* statement fails leave no dangling row.
ForeignKeys ==
    /\ \A n \in nameplates : mailboxes[n.mailbox] = n.app
    /\ \A r \in mailboxSides : mailboxes[r.mailbox] # None
    /\ \A r \in nameplateSides : NameplateRows(r.app, r.name) # {}

\* No constraint of the schema makes these rows unique; the handlers'
\* SELECT-then-INSERT does: one nameplate per name of an application and per
\* mailbox (a mailbox is allocated for one nameplate only), one row per side
\* of a mailbox and of a nameplate.
UniqueRows ==
    /\ \A n1, n2 \in nameplates :
          (n1.app = n2.app /\ n1.name = n2.name) \/ n1.mailbox = n2.mailbox => n1 = n2
    /\ \A r1, r2 \in mailboxSides :
          r1.mailbox = r2.mailbox /\ r1.side = r2.side => r1 = r2
    /\ \A r1, r2 \in nameplateSides :
          r1.app = r2.app /\ r1.name = r2.name /\ r1.side = r2.side => r1 = r2

\* A registered Mailbox object some connection listens to, in a namespace the
\* Server knows: what the pruner protects.
Protected(m) ==
    \E l \in listeners : l.box \in spawned /\ l.box.ns \in apps /\ l.box.id = m
                            /\ l.box.ns.app = mailboxes[m]

\* A mailbox is deleted in two cases only: all its sides have closed it, or it
\* has not been used for the expiration time and nobody listens to it.
MailboxGoesWhenDone ==
    [][\A m \in Mailbox : mailboxes[m] # None /\ mailboxes'[m] = None =>
          \/ \A r \in SidesOf(m) : ~r.opened
          \/ (idle[m] = Expire /\ ~Protected(m))]_vars

\* A stored message is not lost while its mailbox exists: not by a restart, not
\* by a side that closes, not by the pruning of other mailboxes.
MessagesStay ==
    [][\A x \in messages :
          \/ x \in messages'
          \/ mailboxes[x.mailbox] # None /\ mailboxes'[x.mailbox] = None]_vars

\* A side that closed a mailbox stays closed for as long as the mailbox exists:
\* neither open, nor claim, nor a repeated close, brings its row back.
ClosedStaysClosed ==
    [][\A r \in mailboxSides : ~r.opened =>
          r \in mailboxSides' \/ mailboxes'[r.mailbox] = None]_vars

\* A nameplate names one mailbox for as long as it exists, and it goes only
\* when nobody claims it any more or when its mailbox goes.
NameplateGoesWhenFree ==
    [][\A n \in nameplates :
          \/ n \in nameplates'
          \/ \A r \in ClaimRows(n.app, n.name) : ~r.claimed
          \/ mailboxes'[n.mailbox] = None]_vars

\* A side's claim, and the mark that it released it, last as long as the
\* nameplate, except that closing a mailbox last takes all claim rows of the
\* closing side with it.
ClaimsLast ==
    [][\A r \in nameplateSides :
          \/ \E q \in nameplateSides' : q.app = r.app /\ q.name = r.name /\ q.side = r.side
                                            /\ (q.claimed => r.claimed)
          \/ \A n \in nameplates' : n.app # r.app \/ n.name # r.name
          \/ task.op = "delete" /\ conn[task.conn].side = r.side]_vars

\* The rows a step adds to or takes from a table.
Changes(before, after) == (before \ after) \union (after \ before)

\* docs/server-protocol.md:19-23 "all subsequent commands are scoped to this
\* application": every transaction, the second ones of release, close and prune
\* included, changes mailboxes and nameplates of one application, whichever
\* names and sides the others use; but a last close takes the closing side's
\* claims in every application.
ApplicationsApart ==
    [][\E a \in App :
          /\ \A m \in Mailbox :
                mailboxes'[m] # mailboxes[m] => {mailboxes[m], mailboxes'[m]} = {None, a}
          /\ \A r \in Changes(mailboxSides, mailboxSides') :
                a \in {mailboxes[r.mailbox], mailboxes'[r.mailbox]}
          /\ \A n \in Changes(nameplates, nameplates') : n.app = a
          /\ \A r \in Changes(nameplateSides, nameplateSides') :
                r.app = a \/ (task.op = "delete" /\ r.side = conn[task.conn].side)]_vars

\* An unused mailbox is removed in the end: none stays unused for good, each is
\* used again or goes, again and again.
UnusedMailboxExpires ==
    \A m \in Mailbox : []<>(mailboxes[m] = None \/ idle[m] = 0)

-----------------------------------------------------------------------------
(* What holds as long as no connection holds a dropped object: for all      *)
(* clients under ObjectsKept, for clients without overlapping connections   *)
(* and without reopening already under NamespacesKept.                      *)

\* Nobody listens to a mailbox that is gone, that its side has closed, or that
\* the pruner would not see as listened to.  (For clients without overlapping
\* connections and reopening; an overlapping one may still listen when its side
\* has closed.)
ListenerProtected ==
    \A l \in listeners :
        /\ l.box \in spawned
        /\ l.box.ns \in apps
        /\ mailboxes[l.box.id] = l.box.ns.app
        /\ [mailbox |-> l.box.id, side |-> conn[l.conn].side, opened |-> TRUE] \in mailboxSides

\* docs/server-protocol.md:185-187 "When a client sends `open`, it will get back
\* a `message` response for every message in the mailbox.  It will also get a
\* real-time `message` for every `add` performed by clients later": a subscribed
\* connection has been sent the messages of its mailbox, and nothing else.
CompleteDelivery ==
    \A l \in listeners : delivered[l.conn] = MessagesOf(l.box.ns.app, l.box.id)

\* server_websocket.py:25-26 "When the last side closes a mailbox, its contents
\* are deleted": no message outlives its mailbox, for whoever opens the same id
\* next, and out of the pruner's reach until then.
NoOrphanMessages ==
    \A x \in messages : mailboxes[x.mailbox] = x.app

\* A mailbox is a pipe between two ends: no third side ever listens to it.
TwoListeningSides ==
    \A m \in Mailbox :
        Cardinality({conn[l.conn].side : l \in {k \in listeners : k.box.id = m}}) <= 2
=============================================================================
