----------------------- MODULE MailboxDeliveryProofs ------------------------
(***************************************************************************)
(* What clients can rely on as long as no connection holds a dropped       *)
(* object (ObjectsKept): whoever subscribes to a mailbox hears all of it,  *)
(* and nothing of it outlives it.  The first part is about any clients.    *)
(* The second is about clients without overlapping connections and without *)
(* reopening: for them it is enough that the timer drops no namespace in   *)
(* use (NamespacesKept), and a mailbox exists for as long as anybody is    *)
(* subscribed to it.                                                       *)
(*                                                                         *)
(* The code sees to neither.  prune_all_apps drops a namespace without     *)
(* Mailbox objects whoever is bound to it (server.py:626), and the last    *)
(* close of a mailbox drops the object for the other connections of the    *)
(* sides that closed it (server.py:180).  What happens then is in          *)
(* DocumentedClaims, whose run claim_stale_namespace shows the first.      *)
(*                                                                         *)
(* The argument is that otherwise the two representations of a mailbox     *)
(* agree: a namespace has one object per mailbox, and what a connection    *)
(* holds is registered and is what it listens to.  Inside says so.         *)
(***************************************************************************)
EXTENDS MailboxTableProofs, FiniteSetTheorems

-----------------------------------------------------------------------------
(* The inductive invariant. *)

BoxesCurrent == \A b \in spawned : b.ns \in apps

\* AppNamespace._mailboxes is a dictionary.
OneBox == \A b1, b2 \in spawned : b1.ns = b2.ns /\ b1.id = b2.id => b1 = b2

\* handle_close stops listening at once, but lets go of the Mailbox at its end.
Closing(c) == task.op \in {"close", "delete"} /\ task.conn = c

HeldMailbox ==
    \A c \in Conn : conn[c].mailbox # None =>
        /\ Bound(c)
        /\ conn[c].mailbox.ns = conn[c].app
        /\ [conn |-> c, box |-> conn[c].mailbox] \in listeners \/ Closing(c)

ListenerHolds == \A l \in listeners : conn[l.conn].mailbox = l.box /\ ~Closing(l.conn)

CloserHolds == task.op \in {"close", "delete"} => conn[task.conn].mailbox = task.box

\* Nobody listens to a mailbox that is gone or that the pruner would not see as
\* listened to, and whoever listens has a row.
ListenerKnown ==
    \A l \in listeners :
        /\ l.box \in spawned
        /\ l.box.ns \in apps
        /\ mailboxes[l.box.id] = l.box.ns.app
        /\ \E r \in mailboxSides : r.mailbox = l.box.id /\ r.side = conn[l.conn].side

Objects     == ObjectsKept /\ BoxesCurrent /\ OneBox
Connections == HeldMailbox /\ ListenerHolds /\ CloserHolds
Delivery    == ListenerKnown /\ CompleteDelivery /\ NoOrphanMessages

Inside == Objects /\ Connections /\ Delivery

-----------------------------------------------------------------------------
(* What several steps have in common. *)

ConnKept ==
    \A d \in Conn :
        /\ conn'[d].app = conn[d].app
        /\ conn'[d].side = conn[d].side
        /\ conn'[d].mailbox = conn[d].mailbox

LiveKept == \A m \in Mailbox : mailboxes[m] # None => mailboxes'[m] = mailboxes[m]

RowsKept ==
    \A r \in mailboxSides : \E q \in mailboxSides' : q.mailbox = r.mailbox /\ q.side = r.side

NobodyCloses == task.op \notin {"close", "delete"} /\ task'.op \notin {"close", "delete"}

\* A step that takes nothing away leaves the listeners that remain what they had.
LEMMA DeliveryKept ==
    ASSUME Typed, Delivery, LiveKept,
           listeners' \subseteq listeners,
           spawned \subseteq spawned',
           apps \subseteq apps',
           RowsKept,
           messages' = messages,
           \A l \in listeners' : /\ conn'[l.conn].side = conn[l.conn].side
                                 /\ delivered'[l.conn] = delivered[l.conn]
    PROVE  Delivery'
<1>1. \A l \in listeners : l.box \in Box /\ l.box.id \in Mailbox /\ l.box.ns.app \in App
  BY DEF Typed, TypeOK, RegistryTypeOK, Listener, Box, Namespace
<1>2. ListenerKnown'
  <2> SUFFICES ASSUME NEW l \in listeners'
               PROVE  /\ l.box \in spawned'
                      /\ l.box.ns \in apps'
                      /\ mailboxes'[l.box.id] = l.box.ns.app
                      /\ \E r \in mailboxSides' : r.mailbox = l.box.id /\ r.side = conn'[l.conn].side
    BY DEF ListenerKnown
  <2>1. mailboxes[l.box.id] = l.box.ns.app /\ l.box.ns.app # None
    BY <1>1, NoneAssumption DEF Delivery, ListenerKnown
  <2>2. \E r \in mailboxSides' : r.mailbox = l.box.id /\ r.side = conn'[l.conn].side
    <3>1. PICK q \in mailboxSides : q.mailbox = l.box.id /\ q.side = conn[l.conn].side
      BY DEF Delivery, ListenerKnown
    <3> QED BY <3>1 DEF RowsKept
  <2> QED BY <1>1, <2>1, <2>2 DEF Delivery, ListenerKnown, LiveKept
<1>3. CompleteDelivery'
  BY DEF Delivery, CompleteDelivery, MessagesOf
<1>4. NoOrphanMessages'
  <2>1. \A x \in messages : x.mailbox \in Mailbox /\ mailboxes[x.mailbox] = x.app /\ x.app # None
    BY NoneAssumption DEF Typed, TypeOK, ChannelTypeOK, Message, Delivery, NoOrphanMessages
  <2> QED BY <2>1 DEF NoOrphanMessages, LiveKept
<1> QED BY <1>2, <1>3, <1>4 DEF Delivery

\* No step of this kind changes who holds or hears what.
LEMMA ConnectionsKept ==
    ASSUME Connections, ConnKept, NobodyCloses, listeners' = listeners,
           listeners \subseteq Listener
    PROVE  Connections'
<1>1. \A l \in listeners : l.conn \in Conn
  BY DEF Listener
<1>2. HeldMailbox'
  BY DEF Connections, HeldMailbox, ConnKept, Bound, NobodyCloses, Closing
<1>3. ListenerHolds'
  BY <1>1 DEF Connections, ListenerHolds, ConnKept, NobodyCloses, Closing
<1>4. CloserHolds'
  BY DEF CloserHolds, NobodyCloses
<1> QED BY <1>2, <1>3, <1>4 DEF Connections

\* open_mailbox opens the row for the side and leaves other mailboxes alone.
LEMMA OpenedTables ==
    ASSUME ChannelTypeOK, NEW a \in App, NEW m \in Mailbox, NEW s, OpenTransaction(a, m, s)
    PROVE  /\ LiveKept /\ RowsKept
           /\ mailboxes'[m] = a
           /\ \E r \in mailboxSides' : r.mailbox = m /\ r.side = s
<1>1. mailboxes[m] = None \/ mailboxes[m] = a
  BY DEF OpenTransaction, IdTaken
<1>2. mailboxSides \subseteq mailboxSides'
  BY DEF OpenTransaction, SidesAfterOpen
<1>3. \E r \in mailboxSides' : r.mailbox = m /\ r.side = s
  <2>1. CASE \E r \in SidesOf(m) : r.side = s
    BY <2>1 DEF OpenTransaction, SidesAfterOpen, SidesOf
  <2>2. CASE ~ \E r \in SidesOf(m) : r.side = s
    <3> DEFINE row == [mailbox |-> m, side |-> s, opened |-> TRUE]
    <3>1. row \in mailboxSides'
      BY <2>2 DEF OpenTransaction, SidesAfterOpen
    <3>2. row.mailbox = m /\ row.side = s
      OBVIOUS
    <3> HIDE DEF row
    <3> QED BY <3>1, <3>2
  <2> QED BY <2>1, <2>2
<1> QED BY <1>1, <1>2, <1>3 DEF OpenTransaction, ChannelTypeOK, LiveKept, RowsKept

\* The object open_mailbox returns is the only one of its namespace and id.
LEMMA ObjectsOpened ==
    ASSUME Typed, Objects, NEW c \in Conn, Bound(c), NEW m \in Mailbox, NEW held,
           NEW b \in SpawnMailbox(conn[c].app, m, held),
           spawned' = spawned \union {b},
           apps' = apps,
           ObjectsKept'
    PROVE  /\ b.ns = conn[c].app
           /\ b.id = m
           /\ b \in Box
           /\ Objects'
<1> DEFINE ns == conn[c].app
<1>1. ns \in Namespace /\ ns \in apps
  BY BoundType DEF Typed, TypeOK, Objects, ObjectsKept, NamespacesKept
<1>2. b.ns = ns /\ b.id = m
  <2>1. ASSUME NEW used
        PROVE  \A k \in {[ns |-> ns, id |-> m, gen |-> g] : g \in LeastUnused(used)} :
                  k.ns = ns /\ k.id = m
    OBVIOUS
  <2> QED BY <2>1 DEF SpawnMailbox, Registered
<1>3. b \in Box
  BY <1>1, SpawnMailboxType DEF Typed, TypeOK
<1>4. BoxesCurrent'
  BY <1>1, <1>2 DEF Objects, BoxesCurrent
<1>5. OneBox'
  <2>1. CASE b \in spawned
    BY <2>1 DEF Objects, OneBox
  <2>2. CASE Registered(ns, m) = {}
    BY <1>2, <2>2 DEF Objects, OneBox, Registered
  <2> QED BY <2>1, <2>2 DEF SpawnMailbox, Registered
<1> QED BY <1>2, <1>3, <1>4, <1>5 DEF Objects

-----------------------------------------------------------------------------
(* Every step that leaves no connection with a dropped object keeps Inside;   *)
(* one lemma per kind of step.                                                *)

\* Claims, nameplates, time and the start of the pruner.
LEMMA AsideStep ==
    ASSUME Typed, Inside, ObjectsKept', ConnKept, LiveKept, NobodyCloses,
           UNCHANGED <<registry, delivered, mailboxSides, messages>>
    PROVE  Inside'
<1>1. listeners \subseteq Listener
  BY DEF Typed, TypeOK, RegistryTypeOK
<1>2. Objects'
  BY DEF Inside, Objects, BoxesCurrent, OneBox, registry
<1>3. Connections'
  BY <1>1, ConnectionsKept DEF Inside, registry
<1>4. Delivery'
  <2>1. \A l \in listeners : l.conn \in Conn
    BY <1>1 DEF Listener
  <2> QED BY <2>1, DeliveryKept DEF Inside, ConnKept, RowsKept, registry
<1> QED BY <1>2, <1>3, <1>4 DEF Inside

LEMMA CreatedLive ==
    ASSUME ChannelTypeOK, NEW a, NEW n, NEW s, NEW m \in Mailbox, CreateNameplate(a, n, s, m)
    PROVE  LiveKept
BY DEF CreateNameplate, FreshMailbox, LiveKept, ChannelTypeOK

LEMMA ClaimStep ==
    ASSUME Typed, Inside, ObjectsKept', NEW c \in Conn,
           Allocate(c) \/ \E n \in Name : Claim(c, n) \/ ClaimRefused(c, n) \/ Release(c, n)
    PROVE  Inside'
<1>1. ConnKept
  BY DEF Allocate, Claim, ClaimRefused, Release, ConnKept, Typed, TypeOK, ConnTypeOK, ConnState
<1>2. LiveKept
  BY CreatedLive DEF Allocate, Claim, ClaimRefused, Release, JoinNameplate, LiveKept, channelDB,
     Typed, TypeOK
<1>3. task = Idle /\ task'.op \in {"idle", "allocate", "claim", "retire"}
  BY DEF Allocate, Claim, ClaimRefused, Release, Handling, Idle
<1>4. UNCHANGED <<registry, delivered, mailboxSides, messages>>
  BY DEF Allocate, Claim, ClaimRefused, Release, channelDB
<1> QED BY <1>1, <1>2, <1>3, <1>4, AsideStep DEF Idle, NobodyCloses

LEMMA TimeStep ==
    ASSUME Typed, Inside, ObjectsKept', RetireNameplate \/ Tick \/ StartPrune
    PROVE  Inside'
<1>1. ConnKept /\ LiveKept /\ UNCHANGED <<registry, delivered, mailboxSides, messages>>
  BY DEF RetireNameplate, Tick, StartPrune, ConnKept, LiveKept, channelDB
<1>2. NobodyCloses
  BY DEF RetireNameplate, Tick, StartPrune, NobodyCloses, Idle
<1> QED BY <1>1, <1>2, AsideStep

\* open_mailbox without a subscription: after a claim, or in a crowd.
LEMMA OpenedStep ==
    ASSUME Typed, Inside, ObjectsKept', NEW c \in Conn, Bound(c), NEW m \in Mailbox,
           OpenTransaction(conn[c].app.app, m, conn[c].side),
           \E b \in SpawnMailbox(conn[c].app, m, HeldBoxes) : spawned' = spawned \union {b},
           ConnKept, NobodyCloses, task' = Idle,
           UNCHANGED <<messages, apps, listeners, delivered>>
    PROVE  Inside'
<1>1. LiveKept /\ RowsKept
  BY OpenedTables, BoundType DEF Typed, TypeOK
<1>2. Objects'
  BY ObjectsOpened DEF Inside
<1>3. listeners \subseteq Listener
  BY DEF Typed, TypeOK, RegistryTypeOK
<1>4. Connections'
  BY <1>3, ConnectionsKept DEF Inside
<1>5. Delivery'
  <2>1. \A l \in listeners : l.conn \in Conn
    BY <1>3 DEF Listener
  <2> QED BY <1>1, <2>1, DeliveryKept DEF Inside, ConnKept
<1> QED BY <1>2, <1>4, <1>5 DEF Inside

LEMMA OpenClaimedStep ==
    ASSUME Typed, Inside, ObjectsKept', OpenClaimed
    PROVE  Inside'
<1> DEFINE c == task.conn
           m == task.mailbox
<1>1. c \in Conn /\ m \in Mailbox /\ Bound(c)
  BY DEF OpenClaimed, Typed, TypeOK, Task, Idle, HandlerBound
<1>2. ConnKept
  BY <1>1 DEF OpenClaimed, ConnKept, Typed, TypeOK, ConnTypeOK, ConnState
<1>3. NobodyCloses /\ task' = Idle /\ UNCHANGED <<messages, apps, listeners, delivered>>
  BY DEF OpenClaimed, NobodyCloses, Idle
<1>4. /\ OpenTransaction(conn[c].app.app, m, conn[c].side)
      /\ \E b \in SpawnMailbox(conn[c].app, m, HeldBoxes) : spawned' = spawned \union {b}
  BY DEF OpenClaimed
<1> QED BY <1>1, <1>2, <1>3, <1>4, OpenedStep

LEMMA CrowdedStep ==
    ASSUME Typed, Inside, ObjectsKept', NEW c \in Conn, NEW m \in Mailbox,
           OpenCrowded(c, m) \/ CloseCrowded(c, m)
    PROVE  Inside'
<1>1. ConnKept
  BY DEF OpenCrowded, CloseCrowded, ConnKept, Typed, TypeOK, ConnTypeOK, ConnState
<1>2. /\ Bound(c)
      /\ NobodyCloses
      /\ task' = Idle
      /\ UNCHANGED <<messages, apps, listeners, delivered>>
  BY DEF OpenCrowded, CloseCrowded, MayClose, Handling, NobodyCloses, Idle
<1>3. /\ OpenTransaction(conn[c].app.app, m, conn[c].side)
      /\ \E b \in SpawnMailbox(conn[c].app, m, HeldBoxes) : spawned' = spawned \union {b}
  BY DEF OpenCrowded, CloseCrowded
<1> QED BY <1>1, <1>2, <1>3, OpenedStep

\* A connection that holds no mailbox listens to none.
LEMMA HoldsNothing ==
    ASSUME Typed, Connections, NEW c \in Conn, conn[c].mailbox = None
    PROVE  \A l \in listeners : l.conn # c
BY ObjectAssumption DEF Typed, TypeOK, RegistryTypeOK, Listener, Connections, ListenerHolds

\* handle_open: the one step that adds a listener.
LEMMA OpenStep ==
    ASSUME Typed, Inside, ObjectsKept', NEW c \in Conn, NEW m \in Mailbox, Open(c, m)
    PROVE  Inside'
<1> DEFINE a == conn[c].app.app
           s == conn[c].side
<1>1. /\ task = Idle /\ task' = Idle /\ Bound(c) /\ conn[c].mailbox = None
      /\ OpenTransaction(a, m, s)
      /\ UNCHANGED <<messages, apps>>
      /\ delivered' = [delivered EXCEPT ![c] = MessagesOf(a, m)]
  BY DEF Open, Handling, Replay
<1>2. PICK b \in SpawnMailbox(conn[c].app, m, HeldBoxes) :
        /\ spawned' = spawned \union {b}
        /\ listeners' = listeners \union {[conn |-> c, box |-> b]}
        /\ conn' = [conn EXCEPT ![c].mailboxId = m, ![c].mailbox = b]
  BY DEF Open
<1>3. conn[c] \in ConnState /\ conn[c].app \in Namespace /\ a \in App /\ s \in Side
  BY <1>1, BoundType DEF Typed, TypeOK
<1>4. \A d \in Conn : conn'[d].app = conn[d].app /\ conn'[d].side = conn[d].side
  BY <1>2 DEF Typed, TypeOK, ConnTypeOK, ConnState
<1>5. /\ conn'[c].mailbox = b
      /\ \A d \in Conn \ {c} : conn'[d].mailbox = conn[d].mailbox
  BY <1>2 DEF Typed, TypeOK, ConnTypeOK, ConnState
<1>6. b.ns = conn[c].app /\ b.id = m /\ b \in Box /\ Objects'
  <2>1. Bound(c) /\ Objects /\ apps' = apps
    BY <1>1 DEF Inside
  <2>2. spawned' = spawned \union {b}
    BY <1>2
  <2> HIDE DEF a, s
  <2> QED BY <2>1, <2>2, ObjectsOpened
<1>7. /\ LiveKept /\ RowsKept
      /\ mailboxes'[m] = a
      /\ \E r \in mailboxSides' : r.mailbox = m /\ r.side = s
  BY <1>1, <1>3, OpenedTables DEF Typed, TypeOK
<1>8. \A l \in listeners : l.conn # c /\ l.conn \in Conn
  BY <1>1, HoldsNothing DEF Inside, Typed, TypeOK, RegistryTypeOK, Listener
<1>9. Connections'
  <2>2. ASSUME NEW d \in Conn PROVE ~Closing(d) /\ ~Closing(d)'
    BY <1>1 DEF Closing, Idle
  <2>3. HeldMailbox'
    <3> SUFFICES ASSUME NEW d \in Conn, conn'[d].mailbox # None
                 PROVE  /\ Bound(d)'
                        /\ conn'[d].mailbox.ns = conn'[d].app
                        /\ [conn |-> d, box |-> conn'[d].mailbox] \in listeners'
      BY DEF HeldMailbox
    <3>0. /\ conn'[d].app = conn[d].app
          /\ [conn |-> c, box |-> b] \in listeners'
          /\ listeners \subseteq listeners'
          /\ Bound(c)
      BY <1>1, <1>2, <1>4
    <3>1. CASE d = c
      BY <1>5, <1>6, <3>0, <3>1 DEF Bound
    <3>2. CASE d # c
      <4>1. conn'[d].mailbox = conn[d].mailbox
        BY <1>5, <3>2
      <4> QED BY <2>2, <3>0, <4>1 DEF Inside, Connections, HeldMailbox, Bound
    <3> QED BY <3>1, <3>2
  <2>4. ListenerHolds'
    <3> SUFFICES ASSUME NEW l \in listeners'
                 PROVE  conn'[l.conn].mailbox = l.box /\ l.conn \in Conn
      BY <2>2 DEF ListenerHolds
    <3>1. CASE l = [conn |-> c, box |-> b]
      BY <1>5, <3>1
    <3>2. CASE l \in listeners
      BY <1>5, <1>8, <3>2 DEF Inside, Connections, ListenerHolds
    <3> QED BY <1>2, <3>1, <3>2
  <2> QED BY <1>1, <2>3, <2>4 DEF Connections, CloserHolds, Idle
<1>10. Delivery'
  <2>1. ListenerKnown'
    <3> SUFFICES ASSUME NEW l \in listeners'
                 PROVE  /\ l.box \in spawned'
                        /\ l.box.ns \in apps'
                        /\ mailboxes'[l.box.id] = l.box.ns.app
                        /\ \E r \in mailboxSides' :
                              r.mailbox = l.box.id /\ r.side = conn'[l.conn].side
      BY DEF ListenerKnown
    <3>1. CASE l = [conn |-> c, box |-> b]
      BY <1>1, <1>2, <1>4, <1>6, <1>7, <3>1 DEF Inside, Objects, ObjectsKept, NamespacesKept
    <3>2. CASE l \in listeners
      <4>1. l.box.id \in Mailbox /\ l.box.ns.app # None
        BY <3>2, NoneAssumption DEF Typed, TypeOK, RegistryTypeOK, Listener, Box, Namespace
      <4>2. mailboxes'[l.box.id] = l.box.ns.app
        BY <1>7, <3>2, <4>1 DEF Inside, Delivery, ListenerKnown, LiveKept
      <4>3. \E r \in mailboxSides' : r.mailbox = l.box.id /\ r.side = conn'[l.conn].side
        <5>1. PICK q \in mailboxSides : q.mailbox = l.box.id /\ q.side = conn[l.conn].side
          BY <3>2 DEF Inside, Delivery, ListenerKnown
        <5> QED BY <1>4, <1>7, <1>8, <3>2, <5>1 DEF RowsKept
      <4> QED BY <1>1, <1>2, <3>2, <4>2, <4>3 DEF Inside, Delivery, ListenerKnown
    <3> QED BY <1>2, <3>1, <3>2
  <2>2. CompleteDelivery'
    <3> SUFFICES ASSUME NEW l \in listeners'
                 PROVE  delivered'[l.conn] = MessagesOf(l.box.ns.app, l.box.id)
      BY <1>1 DEF CompleteDelivery, MessagesOf
    <3>1. CASE l = [conn |-> c, box |-> b]
      BY <1>1, <1>6, <3>1 DEF Typed, TypeOK
    <3>2. CASE l \in listeners
      BY <1>1, <1>8, <3>2 DEF Inside, Delivery, CompleteDelivery, Typed, TypeOK
    <3> QED BY <1>2, <3>1, <3>2
  <2>3. NoOrphanMessages'
    <3>1. \A x \in messages : x.mailbox \in Mailbox /\ mailboxes[x.mailbox] = x.app /\ x.app # None
      BY NoneAssumption
         DEF Typed, TypeOK, ChannelTypeOK, Message, Inside, Delivery, NoOrphanMessages
    <3> QED BY <1>1, <1>7, <3>1 DEF NoOrphanMessages, LiveKept
  <2> QED BY <2>1, <2>2, <2>3 DEF Delivery
<1> QED BY <1>1, <1>6, <1>9, <1>10 DEF Inside

\* handle_close of a mailbox the connection does not hold: opened, not subscribed.
LEMMA CloseUnheldStep ==
    ASSUME Typed, Inside, ObjectsKept', NEW c \in Conn, NEW m \in Mailbox, CloseUnheld(c, m)
    PROVE  Inside'
<1>1. /\ task = Idle /\ Bound(c) /\ conn[c].mailbox = None
      /\ OpenTransaction(conn[c].app.app, m, conn[c].side)
      /\ UNCHANGED <<messages, apps, listeners, delivered>>
  BY DEF CloseUnheld, MayClose, Handling
<1>2. PICK b \in SpawnMailbox(conn[c].app, m, HeldBoxes) :
        /\ spawned' = spawned \union {b}
        /\ conn' = [conn EXCEPT ![c].didClose = TRUE, ![c].mailbox = b]
        /\ task' = [op |-> "close", conn |-> c, box |-> b]
  BY DEF CloseUnheld
<1>3. \A d \in Conn : conn'[d].app = conn[d].app /\ conn'[d].side = conn[d].side
  BY <1>2 DEF Typed, TypeOK, ConnTypeOK, ConnState
<1>4. /\ conn'[c].mailbox = b
      /\ \A d \in Conn \ {c} : conn'[d].mailbox = conn[d].mailbox
  BY <1>2 DEF Typed, TypeOK, ConnTypeOK, ConnState
<1>5. task'.op = "close" /\ task'.conn = c /\ task'.box = b
  BY <1>2
<1>6. b.ns = conn[c].app /\ b.id = m /\ b \in Box /\ Objects'
  <2>1. Bound(c) /\ Objects /\ apps' = apps
    BY <1>1 DEF Inside
  <2>2. spawned' = spawned \union {b}
    BY <1>2
  <2> QED BY <2>1, <2>2, ObjectsOpened
<1>7. LiveKept /\ RowsKept
  BY <1>1, OpenedTables, BoundType DEF Typed, TypeOK
<1>8. \A l \in listeners : l.conn # c /\ l.conn \in Conn
  BY <1>1, HoldsNothing DEF Inside, Typed, TypeOK, RegistryTypeOK, Listener
<1>9. Connections'
  <2>2. HeldMailbox'
    <3> SUFFICES ASSUME NEW d \in Conn, conn'[d].mailbox # None
                 PROVE  /\ Bound(d)'
                        /\ conn'[d].mailbox.ns = conn'[d].app
                        /\ [conn |-> d, box |-> conn'[d].mailbox] \in listeners' \/ Closing(d)'
      BY DEF HeldMailbox
    <3>1. CASE d = c
      BY <1>1, <1>3, <1>4, <1>5, <1>6, <3>1 DEF Bound, Closing
    <3>2. CASE d # c
      <4>1. conn'[d].mailbox = conn[d].mailbox /\ conn'[d].app = conn[d].app
        BY <1>3, <1>4, <3>2
      <4>2. ~Closing(d) /\ listeners' = listeners
        BY <1>1 DEF Closing, Idle
      <4> QED BY <4>1, <4>2 DEF Inside, Connections, HeldMailbox, Bound
    <3> QED BY <3>1, <3>2
  <2>3. ListenerHolds'
    BY <1>1, <1>4, <1>5, <1>8 DEF Inside, Connections, ListenerHolds, Closing
  <2>4. CloserHolds'
    BY <1>4, <1>5 DEF CloserHolds
  <2> QED BY <2>2, <2>3, <2>4 DEF Connections
<1>10. Delivery'
  <2>1. /\ listeners' = listeners /\ messages' = messages /\ apps' = apps
        /\ delivered' = delivered /\ spawned \subseteq spawned'
    BY <1>1, <1>2
  <2> QED BY <1>3, <1>7, <1>8, <2>1, DeliveryKept DEF Inside
<1> QED BY <1>5, <1>6, <1>9, <1>10 DEF Inside

\* handle_close stops listening before anything else.
LEMMA CloseHeldStep ==
    ASSUME Typed, Inside, ObjectsKept', NEW c \in Conn, NEW m \in Mailbox, CloseHeld(c, m)
    PROVE  Inside'
<1>1. /\ task = Idle
      /\ listeners' = WithoutListener(c)
      /\ task' = [op |-> "close", conn |-> c, box |-> conn[c].mailbox]
      /\ UNCHANGED <<channelDB, apps, spawned>>
      /\ Forget({c})
  BY DEF CloseHeld, MayClose, Handling
<1>2. ConnKept
  BY DEF CloseHeld, ConnKept, Typed, TypeOK, ConnTypeOK, ConnState
<1>3. task'.op = "close" /\ task'.conn = c /\ task'.box = conn[c].mailbox
  BY <1>1
<1>4. Objects'
  BY <1>1 DEF Inside, Objects, BoxesCurrent, OneBox
<1>5. \A l \in listeners' : l \in listeners /\ l.conn # c /\ l.conn \in Conn
  BY <1>1 DEF WithoutListener, Typed, TypeOK, RegistryTypeOK, Listener
<1>6. Connections'
  <2>2. HeldMailbox'
    <3> SUFFICES ASSUME NEW d \in Conn, conn'[d].mailbox # None
                 PROVE  /\ Bound(d)'
                        /\ conn'[d].mailbox.ns = conn'[d].app
                        /\ [conn |-> d, box |-> conn'[d].mailbox] \in listeners' \/ Closing(d)'
      BY DEF HeldMailbox
    <3>1. /\ Bound(d) /\ conn[d].mailbox.ns = conn[d].app
          /\ [conn |-> d, box |-> conn[d].mailbox] \in listeners
      BY <1>1, <1>2 DEF Inside, Connections, HeldMailbox, ConnKept, Closing, Idle
    <3>2. CASE d = c
      BY <1>2, <1>3, <3>1, <3>2 DEF ConnKept, Bound, Closing
    <3>3. CASE d # c
      BY <1>1, <1>2, <3>1, <3>3 DEF ConnKept, Bound, WithoutListener
    <3> QED BY <3>2, <3>3
  <2>3. ListenerHolds'
    BY <1>2, <1>3, <1>5 DEF Inside, Connections, ListenerHolds, Closing, ConnKept
  <2>4. CloserHolds'
    BY <1>2, <1>3 DEF CloserHolds, ConnKept
  <2> QED BY <2>2, <2>3, <2>4 DEF Connections
<1>7. Delivery'
  <2>1. \A l \in listeners' : delivered'[l.conn] = delivered[l.conn]
    BY <1>1, <1>5 DEF Forget
  <2>2. /\ LiveKept /\ RowsKept /\ messages' = messages /\ apps' = apps /\ spawned' = spawned
    BY <1>1 DEF LiveKept, RowsKept, channelDB
  <2> QED BY <1>2, <1>5, <2>1, <2>2, DeliveryKept DEF Inside, ConnKept
<1> QED BY <1>3, <1>4, <1>6, <1>7 DEF Inside

\* handle_add: whoever listens to the mailbox has the object the message is sent to.
LEMMA AddStep ==
    ASSUME Typed, Inside, ObjectsKept', OneNamespace, NEW c \in Conn, NEW x \in Msg, Add(c, x)
    PROVE  Inside'
<1> DEFINE b == conn[c].mailbox
           row == [app |-> b.ns.app, mailbox |-> b.id, id |-> x]
<1>1. /\ task = Idle /\ Bound(c) /\ b # None
      /\ messages' = messages \union {row}
      /\ Broadcast(b, x)
      /\ UNCHANGED <<mailboxes, mailboxSides, registry, conn, task>>
  BY DEF Add, Handling
<1>2. b.ns = conn[c].app /\ [conn |-> c, box |-> b] \in listeners
  BY <1>1 DEF Inside, Connections, HeldMailbox, Closing, Idle
<1>3. b \in spawned /\ b.ns \in apps /\ mailboxes[b.id] = b.ns.app
  <2> DEFINE l == [conn |-> c, box |-> b]
  <2>1. l \in listeners /\ l.box = b
    BY <1>2
  <2> HIDE DEF l
  <2> QED BY <2>1 DEF Inside, Delivery, ListenerKnown
<1>4. Objects'
  BY <1>1 DEF Inside, Objects, BoxesCurrent, OneBox, registry
<1>5. Connections'
  BY <1>1 DEF Inside, Connections, HeldMailbox, ListenerHolds, CloserHolds,
              Closing, Bound, registry
<1>6. ListenerKnown'
  BY <1>1 DEF Inside, Delivery, ListenerKnown, registry
<1>7. CompleteDelivery'
  <2> SUFFICES ASSUME NEW l \in listeners
               PROVE  delivered'[l.conn] = MessagesOf(l.box.ns.app, l.box.id)'
    BY <1>1 DEF CompleteDelivery, registry
  <2>1. l.conn \in Conn /\ delivered[l.conn] = MessagesOf(l.box.ns.app, l.box.id)
    BY DEF Inside, Delivery, CompleteDelivery, Typed, TypeOK, RegistryTypeOK, Listener
  <2>2. CASE l.box = b
    <3>1. l.conn \in ListeningTo(b)
      BY <2>2 DEF ListeningTo
    <3>2. delivered'[l.conn] = delivered[l.conn] \union {x}
      BY <1>1, <2>1, <3>1 DEF Broadcast
    <3>3. MessagesOf(l.box.ns.app, l.box.id)' = MessagesOf(l.box.ns.app, l.box.id) \union {x}
      <4>1. row.app = l.box.ns.app /\ row.mailbox = l.box.id /\ row.id = x
        BY <2>2
      <4> HIDE DEF row
      <4> QED BY <1>1, <4>1 DEF MessagesOf
    <3> QED BY <2>1, <3>2, <3>3
  <2>3. CASE l.box # b
    <3>1. l.conn \notin ListeningTo(b)
      BY <2>3 DEF ListeningTo, Inside, Connections, ListenerHolds
    <3>2. delivered'[l.conn] = delivered[l.conn]
      BY <1>1, <2>1, <3>1 DEF Broadcast
    <3>3. l.box.ns.app # b.ns.app \/ l.box.id # b.id
      BY <1>3, <2>3 DEF Inside, Objects, OneBox, OneNamespace, Delivery, ListenerKnown
    <3>4. MessagesOf(l.box.ns.app, l.box.id)' = MessagesOf(l.box.ns.app, l.box.id)
      <4>1. row.app = b.ns.app /\ row.mailbox = b.id
        OBVIOUS
      <4> HIDE DEF row
      <4> QED BY <1>1, <3>3, <4>1 DEF MessagesOf
    <3> QED BY <2>1, <3>2, <3>4
  <2> QED BY <2>2, <2>3
<1>8. NoOrphanMessages'
  <2>1. row.app = b.ns.app /\ row.mailbox = b.id
    OBVIOUS
  <2> HIDE DEF row
  <2> QED BY <1>1, <1>3, <2>1 DEF Inside, Delivery, NoOrphanMessages
<1> QED BY <1>1, <1>4, <1>5, <1>6, <1>7, <1>8 DEF Inside, Delivery

\* handle_bind
LEMMA BindStep ==
    ASSUME Typed, Inside, ObjectsKept', NEW c \in Conn, NEW a \in App, NEW s \in Side, Bind(c, a, s)
    PROVE  Inside'
<1>1. /\ task = Idle /\ ~Bound(c)
      /\ UNCHANGED <<channelDB, spawned, listeners, delivered, task>>
  BY DEF Bind
<1>2. PICK ns \in GetApp(a, HeldNamespaces) :
        /\ apps' = apps \union {ns}
        /\ conn' = [conn EXCEPT ![c].app = ns, ![c].side = s]
  BY DEF Bind
<1>4. /\ conn'[c].app = ns
      /\ conn'[c].side = s
      /\ \A d \in Conn : conn'[d].mailbox = conn[d].mailbox
      /\ \A d \in Conn \ {c} : conn'[d].app = conn[d].app /\ conn'[d].side = conn[d].side
  BY <1>2 DEF Typed, TypeOK, ConnTypeOK, ConnState
<1>5. conn[c].mailbox = None
  BY <1>1 DEF Inside, Connections, HeldMailbox
<1>6. \A l \in listeners : l.conn # c /\ l.conn \in Conn
  BY <1>5, HoldsNothing DEF Inside, Typed, TypeOK, RegistryTypeOK, Listener
<1>7. Objects'
  BY <1>1, <1>2 DEF Inside, Objects, BoxesCurrent, OneBox
<1>8. Connections'
  <2>2. HeldMailbox'
    BY <1>1, <1>4, <1>5 DEF Inside, Connections, HeldMailbox, Bound, Closing
  <2>3. ListenerHolds' /\ CloserHolds'
    BY <1>1, <1>4, <1>6 DEF Inside, Connections, ListenerHolds, CloserHolds, Closing, Idle
  <2> QED BY <2>2, <2>3 DEF Connections
<1>9. Delivery'
  <2>1. /\ LiveKept /\ RowsKept /\ messages' = messages /\ apps \subseteq apps'
        /\ listeners' = listeners /\ spawned' = spawned /\ delivered' = delivered
    BY <1>1, <1>2 DEF LiveKept, RowsKept, channelDB
  <2>2. \A l \in listeners : conn'[l.conn].side = conn[l.conn].side
    BY <1>4, <1>6
  <2> QED BY <2>1, <2>2, DeliveryKept DEF Inside
<1> QED BY <1>1, <1>7, <1>8, <1>9 DEF Inside

\* Mailbox.close, first transaction: no row goes.
LEMMA CloseSideStep ==
    ASSUME Typed, Inside, ObjectsKept', CloseSide
    PROVE  Inside'
<1> DEFINE c == task.conn
           b == task.box
           s == conn[c].side
           after == SidesAfterClose(b.id, s)
<1>1. /\ task.op = "close" /\ c \in Conn /\ b \in Box /\ Bound(c)
      /\ task = [op |-> "close", conn |-> c, box |-> b]
  BY DEF CloseSide, Typed, TypeOK, Task, Idle, HandlerBound
<1>2. /\ \/ mailboxSides' = mailboxSides
         \/ mailboxSides' = after /\ ~NothingToClose(b, s)
      /\ \/ task' = Idle /\ conn' = [conn EXCEPT ![c].mailbox = None]
         \/ task' = [task EXCEPT !.op = "delete"] /\ conn' = conn
      /\ UNCHANGED <<mailboxes, messages, registry, delivered>>
  BY DEF CloseSide
<1>3. \/ task'.op = "idle" /\ conn'[c].mailbox = None
      \/ task'.op = "delete" /\ task'.conn = c /\ task'.box = b /\ conn' = conn
  BY <1>1, <1>2 DEF Idle, Typed, TypeOK, ConnTypeOK, ConnState
<1>4. /\ \A d \in Conn : conn'[d].app = conn[d].app /\ conn'[d].side = conn[d].side
      /\ \A d \in Conn \ {c} : conn'[d].mailbox = conn[d].mailbox
  BY <1>1, <1>2 DEF Typed, TypeOK, ConnTypeOK, ConnState
<1>5. conn[c].mailbox = b
  BY <1>1 DEF Inside, Connections, CloserHolds
<1>6. \A l \in listeners : l.conn # c /\ l.conn \in Conn
  BY <1>1 DEF Inside, Connections, ListenerHolds, Closing, Typed, TypeOK, RegistryTypeOK, Listener
<1>7. Objects'
  BY <1>2 DEF Inside, Objects, BoxesCurrent, OneBox, registry
<1>8. Connections'
  <2>2. HeldMailbox'
    <3> SUFFICES ASSUME NEW d \in Conn, conn'[d].mailbox # None
                 PROVE  /\ Bound(d)'
                        /\ conn'[d].mailbox.ns = conn'[d].app
                        /\ [conn |-> d, box |-> conn'[d].mailbox] \in listeners' \/ Closing(d)'
      BY DEF HeldMailbox
    <3>1. conn'[d].mailbox = conn[d].mailbox /\ listeners' = listeners
      BY <1>2, <1>3, <1>4 DEF registry
    <3>2. CASE d # c
      <4>1. ~Closing(d)
        BY <3>2 DEF Closing
      <4> QED BY <1>4, <3>1, <4>1 DEF Inside, Connections, HeldMailbox, Bound
    <3>3. CASE d = c
      <4>1. Closing(d)'
        BY <1>3, <3>3 DEF Closing
      <4> QED BY <1>4, <3>1, <4>1 DEF Inside, Connections, HeldMailbox, Bound
    <3> QED BY <3>2, <3>3
  <2>3. ListenerHolds'
    BY <1>2, <1>3, <1>4, <1>6 DEF Inside, Connections, ListenerHolds, Closing, registry
  <2>4. CloserHolds'
    BY <1>3, <1>5 DEF CloserHolds
  <2> QED BY <2>2, <2>3, <2>4 DEF Connections
<1>9. RowsKept
  <2> SUFFICES ASSUME NEW r \in mailboxSides, mailboxSides' = after
               PROVE  \E q \in mailboxSides' : q.mailbox = r.mailbox /\ q.side = r.side
    BY <1>2 DEF RowsKept
  <2> DEFINE q == IF r.mailbox = b.id /\ r.side = s THEN [r EXCEPT !.opened = FALSE] ELSE r
  <2>1. q \in mailboxSides'
    BY DEF SidesAfterClose
  <2>2. r \in MailboxSide
    BY DEF Typed, TypeOK, ChannelTypeOK
  <2>3. q.mailbox = r.mailbox /\ q.side = r.side
    BY <2>2 DEF MailboxSide
  <2> HIDE DEF q
  <2> QED BY <2>1, <2>3
<1>10. Delivery'
  BY <1>2, <1>4, <1>6, <1>9, DeliveryKept DEF Inside, LiveKept, registry
<1> QED BY <1>7, <1>8, <1>10 DEF Inside

\* Deleting a set of mailboxes nobody listens to.
LEMMA DeliveryDeleted ==
    ASSUME Typed, Delivery, NEW gone, DeleteMailboxes(gone),
           \A l \in listeners : l.box.id \notin gone,
           listeners' = listeners,
           \A l \in listeners : /\ l.box \in spawned'
                                /\ l.box.ns \in apps'
                                /\ conn'[l.conn].side = conn[l.conn].side
                                /\ delivered'[l.conn] = delivered[l.conn]
    PROVE  Delivery'
<1>1. \A l \in listeners : l.box.id \in Mailbox
  BY DEF Typed, TypeOK, RegistryTypeOK, Listener, Box
<1>2. ListenerKnown'
  <2> SUFFICES ASSUME NEW l \in listeners
               PROVE  /\ mailboxes'[l.box.id] = l.box.ns.app
                      /\ \E r \in mailboxSides' : r.mailbox = l.box.id /\ r.side = conn[l.conn].side
    BY DEF ListenerKnown
  <2>1. PICK r \in mailboxSides : r.mailbox = l.box.id /\ r.side = conn[l.conn].side
    BY DEF Delivery, ListenerKnown
  <2>2. r \in mailboxSides'
    BY <2>1 DEF DeleteMailboxes
  <2>3. mailboxes'[l.box.id] = l.box.ns.app
    BY <1>1 DEF Delivery, ListenerKnown, DeleteMailboxes
  <2> QED BY <2>1, <2>2, <2>3
<1>3. CompleteDelivery'
  <2> SUFFICES ASSUME NEW l \in listeners
               PROVE  delivered[l.conn] = MessagesOf(l.box.ns.app, l.box.id)'
    BY DEF CompleteDelivery
  <2>1. MessagesOf(l.box.ns.app, l.box.id)' = MessagesOf(l.box.ns.app, l.box.id)
    BY DEF MessagesOf, DeleteMailboxes
  <2> QED BY <2>1 DEF Delivery, CompleteDelivery
<1>4. NoOrphanMessages'
  <2>1. \A x \in messages : x.mailbox \in Mailbox
    BY DEF Typed, TypeOK, ChannelTypeOK, Message
  <2> QED BY <2>1 DEF Delivery, NoOrphanMessages, DeleteMailboxes
<1> QED BY <1>2, <1>3, <1>4 DEF Delivery

\* The last close of a mailbox leaves no other connection with its object, so
\* nobody listens to it.
LEMMA ClosedUnheard ==
    ASSUME Typed, Inside, OneNamespace, DeleteReady, DeleteMailbox, ObjectsKept'
    PROVE  \A l \in listeners : l.box.id # task.box.id
<1> DEFINE c == task.conn
           b == task.box
<1> SUFFICES ASSUME NEW l \in listeners, l.box.id = b.id PROVE FALSE
  OBVIOUS
<1>1. /\ task.op = "delete" /\ c \in Conn /\ b \in Box
      /\ conn' = [conn EXCEPT ![c].mailbox = None]
      /\ spawned' = spawned \ Registered(b.ns, b.id)
  BY DEF DeleteMailbox, FreeMailbox, Typed, TypeOK, Task, Idle
<1>2. /\ conn[c].mailbox = b
      /\ conn[l.conn].mailbox = l.box
      /\ l.conn # c
  BY <1>1 DEF Inside, Connections, CloserHolds, ListenerHolds, Closing
<1>3. l.conn \in Conn /\ l.box # None /\ b # None
  BY <1>1, ObjectAssumption DEF Typed, TypeOK, RegistryTypeOK, Listener
<1>4. b.ns = conn[c].app /\ Bound(c)
  BY <1>1, <1>2, <1>3 DEF Inside, Connections, HeldMailbox
<1>5. b.ns \in apps /\ mailboxes[b.id] = b.ns.app
  BY <1>1, <1>4 DEF Inside, Objects, ObjectsKept, NamespacesKept, DeleteReady
<1>6. l.box.ns = b.ns
  BY <1>5 DEF Inside, Delivery, ListenerKnown, OneNamespace
<1>7. l.box \notin spawned'
  BY <1>1, <1>6 DEF Registered
<1>8. conn'[l.conn].mailbox = l.box
  BY <1>1, <1>2, <1>3 DEF Typed, TypeOK, ConnTypeOK, ConnState
<1> QED BY <1>3, <1>7, <1>8 DEF ObjectsKept

\* The first transaction of prune touched what somebody listens to.
LEMMA OldUnheard ==
    ASSUME Inside, OneNamespace, ExpireReady, task.op = "expire"
    PROVE  \A l \in listeners : l.box.id \notin OldMailboxes(task.ns.app)
<1> DEFINE ns == task.ns
<1> SUFFICES ASSUME NEW l \in listeners, l.box.id \in OldMailboxes(ns.app) PROVE FALSE
  OBVIOUS
<1>1. ns \in apps /\ \A m \in ListenedIn(ns) : idle[m] = 0
  BY DEF ExpireReady
<1>2. mailboxes[l.box.id] = ns.app /\ idle[l.box.id] = Expire /\ Expire # 0
  BY ExpireAssumption DEF OldMailboxes
<1>3. l.box \in spawned /\ l.box.ns \in apps /\ mailboxes[l.box.id] = l.box.ns.app
  BY DEF Inside, Delivery, ListenerKnown
<1>4. l.box.ns = ns
  BY <1>1, <1>2, <1>3 DEF OneNamespace
<1>5. l.box.id \in ListenedIn(ns)
  <2>1. ListeningTo(l.box) # {}
    BY DEF ListeningTo
  <2> QED BY <1>3, <1>4, <2>1 DEF ListenedIn
<1> QED BY <1>1, <1>2, <1>5


\* Mailbox.close, second transaction.
LEMMA DeleteMailboxStep ==
    ASSUME Typed, Inside, ObjectsKept', OneNamespace, DeleteReady, DeleteMailbox
    PROVE  Inside'
<1> DEFINE c == task.conn
           b == task.box
<1>1. /\ task.op = "delete" /\ task' = Idle
      /\ DeleteMailboxes({b.id})
      /\ listeners' = StopListeners(b)
      /\ Forget(ListeningTo(b))
      /\ spawned' = FreeMailbox(b.ns, b.id)
      /\ conn' = [conn EXCEPT ![c].mailbox = None]
      /\ apps' = apps
  BY DEF DeleteMailbox
<1>2. c \in Conn /\ b \in Box
  BY <1>1 DEF Typed, TypeOK, Task, Idle
<1>3. /\ \A d \in Conn : conn'[d].app = conn[d].app /\ conn'[d].side = conn[d].side
      /\ \A d \in Conn \ {c} : conn'[d].mailbox = conn[d].mailbox
      /\ conn'[c].mailbox = None
  BY <1>1, <1>2 DEF Typed, TypeOK, ConnTypeOK, ConnState
<1>4. \A l \in listeners : l.box.id # b.id
  BY ClosedUnheard
<1>5. listeners' = listeners
  BY <1>1, <1>4 DEF StopListeners
<1>6. \A l \in listeners : l.conn # c /\ l.conn \in Conn
  BY <1>1 DEF Inside, Connections, ListenerHolds, Closing, Typed, TypeOK, RegistryTypeOK, Listener
<1>7. delivered' = delivered
  <2>1. ListeningTo(b) = {}
    BY <1>4 DEF ListeningTo
  <2> QED BY <1>1, <2>1 DEF Forget, Typed, TypeOK
<1>8. Objects'
  BY <1>1 DEF Inside, Objects, BoxesCurrent, OneBox, FreeMailbox
<1>9. Connections'
  <2>2. HeldMailbox'
    BY <1>3, <1>5 DEF Inside, Connections, HeldMailbox, Bound, Closing
  <2>3. ListenerHolds' /\ CloserHolds'
    BY <1>1, <1>3, <1>5, <1>6
       DEF Inside, Connections, ListenerHolds, CloserHolds, Closing, Idle
  <2> QED BY <2>2, <2>3 DEF Connections
<1>10. Delivery'
  <2>1. \A l \in listeners : l.box \in spawned' /\ l.box.ns \in apps'
    BY <1>1, <1>4 DEF FreeMailbox, Registered, Inside, Delivery, ListenerKnown
  <2> QED BY <1>1, <1>3, <1>4, <1>5, <1>6, <1>7, <2>1, DeliveryDeleted DEF Inside
<1> QED BY <1>1, <1>8, <1>9, <1>10 DEF Inside

\* onClose, whatever the reason: nothing but the connection goes.
LEMMA DisconnectStep ==
    ASSUME Typed, Inside, ObjectsKept', NEW c \in Conn, Disconnect(c),
           UNCHANGED <<mailboxes, mailboxSides, messages>>,
           \A d \in Conn : Closing(d) => d = c
    PROVE  Inside'
<1>1. /\ conn' = [conn EXCEPT ![c] = Unbound]
      /\ listeners' = WithoutListener(c)
      /\ Forget({c})
      /\ spawned' = spawned
      /\ apps' = apps
      /\ task' = Idle
  BY DEF Disconnect, Reachable, Inside, Objects, BoxesCurrent
<1>2. /\ \A d \in Conn \ {c} : conn'[d] = conn[d]
      /\ ~Bound(c)' /\ conn'[c].mailbox = None
  BY <1>1 DEF Typed, TypeOK, ConnTypeOK, Bound, Unbound
<1>3. \A l \in listeners' : l \in listeners /\ l.conn # c /\ l.conn \in Conn
  BY <1>1 DEF WithoutListener, Typed, TypeOK, RegistryTypeOK, Listener
<1>4. \A d \in Conn \ {c} : ~Closing(d)
  OBVIOUS
<1>5. \A d \in Conn : ~Closing(d)'
  BY <1>1 DEF Closing, Idle
<1>6. Objects'
  BY <1>1 DEF Inside, Objects, BoxesCurrent, OneBox
<1>7. Connections'
  <2>2. HeldMailbox'
    <3> SUFFICES ASSUME NEW d \in Conn, conn'[d].mailbox # None
                 PROVE  /\ Bound(d)'
                        /\ conn'[d].mailbox.ns = conn'[d].app
                        /\ [conn |-> d, box |-> conn'[d].mailbox] \in listeners'
      BY DEF HeldMailbox
    <3>1. d # c /\ conn'[d] = conn[d]
      BY <1>2
    <3>2. [conn |-> d, box |-> conn[d].mailbox] \in listeners
      BY <1>4, <3>1 DEF Inside, Connections, HeldMailbox
    <3> QED BY <1>1, <3>1, <3>2 DEF Inside, Connections, HeldMailbox, Bound, WithoutListener
  <2>3. ListenerHolds'
    BY <1>2, <1>3, <1>5 DEF Inside, Connections, ListenerHolds
  <2> QED BY <1>1, <2>2, <2>3 DEF Connections, CloserHolds, Idle
<1>8. Delivery'
  <2>1. \A l \in listeners' : /\ conn'[l.conn].side = conn[l.conn].side
                              /\ delivered'[l.conn] = delivered[l.conn]
    BY <1>1, <1>2, <1>3 DEF Forget
  <2>2. LiveKept /\ RowsKept /\ listeners' \subseteq listeners
    BY <1>3 DEF LiveKept, RowsKept
  <2> QED BY <1>1, <2>1, <2>2, DeliveryKept DEF Inside
<1> QED BY <1>1, <1>6, <1>7, <1>8 DEF Inside

\* prune, first transaction.
LEMMA PruneTouchStep ==
    ASSUME Typed, Inside, ObjectsKept', PruneTouch
    PROVE  Inside'
<1>1. PICK ns, a : /\ apps' = apps \union {ns}
                   /\ task' = [op |-> "expire", ns |-> ns, todo |-> task.todo \ {a}]
  BY DEF PruneTouch
<1>2. /\ task.op = "prune" /\ task'.op = "expire"
      /\ UNCHANGED <<mailboxes, mailboxSides, messages, spawned, listeners, conn, delivered>>
  BY <1>1 DEF PruneTouch
<1>3. Objects'
  BY <1>1, <1>2 DEF Inside, Objects, BoxesCurrent, OneBox
<1>4. Connections'
  BY <1>2 DEF Inside, Connections, HeldMailbox, ListenerHolds, CloserHolds,
              Closing, Bound
<1>5. Delivery'
  BY <1>1, <1>2, DeliveryKept DEF Inside, LiveKept, RowsKept
<1> QED BY <1>3, <1>4, <1>5 DEF Inside

\* prune, second transaction: mailboxes with listeners have just been touched.
LEMMA PruneDeleteStep ==
    ASSUME Typed, Inside, ObjectsKept', OneNamespace, ExpireReady, PruneDelete
    PROVE  Inside'
<1> DEFINE ns == task.ns
           gone == OldMailboxes(ns.app)
<1>1. /\ task.op = "expire"
      /\ DeleteMailboxes(gone)
      /\ apps' = IF \E b \in spawned : b.ns = ns THEN apps ELSE apps \ {ns}
      /\ UNCHANGED <<spawned, listeners, conn, delivered>>
  BY DEF PruneDelete
<1>2. task'.op \in {"idle", "prune"}
  <2>1. task' = Idle \/ task' = [op |-> "prune", todo |-> task.todo]
    BY DEF PruneDelete
  <2> QED BY <2>1 DEF Idle
<1>3. ns \in apps /\ \A m \in ListenedIn(ns) : idle[m] = 0
  BY <1>1 DEF ExpireReady
<1>4. \A n \in apps : n \notin apps' => n = ns /\ \A b \in spawned : b.ns # n
  BY <1>1
<1>5. \A l \in listeners : l.box.id \notin gone
  BY <1>1, OldUnheard
<1>6. Objects'
  BY <1>1, <1>4 DEF Inside, Objects, BoxesCurrent, OneBox
<1>7. Connections'
  BY <1>1, <1>2 DEF Inside, Connections, HeldMailbox, ListenerHolds, CloserHolds,
              Closing, Bound
<1>8. Delivery'
  <2>1. \A l \in listeners : l.box \in spawned /\ l.box.ns \in apps'
    BY <1>4 DEF Inside, Delivery, ListenerKnown
  <2> QED BY <1>1, <1>5, <2>1, DeliveryDeleted DEF Inside
<1> QED BY <1>6, <1>7, <1>8 DEF Inside

\* After a restart nobody is connected and the tables are as they were.
LEMMA RestartStep ==
    ASSUME Inside, ObjectsKept', Restart
    PROVE  Inside'
<1>1. /\ apps' = {} /\ spawned' = {} /\ listeners' = {} /\ task' = Idle
      /\ \A c \in Conn : conn'[c] = Unbound
      /\ UNCHANGED <<mailboxes, messages>>
  BY DEF Restart, channelDB
<1>2. \A c \in Conn : ~Bound(c)' /\ conn'[c].mailbox = None
  BY <1>1 DEF Bound, Unbound
<1>3. Objects' /\ Connections'
  BY <1>1, <1>2 DEF Objects, BoxesCurrent, OneBox, Connections, HeldMailbox, ListenerHolds,
                    CloserHolds, Idle
<1>4. Delivery'
  BY <1>1 DEF Inside, Delivery, ListenerKnown, CompleteDelivery, NoOrphanMessages
<1> QED BY <1>1, <1>3, <1>4 DEF Inside

-----------------------------------------------------------------------------
(* The theorems. *)

LEMMA CommandInside ==
    ASSUME Typed, HandlerReady, Inside, ObjectsKept', NEW c \in Conn, Command(c)
    PROVE  Inside'
<1>1. OneNamespace
  BY DEF HandlerReady
<1>2. CASE \E a \in App, s \in Side : Bind(c, a, s)
  BY <1>2, BindStep
<1>3. CASE Allocate(c) \/ \E n \in Name : Claim(c, n) \/ ClaimRefused(c, n) \/ Release(c, n)
  BY <1>3, ClaimStep
<1>4. CASE AllocateFails(c) \/ Lost(c) \/ \E m \in Mailbox : OpenFails(c, m)
  <2>1. Disconnect(c) /\ UNCHANGED <<mailboxes, mailboxSides, messages>>
    BY <1>4 DEF AllocateFails, Lost, OpenFails, channelDB
  <2>2. \A d \in Conn : ~Closing(d)
    BY <1>4 DEF AllocateFails, Lost, OpenFails, Handling, Closing, Idle
  <2> QED BY <2>1, <2>2, DisconnectStep
<1>5. CASE \E m \in Mailbox : Open(c, m)
  BY <1>5, OpenStep
<1>6. CASE \E m \in Mailbox : OpenCrowded(c, m) \/ CloseCrowded(c, m)
  BY <1>6, CrowdedStep
<1>7. CASE \E m \in Mailbox : CloseHeld(c, m)
  BY <1>7, CloseHeldStep
<1>8. CASE \E m \in Mailbox : CloseUnheld(c, m)
  BY <1>8, CloseUnheldStep
<1>9. CASE \E x \in Msg : Add(c, x)
  BY <1>1, <1>9, AddStep
<1> QED BY <1>2, <1>3, <1>4, <1>5, <1>6, <1>7, <1>8, <1>9 DEF Command

LEMMA NextInside ==
    ASSUME Typed, HandlerReady, Inside, ObjectsKept', [Next]_vars
    PROVE  Inside'
<1>1. OneNamespace /\ DeleteReady /\ ExpireReady
  BY DEF HandlerReady
<1>2. ASSUME NEW c \in Conn, Command(c) PROVE Inside'
  BY <1>2, CommandInside
<1>3. CASE OpenClaimed
  BY <1>3, OpenClaimedStep
<1>4. CASE RetireNameplate \/ Tick \/ StartPrune
  BY <1>4, TimeStep
<1>5. CASE CloseSide
  BY <1>5, CloseSideStep
<1>6. CASE DeleteMailbox
  BY <1>1, <1>6, DeleteMailboxStep
<1>7. CASE DeleteFails
  <2>1. task.op = "delete" /\ task.conn \in Conn
    BY <1>7 DEF DeleteFails, Typed, TypeOK, Task, Idle
  <2>2. \A d \in Conn : Closing(d) => d = task.conn
    BY DEF Closing
  <2> QED BY <1>7, <2>1, <2>2, DisconnectStep DEF DeleteFails
<1>8. CASE PruneTouch
  BY <1>8, PruneTouchStep
<1>9. CASE PruneDelete
  BY <1>1, <1>9, PruneDeleteStep
<1>10. CASE Restart
  BY <1>10, RestartStep
<1>11. CASE UNCHANGED vars
  BY <1>11 DEF vars, channelDB, registry, Inside, Objects, BoxesCurrent, OneBox, Connections,
         HeldMailbox, ListenerHolds, CloserHolds, Closing, Bound, Delivery, ListenerKnown,
         CompleteDelivery, NoOrphanMessages, MessagesOf
<1> QED BY <1>2, <1>3, <1>4, <1>5, <1>6, <1>7, <1>8, <1>9, <1>10, <1>11 DEF Next, Continue

LEMMA SpecInside == Spec /\ []ObjectsKept => [](Typed /\ HandlerReady /\ Inside)
<1>1. Init => Inside
  BY DEF Init, ChannelInit, RegistryInit, Inside, Objects, ObjectsKept, NamespacesKept,
         BoxesCurrent, OneBox, Connections, HeldMailbox, ListenerHolds, CloserHolds, Bound, Unbound,
         Idle, Delivery, ListenerKnown, CompleteDelivery, NoOrphanMessages
<1>2. Structured /\ HandlerReady => Typed
  BY DEF Structured
<1>3. Typed /\ HandlerReady /\ Inside /\ ObjectsKept' /\ [Next]_vars => Inside'
  BY NextInside
<1> QED BY <1>1, <1>2, <1>3, SpecHandlerReady, PTL DEF Spec

\* Every subscriber has been sent all messages of its mailbox and no other,
\* through lost connections, overlapping ones, closes and reopenings, pruning and
\* restarts, until a connection is left with a dropped object.
THEOREM DeliveryIsComplete == Spec /\ []ObjectsKept => []CompleteDelivery
<1>1. Inside => CompleteDelivery
  BY DEF Inside, Delivery
<1> QED BY <1>1, SpecInside, PTL

\* Likewise, no message outlives its mailbox.
THEOREM MessagesHaveMailboxes == Spec /\ []ObjectsKept => []NoOrphanMessages
<1>1. Inside => NoOrphanMessages
  BY DEF Inside, Delivery
<1> QED BY <1>1, SpecInside, PTL

-----------------------------------------------------------------------------
(* A mailbox is a pipe between two ends: no third side ever subscribes.  A  *)
(* refused side leaves its row, so it is not the number of rows that is     *)
(* bounded but, at every subscription, the number of rows it leaves.        *)

ListeningSides(m) == {conn[l.conn].side : l \in {k \in listeners : k.box.id = m}}

\* Rows of one mailbox have different sides.
LEMMA SidesOfRows ==
    ASSUME NEW rows \in SUBSET MailboxSide, IsFiniteSet(Side),
           \A r1, r2 \in rows : r1.side = r2.side => r1 = r2
    PROVE  /\ IsFiniteSet({r.side : r \in rows})
           /\ Cardinality({r.side : r \in rows}) <= Cardinality(rows)
           /\ Cardinality(rows) \in Nat
<1> DEFINE sides == {r.side : r \in rows}
           f == [r \in rows |-> r.side]
<1>1. sides \in SUBSET Side
  BY DEF MailboxSide
<1>2. IsFiniteSet(sides)
  BY <1>1, FS_Subset
<1>3. f \in Injection(rows, sides) /\ f \in Surjection(rows, sides)
  BY DEF Injection, Surjection, IsInjective
<1>4. IsFiniteSet(rows)
  BY <1>2, <1>3, FS_Injection
<1> QED BY <1>2, <1>3, <1>4, FS_Surjection, FS_CardinalityType

\* Subscribed connections have a side.
LEMMA ListeningSidesFinite ==
    ASSUME Typed, Inside, IsFiniteSet(Side), NEW m
    PROVE  IsFiniteSet(ListeningSides(m))
<1>1. \A l \in listeners : conn[l.conn].side \in Side
  <2> SUFFICES ASSUME NEW l \in listeners PROVE conn[l.conn].side \in Side
    OBVIOUS
  <2>1. l.conn \in Conn /\ l.box # None
    BY ObjectAssumption DEF Typed, TypeOK, RegistryTypeOK, Listener
  <2>2. Bound(l.conn)
    BY <2>1 DEF Inside, Connections, ListenerHolds, HeldMailbox
  <2> QED BY <2>1, <2>2, BoundType DEF Typed, TypeOK
<1>2. ListeningSides(m) \in SUBSET Side
  BY <1>1 DEF ListeningSides
<1> QED BY <1>2, FS_Subset

\* handle_open is the only handler that subscribes, and no side is ever renamed.
LEMMA OnlyOpenSubscribes ==
    ASSUME Typed, Inside, [Next]_vars, \A c \in Conn, m \in Mailbox : ~Open(c, m)
    PROVE  \A l \in listeners' : l \in listeners /\ conn'[l.conn].side = conn[l.conn].side
<1> DEFINE Fewer == \A l \in listeners' : l \in listeners /\ conn'[l.conn].side = conn[l.conn].side
<1>0. \A l \in listeners : l.conn \in Conn
  BY DEF Typed, TypeOK, RegistryTypeOK, Listener
<1>1. ASSUME NEW c \in Conn, Disconnect(c) PROVE Fewer
  BY <1>0, <1>1 DEF Disconnect, WithoutListener, Typed, TypeOK, ConnTypeOK
<1>2. ASSUME NEW c \in Conn, Command(c) PROVE Fewer
  <2>1. ASSUME NEW a \in App, NEW s \in Side, Bind(c, a, s) PROVE Fewer
    <3>1. ~Bound(c) /\ listeners' = listeners
      BY <2>1 DEF Bind
    <3>2. \A d \in Conn \ {c} : conn'[d].side = conn[d].side
      BY <2>1 DEF Bind, Typed, TypeOK, ConnTypeOK, ConnState
    <3>3. conn[c].mailbox = None
      BY <3>1 DEF Inside, Connections, HeldMailbox
    <3>4. \A l \in listeners : l.conn # c
      BY <3>3, HoldsNothing DEF Inside
    <3> QED BY <1>0, <3>1, <3>2, <3>4
  <2>2. CASE Allocate(c)
    BY <2>2 DEF Allocate, registry
  <2>3. CASE AllocateFails(c) \/ Lost(c) \/ \E m \in Mailbox : OpenFails(c, m)
    BY <1>1, <2>3 DEF AllocateFails, Lost, OpenFails
  <2>4. CASE \E n \in Name : Claim(c, n) \/ ClaimRefused(c, n) \/ Release(c, n)
    BY <1>0, <2>4
       DEF Claim, ClaimRefused, Release, registry, Typed, TypeOK, ConnTypeOK, ConnState
  <2>5. CASE \E m \in Mailbox : OpenCrowded(c, m) \/ CloseUnheld(c, m) \/ CloseCrowded(c, m)
    BY <1>0, <2>5
       DEF OpenCrowded, CloseUnheld, CloseCrowded, Typed, TypeOK, ConnTypeOK, ConnState
  <2>6. CASE \E m \in Mailbox : CloseHeld(c, m)
    BY <1>0, <2>6 DEF CloseHeld, WithoutListener, Typed, TypeOK, ConnTypeOK, ConnState
  <2>7. CASE \E x \in Msg : Add(c, x)
    BY <2>7 DEF Add, registry
  <2> QED BY <1>2, <2>1, <2>2, <2>3, <2>4, <2>5, <2>6, <2>7 DEF Command
<1>3. CASE OpenClaimed
  BY <1>0, <1>3 DEF OpenClaimed, Typed, TypeOK, ConnTypeOK, ConnState
<1>4. CASE CloseSide \/ DeleteMailbox
  BY <1>0, <1>4
     DEF CloseSide, DeleteMailbox, StopListeners, registry, Typed, TypeOK, ConnTypeOK, ConnState
<1>5. CASE DeleteFails
  <2>1. task.conn \in Conn
    BY <1>5 DEF DeleteFails, Typed, TypeOK, Task, Idle
  <2> QED BY <1>1, <1>5, <2>1 DEF DeleteFails
<1>6. CASE RetireNameplate \/ PruneTouch \/ PruneDelete \/ StartPrune \/ Tick \/ UNCHANGED vars
  BY <1>6 DEF RetireNameplate, PruneTouch, PruneDelete, StartPrune, Tick, vars, registry
<1>7. CASE Restart
  BY <1>7 DEF Restart
<1> QED BY <1>2, <1>3, <1>4, <1>5, <1>6, <1>7 DEF Next, Continue

LEMMA TwoListeningSidesStep ==
    ASSUME IsFiniteSet(Side), Typed, Inside, TwoListeningSides, [Next]_vars,
           Typed', Inside', UniqueRows'
    PROVE  TwoListeningSides'
<1> SUFFICES ASSUME NEW m \in Mailbox PROVE Cardinality(ListeningSides(m)') <= 2
  BY DEF TwoListeningSides, ListeningSides
<1>1. IsFiniteSet(ListeningSides(m)) /\ Cardinality(ListeningSides(m)) <= 2
  BY ListeningSidesFinite DEF TwoListeningSides, ListeningSides
<1>2. CASE ListeningSides(m)' \subseteq ListeningSides(m)
  <2> DEFINE now == ListeningSides(m)'
  <2>1. Cardinality(now) <= Cardinality(ListeningSides(m)) /\ Cardinality(now) \in Nat
        /\ Cardinality(ListeningSides(m)) \in Nat
    BY <1>1, <1>2, FS_Subset, FS_CardinalityType
  <2> QED BY <1>1, <2>1
<1>3. ASSUME NEW c \in Conn, Open(c, m) PROVE Cardinality(ListeningSides(m)') <= 2
  <2> DEFINE rows == SidesOf(m)'
             sides == {r.side : r \in rows}
  <2>1. rows \in SUBSET MailboxSide
    BY DEF Typed, TypeOK, ChannelTypeOK, SidesOf
  <2>2. \A r1, r2 \in rows : r1.side = r2.side => r1 = r2
    BY DEF UniqueRows, SidesOf
  <2>3. ~(Cardinality(rows) > 2)
    BY <1>3 DEF Open, Crowded, OpenTransaction, SidesOf
  <2>4. ListeningSides(m)' \subseteq sides
    <3> SUFFICES ASSUME NEW l \in listeners', l.box.id = m PROVE conn'[l.conn].side \in sides
      BY DEF ListeningSides
    <3> QED BY DEF Inside, Delivery, ListenerKnown, SidesOf
  <2>5. IsFiniteSet(sides) /\ Cardinality(sides) <= Cardinality(rows) /\ Cardinality(rows) \in Nat
    <3> HIDE DEF rows
    <3> QED BY <2>1, <2>2, SidesOfRows
  <2>6. Cardinality(ListeningSides(m)') <= Cardinality(sides)
        /\ Cardinality(ListeningSides(m)') \in Nat /\ Cardinality(sides) \in Nat
    <3> HIDE DEF rows, sides
    <3> QED BY <2>4, <2>5, FS_Subset, FS_CardinalityType
  <2> HIDE DEF rows, sides
  <2> QED BY <2>3, <2>5, <2>6
<1>4. ASSUME NEW c \in Conn, NEW k \in Mailbox, Open(c, k), k # m
      PROVE  ListeningSides(m)' \subseteq ListeningSides(m)
  <2>1. PICK b \in SpawnMailbox(conn[c].app, k, HeldBoxes) :
          /\ listeners' = listeners \union {[conn |-> c, box |-> b]}
          /\ conn' = [conn EXCEPT ![c].mailboxId = k, ![c].mailbox = b]
    BY <1>4 DEF Open
  <2>2. b.id = k
    <3>1. ASSUME NEW used
          PROVE  \A x \in {[ns |-> conn[c].app, id |-> k, gen |-> g] : g \in LeastUnused(used)} :
                    x.id = k
      OBVIOUS
    <3> QED BY <3>1 DEF SpawnMailbox, Registered
  <2>3. \A d \in Conn : conn'[d].side = conn[d].side
    BY <2>1 DEF Typed, TypeOK, ConnTypeOK, ConnState
  <2>4. \A l \in listeners' : l.box.id = m => l \in listeners /\ l.conn \in Conn
    <3>1. \A l \in listeners : l.conn \in Conn
      BY DEF Typed, TypeOK, RegistryTypeOK, Listener
    <3>2. \A l \in listeners' : l \in listeners \/ l.box = b
      BY <2>1
    <3> QED BY <1>4, <2>2, <3>1, <3>2
  <2> QED BY <2>3, <2>4 DEF ListeningSides
<1>5. CASE \A c \in Conn, k \in Mailbox : ~Open(c, k)
  <2>1. ListeningSides(m)' \subseteq ListeningSides(m)
    BY <1>5, OnlyOpenSubscribes DEF ListeningSides
  <2> QED BY <1>2, <2>1
<1> QED BY <1>2, <1>3, <1>4, <1>5

\* No third side ever listens to a mailbox, however many have tried and whatever
\* its first two sides have closed and opened again, until a connection is left
\* with a dropped object.
THEOREM TwoEnds ==
    ASSUME IsFiniteSet(Side)
    PROVE  Spec /\ []ObjectsKept => []TwoListeningSides
<1>1. Init => TwoListeningSides
  <2> SUFFICES ASSUME Init, NEW m \in Mailbox PROVE Cardinality(ListeningSides(m)) <= 2
    BY DEF TwoListeningSides, ListeningSides
  <2>1. ListeningSides(m) = {}
    BY DEF Init, RegistryInit, ListeningSides
  <2> QED BY <2>1, FS_EmptySet
<1>2. /\ Typed /\ Inside /\ TwoListeningSides /\ [Next]_vars
      /\ Typed' /\ Inside' /\ UniqueRows'
      => TwoListeningSides'
  BY TwoListeningSidesStep
<1> QED BY <1>1, <1>2, SpecInside, RowsAreUnique, PTL DEF Spec

-----------------------------------------------------------------------------
(* Clients without overlapping connections and without reopening.  A side   *)
(* then closes only what it alone listens to, so that a mailbox is there    *)
(* as long as anybody listens, and no last close drops an object another    *)
(* connection holds.  What is left is the timer.                            *)

Protocol == ~Overlap /\ ~Reopen

OneConnection ==
    \A c, d \in Conn :
        Bound(c) /\ Bound(d) /\ conn[c].app.app = conn[d].app.app /\ conn[c].side = conn[d].side
            => c = d

ListenerOpen ==
    \A l \in listeners :
        [mailbox |-> l.box.id, side |-> conn[l.conn].side, opened |-> TRUE] \in mailboxSides

Alone == OneConnection /\ ListenerOpen

LEMMA NextOneConnection ==
    ASSUME Protocol, Typed, OneConnection, [Next]_vars
    PROVE  OneConnection'
<1> DEFINE Fewer == \A d \in Conn : conn'[d].app # None =>
                        conn'[d].app = conn[d].app /\ conn'[d].side = conn[d].side
<1>0. Fewer => OneConnection'
  BY DEF OneConnection, Bound
<1>1. ASSUME NEW c \in Conn, Disconnect(c) PROVE Fewer
  BY <1>1 DEF Disconnect, Bound, Unbound, Typed, TypeOK, ConnTypeOK
<1>2. ASSUME NEW c \in Conn, NEW a \in App, NEW s \in Side, Bind(c, a, s) PROVE OneConnection'
  <2>1. PICK ns \in GetApp(a, HeldNamespaces) : conn' = [conn EXCEPT ![c].app = ns, ![c].side = s]
    BY <1>2 DEF Bind
  <2>2. ns.app = a
    <3>1. ASSUME NEW used
          PROVE  \A n \in {[app |-> a, gen |-> g] : g \in LeastUnused(used)} : n.app = a
      OBVIOUS
    <3> QED BY <3>1 DEF GetApp
  <2>3. /\ conn'[c].app = ns /\ conn'[c].side = s
        /\ \A d \in Conn \ {c} : conn'[d].app = conn[d].app /\ conn'[d].side = conn[d].side
    BY <2>1 DEF Typed, TypeOK, ConnTypeOK, ConnState
  <2>4. \A d \in Conn : Bound(d) => conn[d].app.app # a \/ conn[d].side # s
    BY <1>2 DEF Bind, Protocol
  <2> QED BY <2>2, <2>3, <2>4 DEF OneConnection, Bound
<1>3. ASSUME NEW c \in Conn, Command(c), \A a \in App, s \in Side : ~Bind(c, a, s) PROVE Fewer
  <2>1. CASE Allocate(c) \/ \E x \in Msg : Add(c, x)
    BY <2>1 DEF Allocate, Add, Bound
  <2>2. CASE AllocateFails(c) \/ Lost(c) \/ \E m \in Mailbox : OpenFails(c, m)
    BY <1>1, <2>2 DEF AllocateFails, Lost, OpenFails
  <2>3. CASE \E n \in Name : Claim(c, n) \/ ClaimRefused(c, n) \/ Release(c, n)
    BY <2>3 DEF Claim, ClaimRefused, Release, Bound, Typed, TypeOK, ConnTypeOK, ConnState
  <2>4. CASE \E m \in Mailbox : Open(c, m) \/ OpenCrowded(c, m)
    BY <2>4 DEF Open, OpenCrowded, Bound, Typed, TypeOK, ConnTypeOK, ConnState
  <2>5. CASE \E m \in Mailbox : CloseHeld(c, m) \/ CloseUnheld(c, m) \/ CloseCrowded(c, m)
    BY <2>5 DEF CloseHeld, CloseUnheld, CloseCrowded, Bound, Typed, TypeOK, ConnTypeOK, ConnState
  <2> QED BY <1>3, <2>1, <2>2, <2>3, <2>4, <2>5 DEF Command
<1>4. ASSUME OpenClaimed \/ CloseSide \/ DeleteMailbox PROVE Fewer
  BY <1>4 DEF OpenClaimed, CloseSide, DeleteMailbox, Typed, TypeOK, ConnTypeOK, ConnState
<1>5. ASSUME DeleteFails PROVE Fewer
  <2>1. task.conn \in Conn
    BY <1>5 DEF DeleteFails, Typed, TypeOK, Task, Idle
  <2> QED BY <1>1, <1>5, <2>1 DEF DeleteFails
<1>6. ASSUME RetireNameplate \/ PruneTouch \/ PruneDelete \/ StartPrune \/ Tick \/ UNCHANGED vars
      PROVE  Fewer
  BY <1>6 DEF RetireNameplate, PruneTouch, PruneDelete, StartPrune, Tick, vars
<1>7. ASSUME Restart PROVE Fewer
  BY <1>7 DEF Restart, Unbound
<1> QED BY <1>0, <1>2, <1>3, <1>4, <1>5, <1>6, <1>7 DEF Next, Continue

\* What a step may do to the rows of mailboxes.
LEMMA SideRows ==
    ASSUME Typed, [Next]_vars
    PROVE  \/ mailboxSides \subseteq mailboxSides'
           \/ CloseSide
           \/ \E gone : DeleteMailboxes(gone)
<1> DEFINE Kept == mailboxSides \subseteq mailboxSides'
<1>1. ASSUME NEW a, NEW m, NEW s, OpenTransaction(a, m, s) PROVE Kept
  BY <1>1 DEF OpenTransaction, SidesAfterOpen
<1>2. ASSUME NEW c \in Conn, Command(c) PROVE Kept
  BY <1>1, <1>2 DEF Command, Bind, Allocate, AllocateFails, Claim, ClaimRefused, Release, Open,
     OpenCrowded, OpenFails, CloseHeld, CloseUnheld, CloseCrowded, Add, Lost, channelDB
<1>3. CASE OpenClaimed
  BY <1>1, <1>3 DEF OpenClaimed
<1>4. CASE DeleteMailbox \/ PruneDelete
  BY <1>4 DEF DeleteMailbox, PruneDelete
<1>5. CASE RetireNameplate \/ DeleteFails \/ PruneTouch \/ StartPrune \/ Tick \/ Restart
             \/ UNCHANGED vars
  BY <1>5 DEF RetireNameplate, DeleteFails, PruneTouch, StartPrune, Tick, Restart, vars, channelDB
<1> QED BY <1>2, <1>3, <1>4, <1>5 DEF Next, Continue

\* A side that may open has no closed row, so that afterwards it has an open one.
LEMMA OpensRow ==
    ASSUME Protocol, Typed, NEW c \in Conn, NEW m \in Mailbox, Open(c, m)
    PROVE  [mailbox |-> m, side |-> conn[c].side, opened |-> TRUE] \in mailboxSides'
<1> DEFINE s == conn[c].side
<1>1. [mailbox |-> m, side |-> s, opened |-> FALSE] \notin mailboxSides
  BY DEF Open, MayOpen, Protocol
<1>2. OpenTransaction(conn[c].app.app, m, s)
  BY DEF Open
<1>3. ASSUME NEW r \in SidesOf(m), r.side = s
      PROVE  r = [mailbox |-> m, side |-> s, opened |-> TRUE]
  <2>1. r \in MailboxSide /\ r.mailbox = m /\ r \in mailboxSides
    BY DEF SidesOf, Typed, TypeOK, ChannelTypeOK
  <2>2. r = [mailbox |-> m, side |-> s, opened |-> r.opened] /\ r.opened \in BOOLEAN
    BY <1>3, <2>1 DEF MailboxSide
  <2>3. CASE r.opened = TRUE
    BY <2>2, <2>3
  <2>4. CASE r.opened = FALSE
    BY <1>1, <2>1, <2>2, <2>4
  <2> QED BY <2>2, <2>3, <2>4
<1>4. CASE \E r \in SidesOf(m) : r.side = s
  BY <1>2, <1>3, <1>4 DEF OpenTransaction, SidesAfterOpen, SidesOf
<1>5. CASE ~ \E r \in SidesOf(m) : r.side = s
  BY <1>2, <1>5 DEF OpenTransaction, SidesAfterOpen
<1> QED BY <1>4, <1>5

\* Who closes a side's row is the only connection that could listen for it.
LEMMA ClosesOwnRow ==
    ASSUME Typed, Inside, OneConnection, CloseSide, NEW l \in listeners,
           l.box.id = task.box.id, conn[l.conn].side = conn[task.conn].side
    PROVE  mailboxSides' = mailboxSides
<1> DEFINE c == task.conn
           b == task.box
<1>1. /\ task.op = "close" /\ c \in Conn /\ b \in Box /\ b # None
      /\ l.conn \in Conn /\ l.box # None
  BY ObjectAssumption
     DEF CloseSide, Typed, TypeOK, Task, Idle, RegistryTypeOK, Listener
<1>2. conn[c].mailbox = b /\ conn[l.conn].mailbox = l.box /\ l.conn # c
  BY <1>1 DEF Inside, Connections, CloserHolds, ListenerHolds, Closing
<1>3. /\ Bound(c) /\ b.ns = conn[c].app
      /\ Bound(l.conn) /\ l.box.ns = conn[l.conn].app
  BY <1>1, <1>2 DEF Inside, Connections, HeldMailbox
<1>4. mailboxes[b.id] = l.box.ns.app
  BY DEF Inside, Delivery, ListenerKnown
<1>5. mailboxes[b.id] # b.ns.app
  BY <1>1, <1>2, <1>3, <1>4 DEF OneConnection
<1> QED BY <1>5 DEF CloseSide, NothingToClose

LEMMA NextListenerOpen ==
    ASSUME Protocol, Typed, Inside, Alone, [Next]_vars, Inside'
    PROVE  ListenerOpen'
<1> SUFFICES ASSUME NEW l \in listeners'
             PROVE  [mailbox |-> l.box.id, side |-> conn'[l.conn].side, opened |-> TRUE]
                        \in mailboxSides'
  BY DEF ListenerOpen
<1> DEFINE row == [mailbox |-> l.box.id, side |-> conn[l.conn].side, opened |-> TRUE]
<1>1. ASSUME l \in listeners, conn'[l.conn].side = conn[l.conn].side PROVE row \in mailboxSides'
  <2>1. row \in mailboxSides /\ row.mailbox = l.box.id /\ row.side = conn[l.conn].side
    BY <1>1 DEF Alone, ListenerOpen
  <2> HIDE DEF row
  <2>2. CASE mailboxSides \subseteq mailboxSides'
    BY <2>1, <2>2
  <2>3. CASE CloseSide
    <3>1. CASE l.box.id = task.box.id /\ conn[l.conn].side = conn[task.conn].side
      BY <1>1, <2>1, <2>3, <3>1, ClosesOwnRow DEF Alone
    <3>2. CASE l.box.id # task.box.id \/ conn[l.conn].side # conn[task.conn].side
      BY <2>1, <2>3, <3>2 DEF CloseSide, SidesAfterClose
    <3> QED BY <3>1, <3>2
  <2>4. ASSUME NEW gone, DeleteMailboxes(gone) PROVE row \in mailboxSides'
    <3>1. mailboxes'[l.box.id] = l.box.ns.app /\ l.box.ns.app # None /\ l.box.id \in Mailbox
      BY <1>1, NoneAssumption DEF Inside, Delivery, ListenerKnown, Typed, TypeOK, RegistryTypeOK,
                                  Listener, Box, Namespace
    <3> QED BY <2>1, <2>4, <3>1 DEF DeleteMailboxes
  <2> QED BY <2>2, <2>3, <2>4, SideRows
<1>2. ASSUME NEW c \in Conn, NEW m \in Mailbox, Open(c, m), l \notin listeners
      PROVE  [mailbox |-> l.box.id, side |-> conn'[l.conn].side, opened |-> TRUE] \in mailboxSides'
  <2>1. PICK b \in SpawnMailbox(conn[c].app, m, HeldBoxes) :
          /\ listeners' = listeners \union {[conn |-> c, box |-> b]}
          /\ conn' = [conn EXCEPT ![c].mailboxId = m, ![c].mailbox = b]
    BY <1>2 DEF Open
  <2>2. b.id = m
    <3>1. ASSUME NEW used
          PROVE  \A x \in {[ns |-> conn[c].app, id |-> m, gen |-> g] : g \in LeastUnused(used)} :
                    x.id = m
      OBVIOUS
    <3> QED BY <3>1 DEF SpawnMailbox, Registered
  <2>3. conn'[c].side = conn[c].side
    BY <2>1 DEF Typed, TypeOK, ConnTypeOK, ConnState
  <2>4. l.box = b /\ l.conn = c
    BY <1>2, <2>1
  <2>5. [mailbox |-> m, side |-> conn[c].side, opened |-> TRUE] \in mailboxSides'
    BY <1>2, OpensRow
  <2> QED BY <2>2, <2>3, <2>4, <2>5
<1>3. CASE \E c \in Conn, m \in Mailbox : Open(c, m)
  <2>1. ASSUME NEW d \in Conn PROVE conn'[d].side = conn[d].side
    BY <1>3 DEF Open, Typed, TypeOK, ConnTypeOK, ConnState
  <2>2. l \in listeners => l.conn \in Conn
    BY DEF Typed, TypeOK, RegistryTypeOK, Listener
  <2> QED BY <1>1, <1>2, <1>3, <2>1, <2>2
<1>4. CASE \A c \in Conn, m \in Mailbox : ~Open(c, m)
  BY <1>1, <1>4, OnlyOpenSubscribes
<1> QED BY <1>3, <1>4

\* No last close drops an object another connection holds.
LEMMA NextObjectsKept ==
    ASSUME Typed, HandlerReady, Inside, Alone, [Next]_vars, NamespacesKept'
    PROVE  ObjectsKept'
<1> SUFFICES ASSUME NEW c \in Conn, conn'[c].mailbox # None PROVE conn'[c].mailbox \in spawned'
  BY DEF ObjectsKept
<1> DEFINE Kept == conn'[c].mailbox = conn[c].mailbox /\ spawned \subseteq spawned'
<1>0. Kept => conn'[c].mailbox \in spawned'
  BY DEF Inside, Objects, ObjectsKept
<1>1. ASSUME NEW d \in Conn, Disconnect(d) PROVE Kept
  <2>1. c # d /\ conn'[c] = conn[c]
    BY <1>1 DEF Disconnect, Unbound, Typed, TypeOK, ConnTypeOK
  <2>2. spawned' = spawned
    BY <1>1 DEF Disconnect, Reachable, Inside, Objects, BoxesCurrent
  <2> QED BY <2>1, <2>2
<1>2. ASSUME NEW d \in Conn, NEW m \in Mailbox, Open(d, m) \/ CloseUnheld(d, m)
      PROVE  conn'[c].mailbox \in spawned'
  <2>1. PICK b \in SpawnMailbox(conn[d].app, m, HeldBoxes) :
          /\ spawned' = spawned \union {b}
          /\ \/ conn' = [conn EXCEPT ![d].mailboxId = m, ![d].mailbox = b]
             \/ conn' = [conn EXCEPT ![d].didClose = TRUE, ![d].mailbox = b]
    BY <1>2 DEF Open, CloseUnheld
  <2>2. conn'[c].mailbox = b \/ conn'[c].mailbox = conn[c].mailbox
    BY <2>1 DEF Typed, TypeOK, ConnTypeOK, ConnState
  <2> QED BY <1>0, <2>1, <2>2
<1>3. ASSUME NEW d \in Conn, Command(d), \A m \in Mailbox : ~Open(d, m) /\ ~CloseUnheld(d, m)
      PROVE  Kept
  <2>1. CASE \E a \in App, s \in Side : Bind(d, a, s)
    BY <2>1 DEF Bind, Typed, TypeOK, ConnTypeOK, ConnState
  <2>2. CASE Allocate(d) \/ \E x \in Msg : Add(d, x)
    BY <2>2 DEF Allocate, Add, registry
  <2>3. CASE AllocateFails(d) \/ Lost(d) \/ \E m \in Mailbox : OpenFails(d, m)
    BY <1>1, <2>3 DEF AllocateFails, Lost, OpenFails
  <2>4. CASE \E n \in Name : Claim(d, n) \/ ClaimRefused(d, n) \/ Release(d, n)
    BY <2>4 DEF Claim, ClaimRefused, Release, registry, Typed, TypeOK, ConnTypeOK, ConnState
  <2>5. CASE \E m \in Mailbox : OpenCrowded(d, m) \/ CloseCrowded(d, m)
    BY <2>5 DEF OpenCrowded, CloseCrowded, Typed, TypeOK, ConnTypeOK, ConnState
  <2>6. CASE \E m \in Mailbox : CloseHeld(d, m)
    BY <2>6 DEF CloseHeld, Typed, TypeOK, ConnTypeOK, ConnState
  <2> QED BY <1>3, <2>1, <2>2, <2>3, <2>4, <2>5, <2>6 DEF Command
<1>4. ASSUME OpenClaimed PROVE Kept
  BY <1>4 DEF OpenClaimed, Typed, TypeOK, ConnTypeOK, ConnState
<1>5. ASSUME RetireNameplate \/ PruneTouch \/ PruneDelete \/ StartPrune \/ Tick \/ UNCHANGED vars
      PROVE  Kept
  BY <1>5 DEF RetireNameplate, PruneTouch, PruneDelete, StartPrune, Tick, vars, registry
<1>6. ASSUME CloseSide PROVE Kept
  BY <1>6 DEF CloseSide, registry, Typed, TypeOK, ConnTypeOK, ConnState
<1>7. ASSUME DeleteFails PROVE Kept
  <2>1. task.conn \in Conn
    BY <1>7 DEF DeleteFails, Typed, TypeOK, Task, Idle
  <2> QED BY <1>1, <1>7, <2>1 DEF DeleteFails
<1>8. ASSUME DeleteMailbox PROVE conn'[c].mailbox \in spawned'
  <2> DEFINE b == task.box
  <2>1. /\ task.op = "delete"
        /\ task.conn \in Conn
        /\ conn' = [conn EXCEPT ![task.conn].mailbox = None]
        /\ spawned' = spawned \ Registered(b.ns, b.id)
    BY <1>8 DEF DeleteMailbox, FreeMailbox, Typed, TypeOK, Task, Idle
  <2>2. c # task.conn /\ conn'[c].mailbox = conn[c].mailbox
    BY <2>1 DEF Typed, TypeOK, ConnTypeOK, ConnState
  <2>3. PICK l \in listeners : l.conn = c /\ l.box = conn[c].mailbox
    BY <2>2 DEF Inside, Connections, HeldMailbox, Closing
  <2> DEFINE row == [mailbox |-> l.box.id, side |-> conn[l.conn].side, opened |-> TRUE]
  <2>4. row \in mailboxSides /\ row.mailbox = l.box.id /\ row.opened = TRUE
    BY DEF Alone, ListenerOpen
  <2> HIDE DEF row
  <2>5. l.box.id # b.id
    BY <2>1, <2>4 DEF HandlerReady, DeleteReady, SidesOf
  <2> QED BY <2>1, <2>2, <2>3, <2>5 DEF Registered, Inside, Objects, ObjectsKept
<1>9. ASSUME Restart PROVE FALSE
  BY <1>9 DEF Restart, Unbound
<1> QED BY <1>0, <1>2, <1>3, <1>4, <1>5, <1>6, <1>7, <1>8, <1>9 DEF Next, Continue

LEMMA SpecAlone ==
    ASSUME Protocol
    PROVE  Spec /\ []NamespacesKept => [](Typed /\ HandlerReady /\ Inside /\ Alone)
<1>1. Init => Inside /\ Alone
  BY DEF Init, ChannelInit, RegistryInit, Inside, Objects, ObjectsKept, NamespacesKept,
         BoxesCurrent, OneBox, Connections, HeldMailbox, ListenerHolds, CloserHolds, Bound, Unbound,
         Idle, Delivery, ListenerKnown, CompleteDelivery, NoOrphanMessages,
         Alone, OneConnection, ListenerOpen
<1>2. Structured /\ HandlerReady => Typed
  BY DEF Structured
<1>3. Typed /\ HandlerReady /\ Inside /\ Alone /\ NamespacesKept' /\ [Next]_vars
      => Inside' /\ Alone'
  <2> SUFFICES ASSUME Typed, HandlerReady, Inside, Alone, NamespacesKept', [Next]_vars
               PROVE  Inside' /\ Alone'
    OBVIOUS
  <2>1. Inside'
    BY NextObjectsKept, NextInside
  <2> QED BY <2>1, NextOneConnection, NextListenerOpen DEF Alone
<1> QED BY <1>1, <1>2, <1>3, SpecHandlerReady, PTL DEF Spec

\* For these clients only the timer leaves a connection with a dropped object, so
\* that what is proved above holds of them as long as it does not.
THEOREM OnlyTheTimerDrops ==
    ASSUME Protocol
    PROVE  Spec /\ []NamespacesKept => []ObjectsKept
<1>1. Inside => ObjectsKept
  BY DEF Inside, Objects
<1> QED BY <1>1, SpecAlone, PTL

\* As long as it does not, nobody is left listening to a mailbox that is gone, that
\* its side has closed, or that the pruner would not see as listened to.
THEOREM ListenersAreProtected ==
    ASSUME Protocol
    PROVE  Spec /\ []NamespacesKept => []ListenerProtected
<1>1. Inside /\ Alone => ListenerProtected
  BY DEF Inside, Delivery, ListenerKnown, Alone, ListenerOpen, ListenerProtected
<1> QED BY <1>1, SpecAlone, PTL
=============================================================================
