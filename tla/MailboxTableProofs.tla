------------------------- MODULE MailboxTableProofs -------------------------
(***************************************************************************)
(* What the tables satisfy whatever the clients do and wherever the        *)
(* process dies, for any sets of connections, applications, sides, names,  *)
(* mailboxes and messages, and what a step never does to them.             *)
(*                                                                         *)
(* First that every variable has its type.  Then every step changes the    *)
(* tables by one of ten transactions, or not at all (lemma Transactions);  *)
(* each property is proved transaction by transaction.                     *)
(***************************************************************************)
EXTENDS MailboxServer, TLAPS

-----------------------------------------------------------------------------
(* The operations on tables and objects, once and for all.                 *)

LEMMA LeastUnusedType == \A used : LeastUnused(used) \subseteq Gen
BY DEF LeastUnused

LEMMA GetAppType ==
    ASSUME RegistryTypeOK, NEW a \in App, NEW held
    PROVE  GetApp(a, held) \subseteq Namespace
<1>1. ASSUME NEW used
      PROVE  {[app |-> a, gen |-> g] : g \in LeastUnused(used)} \subseteq Namespace
  BY LeastUnusedType DEF Namespace
<1>2. {ns \in apps : ns.app = a} \subseteq Namespace
  BY DEF RegistryTypeOK
<1> QED BY <1>1, <1>2 DEF GetApp

LEMMA SpawnMailboxType ==
    ASSUME RegistryTypeOK, NEW ns \in Namespace, NEW m \in Mailbox, NEW held
    PROVE  SpawnMailbox(ns, m, held) \subseteq Box
<1>1. ASSUME NEW used
      PROVE  {[ns |-> ns, id |-> m, gen |-> g] : g \in LeastUnused(used)} \subseteq Box
  BY LeastUnusedType DEF Box
<1>2. Registered(ns, m) \subseteq Box
  BY DEF RegistryTypeOK, Registered
<1> QED BY <1>1, <1>2 DEF SpawnMailbox

\* The solver behind SMT does not see that TRUE is a Boolean field's value; Zenon does.
LEMMA NewRowTypes ==
    /\ \A m \in Mailbox, s \in Side : [mailbox |-> m, side |-> s, opened |-> TRUE] \in MailboxSide
    /\ \A a \in App, n \in Name, s \in Side :
          [app |-> a, name |-> n, side |-> s, claimed |-> TRUE] \in NameplateSide
BY Zenon DEF MailboxSide, NameplateSide

LEMMA OpenTransactionType ==
    ASSUME ChannelTypeOK, NEW a \in App, NEW m \in Mailbox, NEW s \in Side,
           OpenTransaction(a, m, s),
           UNCHANGED <<nameplates, nameplateSides, messages>>
    PROVE  ChannelTypeOK'
<1>1. SidesAfterOpen(m, s) \subseteq MailboxSide
  BY NewRowTypes DEF ChannelTypeOK, SidesAfterOpen
<1>2. mailboxes' \in [Mailbox -> App \union {None}]
  BY DEF ChannelTypeOK, OpenTransaction
<1>3. idle' \in [Mailbox -> 0..Expire]
  BY ExpireAssumption DEF ChannelTypeOK, OpenTransaction
<1> QED BY <1>1, <1>2, <1>3 DEF ChannelTypeOK, OpenTransaction

LEMMA CreateNameplateType ==
    ASSUME ChannelTypeOK, NEW a \in App, NEW n \in Name, NEW s \in Side, NEW m \in Mailbox,
           CreateNameplate(a, n, s, m),
           UNCHANGED <<mailboxSides, messages>>
    PROVE  ChannelTypeOK'
<1>1. mailboxes' \in [Mailbox -> App \union {None}]
  BY DEF ChannelTypeOK, CreateNameplate
<1>2. idle' \in [Mailbox -> 0..Expire]
  BY ExpireAssumption DEF ChannelTypeOK, CreateNameplate
<1>3. nameplates' \subseteq Nameplate
  BY DEF ChannelTypeOK, CreateNameplate, Nameplate
<1>4. nameplateSides' \subseteq NameplateSide
  BY NewRowTypes DEF ChannelTypeOK, CreateNameplate
<1> QED BY <1>1, <1>2, <1>3, <1>4 DEF ChannelTypeOK

LEMMA JoinNameplateType ==
    ASSUME ChannelTypeOK, NEW a \in App, NEW n \in Name, NEW s \in Side, NEW m \in Mailbox,
           JoinNameplate(a, n, s, m),
           UNCHANGED <<mailboxSides, messages>>
    PROVE  ChannelTypeOK'
<1>1. nameplateSides' \subseteq NameplateSide
  BY NewRowTypes DEF ChannelTypeOK, JoinNameplate
<1> QED BY <1>1 DEF ChannelTypeOK, JoinNameplate

LEMMA DeleteMailboxesType ==
    ASSUME ChannelTypeOK, NEW gone, DeleteMailboxes(gone)
    PROVE  /\ mailboxes' \in [Mailbox -> App \union {None}]
           /\ idle' \in [Mailbox -> 0..Expire]
           /\ mailboxSides' \subseteq MailboxSide
           /\ messages' \subseteq Message
BY ExpireAssumption DEF ChannelTypeOK, DeleteMailboxes

LEMMA TouchType ==
    ASSUME ChannelTypeOK, NEW ms, Touch(ms)
    PROVE  idle' \in [Mailbox -> 0..Expire]
BY ExpireAssumption DEF ChannelTypeOK, Touch

LEMMA SidesAfterCloseType ==
    ASSUME ChannelTypeOK, NEW m, NEW s
    PROVE  SidesAfterClose(m, s) \subseteq MailboxSide
<1>1. ASSUME NEW r \in mailboxSides PROVE r \in MailboxSide /\ [r EXCEPT !.opened = FALSE] \in MailboxSide
  BY DEF ChannelTypeOK, MailboxSide
<1> QED BY <1>1 DEF SidesAfterClose

LEMMA ClaimsAfterReleaseType ==
    ASSUME ChannelTypeOK, NEW a, NEW n, NEW s
    PROVE  ClaimsAfterRelease(a, n, s) \subseteq NameplateSide
<1>1. ASSUME NEW r \in nameplateSides PROVE r \in NameplateSide /\ [r EXCEPT !.claimed = FALSE] \in NameplateSide
  BY DEF ChannelTypeOK, NameplateSide
<1> QED BY <1>1 DEF ClaimsAfterRelease

LEMMA BoundType ==
    ASSUME ConnTypeOK, NEW c \in Conn, Bound(c)
    PROVE  /\ conn[c] \in ConnState
           /\ conn[c].app \in Namespace
           /\ conn[c].app.app \in App
           /\ conn[c].side \in Side
BY DEF ConnTypeOK, Bound, ConnState, Namespace

LEMMA DisconnectType ==
    ASSUME TypeOK, NEW c \in Conn, Disconnect(c)
    PROVE  /\ RegistryTypeOK'
           /\ ConnTypeOK'
           /\ delivered' \in [Conn -> SUBSET Msg]
           /\ task' \in Task
<1>1. RegistryTypeOK'
  BY DEF TypeOK, RegistryTypeOK, Disconnect, Reachable, WithoutListener
<1>2. conn' \in [Conn -> ConnState]
  BY DEF TypeOK, ConnTypeOK, Disconnect, Unbound, ConnState
<1>3. \A d \in Conn : Bound(d)' => conn'[d].side \in Side
  BY DEF TypeOK, ConnTypeOK, Disconnect, Unbound, Bound
<1>4. delivered' \in [Conn -> SUBSET Msg]
  BY DEF TypeOK, Disconnect, Forget
<1> QED BY <1>1, <1>2, <1>3, <1>4 DEF ConnTypeOK, Disconnect, Task

-----------------------------------------------------------------------------
(* Type correctness, one lemma per action.                                 *)

LEMMA InitTypeOK == Init => TypeOK
BY ExpireAssumption DEF Init, TypeOK, ChannelInit, RegistryInit, ChannelTypeOK, RegistryTypeOK,
       ConnTypeOK, Bound, Unbound, ConnState, Task

LEMMA BindType ==
    ASSUME TypeOK, NEW c \in Conn, NEW a \in App, NEW s \in Side, Bind(c, a, s)
    PROVE  TypeOK'
<1>1. PICK ns \in GetApp(a, HeldNamespaces) :
        /\ apps' = apps \union {ns}
        /\ conn' = [conn EXCEPT ![c].app = ns, ![c].side = s]
  BY DEF Bind
<1>2. ns \in Namespace
  BY GetAppType DEF TypeOK
<1>3. ConnTypeOK'
  BY <1>1, <1>2 DEF TypeOK, ConnTypeOK, Bound, ConnState
<1> QED BY <1>1, <1>2, <1>3 DEF TypeOK, ChannelTypeOK, RegistryTypeOK, Bind, channelDB

LEMMA AllocateType ==
    ASSUME TypeOK, NEW c \in Conn, Allocate(c)
    PROVE  TypeOK'
<1>1. PICK n \in Name, m \in Mailbox :
          /\ CreateNameplate(conn[c].app.app, n, conn[c].side, m)
          /\ task' = [op |-> "allocate", conn |-> c, mailbox |-> m]
  BY DEF Allocate
<1>2. ChannelTypeOK'
  BY <1>1, BoundType, CreateNameplateType DEF TypeOK, Allocate, Handling
<1>3. task' \in Task
  BY <1>1 DEF Task
<1> QED BY <1>2, <1>3 DEF TypeOK, RegistryTypeOK, ConnTypeOK, Bound, Allocate, registry

LEMMA ClaimType ==
    ASSUME TypeOK, NEW c \in Conn, NEW n \in Name, Claim(c, n)
    PROVE  TypeOK'
<1>1. PICK m \in Mailbox :
          /\ \/ CreateNameplate(conn[c].app.app, n, conn[c].side, m)
             \/ JoinNameplate(conn[c].app.app, n, conn[c].side, m)
          /\ task' = [op |-> "claim", conn |-> c, mailbox |-> m]
  BY DEF Claim
<1>2. ChannelTypeOK'
  BY <1>1, BoundType, CreateNameplateType, JoinNameplateType DEF TypeOK, Claim, Handling
<1>3. task' \in Task
  BY <1>1 DEF Task
<1>4. ConnTypeOK'
  BY DEF TypeOK, ConnTypeOK, Bound, ConnState, Claim
<1> QED BY <1>2, <1>3, <1>4 DEF TypeOK, RegistryTypeOK, Claim, registry

LEMMA ClaimRefusedType ==
    ASSUME TypeOK, NEW c \in Conn, NEW n \in Name, ClaimRefused(c, n)
    PROVE  TypeOK'
<1>0. conn' = [conn EXCEPT ![c].didClaim = TRUE, ![c].nameplate = n]
  BY DEF ClaimRefused
<1>1. ConnTypeOK'
  BY <1>0 DEF TypeOK, ConnTypeOK, Bound, ConnState
<1> QED BY <1>1 DEF TypeOK, ChannelTypeOK, RegistryTypeOK, ClaimRefused, channelDB, registry

LEMMA OpenClaimedType ==
    ASSUME TypeOK, OpenClaimed, Bound(task.conn)
    PROVE  TypeOK'
<1> DEFINE c == task.conn
           m == task.mailbox
<1>1. c \in Conn /\ m \in Mailbox
  BY DEF TypeOK, Task, Idle, OpenClaimed
<1>2. ChannelTypeOK'
  BY <1>1, BoundType, OpenTransactionType DEF TypeOK, OpenClaimed
<1>3. RegistryTypeOK'
  <2>1. PICK b \in SpawnMailbox(conn[c].app, m, HeldBoxes) : spawned' = spawned \union {b}
    BY DEF OpenClaimed
  <2>2. b \in Box
    BY <1>1, <2>1, BoundType, SpawnMailboxType DEF TypeOK
  <2> QED BY <2>1, <2>2 DEF TypeOK, RegistryTypeOK, OpenClaimed
<1>4. ConnTypeOK'
  <2>1. (conn[c].didAllocate \/ task.op = "allocate") \in BOOLEAN
    OBVIOUS
  <2> QED BY <1>1, <2>1 DEF TypeOK, ConnTypeOK, Bound, ConnState, OpenClaimed
<1> QED BY <1>2, <1>3, <1>4 DEF TypeOK, OpenClaimed, Task

LEMMA ReleaseType ==
    ASSUME TypeOK, NEW c \in Conn, NEW n \in Name, Release(c, n)
    PROVE  TypeOK'
<1>1. nameplateSides' \subseteq NameplateSide
  BY ClaimsAfterReleaseType DEF TypeOK, Release
<1>2. ConnTypeOK'
  BY DEF TypeOK, ConnTypeOK, Bound, ConnState, Release
<1>3. task' \in Task
  BY DEF Task, Release
<1> QED BY <1>1, <1>2, <1>3 DEF TypeOK, ChannelTypeOK, RegistryTypeOK, Release, registry

LEMMA RetireNameplateType ==
    ASSUME TypeOK, RetireNameplate
    PROVE  TypeOK'
BY DEF TypeOK, ChannelTypeOK, RegistryTypeOK, ConnTypeOK, Bound, RetireNameplate,
       ClaimsWithoutNameplates, Task, registry

LEMMA OpenType ==
    ASSUME TypeOK, NEW c \in Conn, NEW m \in Mailbox, Open(c, m)
    PROVE  TypeOK'
<1>1. PICK b \in SpawnMailbox(conn[c].app, m, HeldBoxes) :
          /\ spawned' = spawned \union {b}
          /\ listeners' = listeners \union {[conn |-> c, box |-> b]}
          /\ conn' = [conn EXCEPT ![c].mailboxId = m, ![c].mailbox = b]
  BY DEF Open
<1>2. b \in Box
  BY BoundType, SpawnMailboxType DEF TypeOK, Open, Handling
<1>3. ChannelTypeOK'
  BY BoundType, OpenTransactionType DEF TypeOK, Open, Handling
<1>4. RegistryTypeOK'
  BY <1>1, <1>2 DEF TypeOK, RegistryTypeOK, Open, Listener
<1>5. ConnTypeOK'
  <2>1. conn' \in [Conn -> ConnState]
    BY <1>1, <1>2 DEF TypeOK, ConnTypeOK, ConnState
  <2>2. ASSUME NEW d \in Conn
        PROVE  conn'[d].app = conn[d].app /\ conn'[d].side = conn[d].side
    BY <1>1 DEF TypeOK, ConnTypeOK, ConnState
  <2> QED BY <2>1, <2>2 DEF TypeOK, ConnTypeOK, Bound
<1>6. delivered' \in [Conn -> SUBSET Msg]
  <2>1. MessagesOf(conn[c].app.app, m) \subseteq Msg
    BY DEF TypeOK, ChannelTypeOK, Message, MessagesOf
  <2> QED BY <2>1 DEF TypeOK, Open, Replay
<1> QED BY <1>3, <1>4, <1>5, <1>6 DEF TypeOK, Open

LEMMA OpenCrowdedType ==
    ASSUME TypeOK, NEW c \in Conn, NEW m \in Mailbox, OpenCrowded(c, m)
    PROVE  TypeOK'
<1>1. PICK b \in SpawnMailbox(conn[c].app, m, HeldBoxes) : spawned' = spawned \union {b}
  BY DEF OpenCrowded
<1>2. b \in Box
  BY BoundType, SpawnMailboxType DEF TypeOK, OpenCrowded, Handling
<1>3. ChannelTypeOK'
  BY BoundType, OpenTransactionType DEF TypeOK, OpenCrowded, Handling
<1>4. ConnTypeOK'
  BY DEF TypeOK, ConnTypeOK, Bound, ConnState, OpenCrowded
<1> QED BY <1>1, <1>2, <1>3, <1>4 DEF TypeOK, RegistryTypeOK, OpenCrowded

LEMMA AddType ==
    ASSUME TypeOK, NEW c \in Conn, NEW x \in Msg, Add(c, x)
    PROVE  TypeOK'
<1> DEFINE b == conn[c].mailbox
<1>1. b \in Box
  BY DEF TypeOK, ConnTypeOK, ConnState, Add
<1>2. messages' \subseteq Message
  BY <1>1 DEF TypeOK, ChannelTypeOK, Add, Message, Box, Namespace
<1>3. idle' \in [Mailbox -> 0..Expire]
  BY TouchType DEF TypeOK, Add
<1>4. delivered' \in [Conn -> SUBSET Msg]
  BY DEF TypeOK, Add, Broadcast
<1> QED BY <1>2, <1>3, <1>4 DEF TypeOK, ChannelTypeOK, RegistryTypeOK, ConnTypeOK, Bound, Add, registry

LEMMA CloseHeldType ==
    ASSUME TypeOK, NEW c \in Conn, NEW m \in Mailbox, CloseHeld(c, m)
    PROVE  TypeOK'
<1>1. conn[c].mailbox \in Box
  BY DEF TypeOK, ConnTypeOK, ConnState, CloseHeld
<1>2. ConnTypeOK'
  BY DEF TypeOK, ConnTypeOK, Bound, ConnState, CloseHeld
<1>3. task' \in Task
  BY <1>1 DEF Task, CloseHeld
<1>4. delivered' \in [Conn -> SUBSET Msg]
  BY DEF TypeOK, CloseHeld, Forget
<1> QED BY <1>2, <1>3, <1>4 DEF TypeOK, ChannelTypeOK, RegistryTypeOK, CloseHeld,
             WithoutListener, channelDB

LEMMA CloseUnheldType ==
    ASSUME TypeOK, NEW c \in Conn, NEW m \in Mailbox, CloseUnheld(c, m)
    PROVE  TypeOK'
<1>1. PICK b \in SpawnMailbox(conn[c].app, m, HeldBoxes) :
          /\ spawned' = spawned \union {b}
          /\ conn' = [conn EXCEPT ![c].didClose = TRUE, ![c].mailbox = b]
          /\ task' = [op |-> "close", conn |-> c, box |-> b]
  BY DEF CloseUnheld
<1>2. b \in Box
  BY BoundType, SpawnMailboxType DEF TypeOK, CloseUnheld, MayClose, Handling
<1>3. ChannelTypeOK'
  BY BoundType, OpenTransactionType DEF TypeOK, CloseUnheld, MayClose, Handling
<1>4. ConnTypeOK'
  <2>1. conn' \in [Conn -> ConnState]
    BY <1>1, <1>2 DEF TypeOK, ConnTypeOK, ConnState
  <2>2. ASSUME NEW d \in Conn
        PROVE  conn'[d].app = conn[d].app /\ conn'[d].side = conn[d].side
    BY <1>1 DEF TypeOK, ConnTypeOK, ConnState
  <2> QED BY <2>1, <2>2 DEF TypeOK, ConnTypeOK, Bound
<1>5. task' \in Task
  BY <1>1, <1>2 DEF Task
<1> QED BY <1>1, <1>2, <1>3, <1>4, <1>5 DEF TypeOK, RegistryTypeOK, CloseUnheld

LEMMA CloseCrowdedType ==
    ASSUME TypeOK, NEW c \in Conn, NEW m \in Mailbox, CloseCrowded(c, m)
    PROVE  TypeOK'
<1>1. PICK b \in SpawnMailbox(conn[c].app, m, HeldBoxes) : spawned' = spawned \union {b}
  BY DEF CloseCrowded
<1>2. b \in Box
  BY BoundType, SpawnMailboxType DEF TypeOK, CloseCrowded, MayClose, Handling
<1>3. ChannelTypeOK'
  BY BoundType, OpenTransactionType DEF TypeOK, CloseCrowded, MayClose, Handling
<1> QED BY <1>1, <1>2, <1>3 DEF TypeOK, RegistryTypeOK, ConnTypeOK, Bound, CloseCrowded

LEMMA CloseSideType ==
    ASSUME TypeOK, CloseSide
    PROVE  TypeOK'
<1>1. task.conn \in Conn /\ task.box \in Box
  BY DEF TypeOK, Task, Idle, CloseSide
<1>2. mailboxSides' \subseteq MailboxSide
  BY SidesAfterCloseType DEF TypeOK, ChannelTypeOK, CloseSide
<1>3. ConnTypeOK'
  BY <1>1 DEF TypeOK, ConnTypeOK, Bound, ConnState, CloseSide
<1>4. task' \in Task
  <2>1. task = [op |-> "close", conn |-> task.conn, box |-> task.box]
    BY DEF TypeOK, Task, Idle, CloseSide
  <2>2. [task EXCEPT !.op = "delete"] = [op |-> "delete", conn |-> task.conn, box |-> task.box]
    BY <2>1
  <2> QED BY <1>1, <2>2 DEF Task, CloseSide
<1> QED BY <1>2, <1>3, <1>4 DEF TypeOK, ChannelTypeOK, RegistryTypeOK, CloseSide, registry

LEMMA DeleteMailboxType ==
    ASSUME TypeOK, DeleteMailbox
    PROVE  TypeOK'
<1>1. task.conn \in Conn /\ task.box \in Box
  BY DEF TypeOK, Task, Idle, DeleteMailbox
<1>2. ChannelTypeOK'
  BY DeleteMailboxesType DEF TypeOK, ChannelTypeOK, DeleteMailbox, ClaimsWithout
<1>3. RegistryTypeOK'
  BY DEF TypeOK, RegistryTypeOK, DeleteMailbox, StopListeners, FreeMailbox
<1>4. ConnTypeOK'
  BY <1>1 DEF TypeOK, ConnTypeOK, Bound, ConnState, DeleteMailbox
<1>5. delivered' \in [Conn -> SUBSET Msg]
  BY DEF TypeOK, DeleteMailbox, Forget
<1> QED BY <1>2, <1>3, <1>4, <1>5 DEF TypeOK, DeleteMailbox, Task

LEMMA DeleteFailsType ==
    ASSUME TypeOK, DeleteFails
    PROVE  TypeOK'
<1>1. task.conn \in Conn
  BY DEF TypeOK, Task, Idle, DeleteFails
<1> QED BY <1>1, DisconnectType DEF TypeOK, ChannelTypeOK, DeleteFails, ClaimsWithout

LEMMA PruneTouchType ==
    ASSUME TypeOK, PruneTouch
    PROVE  TypeOK'
<1>1. task.todo \in SUBSET App
  BY DEF TypeOK, Task, Idle, PruneTouch
<1>2. PICK a \in task.todo : \E ns \in GetApp(a, HeldNamespaces) :
          /\ apps' = apps \union {ns}
          /\ Touch(ListenedIn(ns))
          /\ task' = [op |-> "expire", ns |-> ns, todo |-> task.todo \ {a}]
  BY DEF PruneTouch
<1>3. PICK ns \in GetApp(a, HeldNamespaces) :
          /\ apps' = apps \union {ns}
          /\ Touch(ListenedIn(ns))
          /\ task' = [op |-> "expire", ns |-> ns, todo |-> task.todo \ {a}]
  BY <1>2
<1>4. ns \in Namespace
  BY <1>1, <1>2, GetAppType DEF TypeOK
<1>5. idle' \in [Mailbox -> 0..Expire]
  BY <1>3, TouchType DEF TypeOK
<1>6. task' \in Task
  BY <1>1, <1>3, <1>4 DEF Task
<1> QED BY <1>3, <1>4, <1>5, <1>6 DEF TypeOK, ChannelTypeOK, RegistryTypeOK, ConnTypeOK, Bound,
             PruneTouch

LEMMA PruneDeleteType ==
    ASSUME TypeOK, PruneDelete
    PROVE  TypeOK'
<1>1. task.todo \in SUBSET App
  BY DEF TypeOK, Task, Idle, PruneDelete
<1>2. ChannelTypeOK'
  BY DeleteMailboxesType DEF TypeOK, ChannelTypeOK, PruneDelete, ClaimsWithoutNameplates
<1>3. task' \in Task
  BY <1>1 DEF Task, PruneDelete
<1> QED BY <1>2, <1>3 DEF TypeOK, RegistryTypeOK, ConnTypeOK, Bound, PruneDelete

LEMMA StartPruneType ==
    ASSUME TypeOK, StartPrune
    PROVE  TypeOK'
<1>1. AppsWithRows \subseteq App
  BY DEF TypeOK, ChannelTypeOK, AppsWithRows, Nameplate, Message
<1> QED BY <1>1 DEF TypeOK, ChannelTypeOK, RegistryTypeOK, ConnTypeOK, Bound, StartPrune, Task,
             channelDB, registry

LEMMA TickType ==
    ASSUME TypeOK, Tick
    PROVE  TypeOK'
<1>1. idle' \in [Mailbox -> 0..Expire]
  BY ExpireAssumption DEF TypeOK, ChannelTypeOK, Tick
<1> QED BY <1>1 DEF TypeOK, ChannelTypeOK, RegistryTypeOK, ConnTypeOK, Bound, Tick, registry

LEMMA RestartType ==
    ASSUME TypeOK, Restart
    PROVE  TypeOK'
<1>1. ConnTypeOK'
  BY DEF Restart, ConnTypeOK, Bound, Unbound, ConnState
<1> QED BY <1>1 DEF TypeOK, ChannelTypeOK, RegistryTypeOK, Restart, Task, channelDB

LEMMA DropType ==
    ASSUME TypeOK, NEW c \in Conn, Disconnect(c), UNCHANGED channelDB
    PROVE  TypeOK'
BY DisconnectType DEF TypeOK, ChannelTypeOK, channelDB

-----------------------------------------------------------------------------
(* The handler in progress has a connection, and the connection is bound:  *)
(* TypeOK is not inductive without it, since OpenClaimed reads the         *)
(* application and the side of task.conn.                                  *)

HandlerBound ==
    task.op \in {"claim", "allocate", "retire", "close", "delete"} => Bound(task.conn)

Typed == TypeOK /\ HandlerBound

LEMMA DisconnectHandler ==
    ASSUME NEW c \in Conn, Disconnect(c)
    PROVE  HandlerBound'
BY DEF Disconnect, HandlerBound, Idle

LEMMA CommandTyped ==
    ASSUME Typed, NEW c \in Conn, Command(c)
    PROVE  Typed'
<1>1. ASSUME NEW a \in App, NEW s \in Side, Bind(c, a, s) PROVE Typed'
  BY <1>1, BindType DEF Typed, HandlerBound, Bind, Idle
<1>2. CASE Allocate(c)
  <2>1. HandlerBound'
    BY <1>2 DEF Allocate, HandlerBound, Handling, Bound
  <2> QED BY <1>2, <2>1, AllocateType DEF Typed
<1>3. CASE AllocateFails(c)
  BY <1>3, DropType, DisconnectHandler DEF AllocateFails, Typed
<1>4. ASSUME NEW n \in Name, Claim(c, n) PROVE Typed'
  <2>1. conn'[c].app = conn[c].app
    BY <1>4 DEF Claim, Typed, TypeOK, ConnTypeOK, ConnState
  <2>2. task'.conn = c
    BY <1>4 DEF Claim
  <2>3. HandlerBound'
    BY <1>4, <2>1, <2>2 DEF Claim, HandlerBound, Handling, Bound
  <2> QED BY <1>4, <2>3, ClaimType DEF Typed
<1>5. ASSUME NEW n \in Name, ClaimRefused(c, n) PROVE Typed'
  BY <1>5, ClaimRefusedType DEF ClaimRefused, Typed, HandlerBound, Handling, Idle
<1>6. ASSUME NEW n \in Name, Release(c, n) PROVE Typed'
  <2>1. conn'[c].app = conn[c].app
    BY <1>6 DEF Release, Typed, TypeOK, ConnTypeOK, ConnState
  <2>2. task' = Idle \/ task'.conn = c
    BY <1>6 DEF Release
  <2>3. HandlerBound'
    BY <1>6, <2>1, <2>2 DEF Release, HandlerBound, Handling, Bound, Idle
  <2> QED BY <1>6, <2>3, ReleaseType DEF Typed
<1>7. ASSUME NEW m \in Mailbox, Open(c, m) PROVE Typed'
  BY <1>7, OpenType DEF Open, Typed, HandlerBound, Handling, Idle
<1>8. ASSUME NEW m \in Mailbox, OpenCrowded(c, m) PROVE Typed'
  BY <1>8, OpenCrowdedType DEF OpenCrowded, Typed, HandlerBound, Handling, Idle
<1>9. ASSUME NEW m \in Mailbox, OpenFails(c, m) PROVE Typed'
  BY <1>9, DropType, DisconnectHandler DEF OpenFails, Typed
<1>10. ASSUME NEW m \in Mailbox, CloseHeld(c, m) PROVE Typed'
  <2>1. conn'[c].app = conn[c].app
    BY <1>10 DEF CloseHeld, Typed, TypeOK, ConnTypeOK, ConnState
  <2>2. HandlerBound'
    BY <1>10, <2>1 DEF CloseHeld, MayClose, HandlerBound, Handling, Bound
  <2> QED BY <1>10, <2>2, CloseHeldType DEF Typed
<1>11. ASSUME NEW m \in Mailbox, CloseUnheld(c, m) PROVE Typed'
  <2>1. conn'[c].app = conn[c].app /\ task'.conn = c
    BY <1>11 DEF CloseUnheld, Typed, TypeOK, ConnTypeOK, ConnState
  <2>2. HandlerBound'
    BY <1>11, <2>1 DEF CloseUnheld, MayClose, HandlerBound, Handling, Bound
  <2> QED BY <1>11, <2>2, CloseUnheldType DEF Typed
<1>12. ASSUME NEW m \in Mailbox, CloseCrowded(c, m) PROVE Typed'
  BY <1>12, CloseCrowdedType DEF CloseCrowded, MayClose, Typed, HandlerBound, Handling, Idle
<1>13. ASSUME NEW x \in Msg, Add(c, x) PROVE Typed'
  BY <1>13, AddType DEF Add, Typed, HandlerBound, Handling, Idle
<1>14. CASE Lost(c)
  BY <1>14, DropType, DisconnectHandler DEF Lost, Typed
<1> QED
  BY <1>1, <1>2, <1>3, <1>4, <1>5, <1>6, <1>7, <1>8, <1>9, <1>10, <1>11, <1>12, <1>13, <1>14
     DEF Command

LEMMA ContinueTyped ==
    ASSUME Typed, Continue
    PROVE  Typed'
<1>1. CASE OpenClaimed
  BY <1>1, OpenClaimedType DEF OpenClaimed, Typed, HandlerBound, Idle
<1>2. CASE RetireNameplate
  BY <1>2, RetireNameplateType DEF RetireNameplate, Typed, HandlerBound, Idle
<1>3. CASE CloseSide
  <2>1. HandlerBound'
    <3>1. CASE task' = Idle
      BY <3>1 DEF HandlerBound, Idle
    <3>2. CASE task' = [task EXCEPT !.op = "delete"] /\ conn' = conn
      <4>1. task = [op |-> "close", conn |-> task.conn, box |-> task.box]
        BY <1>3 DEF Typed, TypeOK, Task, Idle, CloseSide
      <4>2. task'.conn = task.conn
        BY <3>2, <4>1
      <4> QED BY <1>3, <3>2, <4>2 DEF CloseSide, Typed, HandlerBound, Bound
    <3> QED BY <1>3, <3>1, <3>2 DEF CloseSide
  <2> QED BY <1>3, <2>1, CloseSideType DEF Typed
<1>4. CASE DeleteMailbox
  BY <1>4, DeleteMailboxType DEF DeleteMailbox, Typed, HandlerBound, Idle
<1>5. CASE DeleteFails
  <2>1. task.conn \in Conn
    BY <1>5 DEF DeleteFails, Typed, TypeOK, Task, Idle
  <2> QED BY <1>5, <2>1, DeleteFailsType, DisconnectHandler DEF DeleteFails, Typed
<1>6. CASE PruneTouch
  <2>1. PICK ns, a : task' = [op |-> "expire", ns |-> ns, todo |-> task.todo \ {a}]
    BY <1>6 DEF PruneTouch
  <2>2. HandlerBound'
    BY <2>1 DEF HandlerBound
  <2> QED BY <1>6, <2>2, PruneTouchType DEF Typed
<1>7. CASE PruneDelete
  <2>1. task'.op \in {"idle", "prune"}
    <3>1. task' = Idle \/ task' = [op |-> "prune", todo |-> task.todo]
      BY <1>7 DEF PruneDelete
    <3> QED BY <3>1 DEF Idle
  <2>2. HandlerBound'
    BY <2>1 DEF HandlerBound
  <2> QED BY <1>7, <2>2, PruneDeleteType DEF Typed
<1> QED BY <1>1, <1>2, <1>3, <1>4, <1>5, <1>6, <1>7 DEF Continue

LEMMA NextTyped == Typed /\ [Next]_vars => Typed'
<1> SUFFICES ASSUME Typed, [Next]_vars PROVE Typed'
  OBVIOUS
<1>1. ASSUME NEW c \in Conn, Command(c) PROVE Typed'
  BY <1>1, CommandTyped
<1>2. CASE Continue
  BY <1>2, ContinueTyped
<1>3. CASE StartPrune
  BY <1>3, StartPruneType DEF StartPrune, Typed, HandlerBound
<1>4. CASE Tick
  BY <1>4, TickType DEF Tick, Typed, HandlerBound, Idle
<1>5. CASE Restart
  BY <1>5, RestartType DEF Restart, Typed, HandlerBound, Idle
<1>6. CASE UNCHANGED vars
  BY <1>6 DEF Typed, TypeOK, ChannelTypeOK, RegistryTypeOK, ConnTypeOK, Bound, HandlerBound,
         vars, channelDB, registry
<1> QED BY <1>1, <1>2, <1>3, <1>4, <1>5, <1>6 DEF Next

LEMMA SpecTyped == Spec => []Typed
<1>1. Init => Typed
  BY InitTypeOK DEF Init, Typed, HandlerBound, Idle
<1> QED BY <1>1, NextTyped, PTL DEF Spec

\* Every reachable state of the server has the declared type, the handler in
\* progress and the rows of all tables included, whatever the clients do and
\* wherever the process dies.
THEOREM TypeCorrect == Spec => []TypeOK
<1>1. Typed => TypeOK
  BY DEF Typed
<1> QED BY <1>1, SpecTyped, PTL


-----------------------------------------------------------------------------
(* The transactions. *)

TablesKept == UNCHANGED <<mailboxes, mailboxSides, nameplates, nameplateSides, messages>>

MailboxOpened ==
    \E a \in App, m \in Mailbox, s \in Side :
        OpenTransaction(a, m, s) /\ UNCHANGED <<nameplates, nameplateSides, messages>>

NameplateCreated ==
    \E a \in App, n \in Name, s \in Side, m \in Mailbox :
        CreateNameplate(a, n, s, m) /\ UNCHANGED <<mailboxSides, messages>>

NameplateJoined ==
    \E a \in App, n \in Name, s \in Side, m \in Mailbox :
        /\ JoinNameplate(a, n, s, m)
        /\ UNCHANGED <<mailboxes, mailboxSides, nameplates, messages>>

ClaimReleased ==
    \E a \in App, n \in Name, s \in Side :
        /\ nameplateSides' = ClaimsAfterRelease(a, n, s)
        /\ UNCHANGED <<mailboxes, mailboxSides, nameplates, messages>>

SideClosed ==
    \E m \in Mailbox, s \in Side :
        /\ mailboxSides' = SidesAfterClose(m, s)
        /\ UNCHANGED <<mailboxes, nameplates, nameplateSides, messages>>

MessageAdded ==
    /\ \E x \in Message : messages' = messages \union {x}
    /\ UNCHANGED <<mailboxes, mailboxSides, nameplates, nameplateSides>>

\* The mailbox goes, the nameplates on it, and the claims of the closing side.
MailboxClosed ==
    /\ task.op = "delete"
    /\ task.conn \in Conn
    /\ task.box \in Box
    /\ conn[task.conn].side \in Side
    /\ DeleteMailbox

Transaction ==
    \/ TablesKept
    \/ MailboxOpened
    \/ NameplateCreated
    \/ NameplateJoined
    \/ ClaimReleased
    \/ RetireNameplate
    \/ SideClosed
    \/ MessageAdded
    \/ MailboxClosed
    \/ DeleteFails
    \/ PruneDelete

LEMMA CommandTransactions ==
    ASSUME Typed, NEW c \in Conn, Command(c)
    PROVE  Transaction
<1>1. CASE \E a \in App, s \in Side : Bind(c, a, s)
  BY <1>1 DEF Bind, Transaction, TablesKept, channelDB
<1>2. CASE Allocate(c)
  <2>1. conn[c].app.app \in App /\ conn[c].side \in Side
    BY <1>2, BoundType DEF Allocate, Handling, Typed, TypeOK
  <2> QED BY <1>2, <2>1 DEF Allocate, Transaction, NameplateCreated
<1>3. CASE AllocateFails(c) \/ Lost(c) \/ \E m \in Mailbox : OpenFails(c, m)
  BY <1>3 DEF AllocateFails, Lost, OpenFails, Transaction, TablesKept, channelDB
<1>4. ASSUME NEW n \in Name, Claim(c, n) PROVE Transaction
  <2>1. conn[c].app.app \in App /\ conn[c].side \in Side
    BY <1>4, BoundType DEF Claim, Handling, Typed, TypeOK
  <2> QED BY <1>4, <2>1 DEF Claim, JoinNameplate, Transaction, NameplateCreated, NameplateJoined
<1>5. ASSUME NEW n \in Name, ClaimRefused(c, n) PROVE Transaction
  BY <1>5 DEF ClaimRefused, Transaction, TablesKept, channelDB
<1>6. ASSUME NEW n \in Name, Release(c, n) PROVE Transaction
  <2>1. conn[c].app.app \in App /\ conn[c].side \in Side
    BY <1>6, BoundType DEF Release, Handling, Typed, TypeOK
  <2> QED BY <1>6, <2>1 DEF Release, Transaction, ClaimReleased
<1>7. ASSUME NEW m \in Mailbox,
             Open(c, m) \/ OpenCrowded(c, m) \/ CloseUnheld(c, m) \/ CloseCrowded(c, m)
      PROVE  Transaction
  <2>1. conn[c].app.app \in App /\ conn[c].side \in Side
    BY <1>7, BoundType
       DEF Open, OpenCrowded, CloseUnheld, CloseCrowded, MayClose, Handling, Typed, TypeOK
  <2>2. OpenTransaction(conn[c].app.app, m, conn[c].side)
    BY <1>7 DEF Open, OpenCrowded, CloseUnheld, CloseCrowded
  <2>3. UNCHANGED <<nameplates, nameplateSides, messages>>
    BY <1>7 DEF Open, OpenCrowded, CloseUnheld, CloseCrowded
  <2> QED BY <2>1, <2>2, <2>3 DEF Transaction, MailboxOpened
<1>8. ASSUME NEW m \in Mailbox, CloseHeld(c, m) PROVE Transaction
  BY <1>8 DEF CloseHeld, Transaction, TablesKept, channelDB
<1>9. ASSUME NEW x \in Msg, Add(c, x) PROVE Transaction
  <2>1. conn[c].mailbox \in Box
    BY <1>9 DEF Add, Typed, TypeOK, ConnTypeOK, ConnState
  <2>2. [app |-> conn[c].mailbox.ns.app, mailbox |-> conn[c].mailbox.id, id |-> x] \in Message
    BY <2>1 DEF Box, Namespace, Message
  <2> QED BY <1>9, <2>2 DEF Add, Transaction, MessageAdded
<1> QED BY <1>1, <1>2, <1>3, <1>4, <1>5, <1>6, <1>7, <1>8, <1>9 DEF Command

LEMMA Transactions ==
    ASSUME Typed, [Next]_vars
    PROVE  Transaction
<1>1. ASSUME NEW c \in Conn, Command(c) PROVE Transaction
  BY <1>1, CommandTransactions
<1>2. CASE OpenClaimed
  <2>1. task.conn \in Conn /\ task.mailbox \in Mailbox
    BY <1>2 DEF OpenClaimed, Typed, TypeOK, Task, Idle
  <2>2. conn[task.conn].app.app \in App /\ conn[task.conn].side \in Side
    BY <1>2, <2>1, BoundType DEF OpenClaimed, Typed, TypeOK, HandlerBound
  <2>3. OpenTransaction(conn[task.conn].app.app, task.mailbox, conn[task.conn].side)
        /\ UNCHANGED <<nameplates, nameplateSides, messages>>
    BY <1>2 DEF OpenClaimed
  <2> QED BY <2>1, <2>2, <2>3 DEF Transaction, MailboxOpened
<1>3. CASE CloseSide
  <2>1. task.conn \in Conn /\ task.box \in Box
    BY <1>3 DEF CloseSide, Typed, TypeOK, Task, Idle
  <2>2. conn[task.conn].side \in Side /\ task.box.id \in Mailbox
    BY <1>3, <2>1, BoundType DEF CloseSide, Typed, TypeOK, HandlerBound, Box
  <2>3. \/ mailboxSides' = mailboxSides
        \/ mailboxSides' = SidesAfterClose(task.box.id, conn[task.conn].side)
    BY <1>3 DEF CloseSide
  <2>4. UNCHANGED <<mailboxes, nameplates, nameplateSides, messages>>
    BY <1>3 DEF CloseSide
  <2> QED BY <2>2, <2>3, <2>4 DEF Transaction, TablesKept, SideClosed
<1>4. CASE DeleteMailbox
  <2>1. task.op = "delete"
    BY <1>4 DEF DeleteMailbox
  <2>2. task.conn \in Conn /\ task.box \in Box
    BY <2>1 DEF Typed, TypeOK, Task, Idle
  <2>3. conn[task.conn].side \in Side
    BY <2>1, <2>2, BoundType DEF Typed, TypeOK, HandlerBound
  <2> QED BY <1>4, <2>1, <2>2, <2>3 DEF Transaction, MailboxClosed
<1>5. CASE PruneTouch
  BY <1>5 DEF PruneTouch, Transaction, TablesKept
<1>6. CASE StartPrune \/ Tick \/ Restart \/ UNCHANGED vars
  BY <1>6 DEF StartPrune, Tick, Restart, vars, channelDB, Transaction, TablesKept
<1>7. CASE RetireNameplate \/ DeleteFails \/ PruneDelete
  BY <1>7 DEF Transaction
<1> QED BY <1>1, <1>2, <1>3, <1>4, <1>5, <1>6, <1>7 DEF Next, Continue

-----------------------------------------------------------------------------
(* References and uniqueness of rows. *)

Rows == ChannelTypeOK /\ ForeignKeys /\ UniqueRows

LEMMA OpenedRows ==
    ASSUME Rows, MailboxOpened
    PROVE  ForeignKeys' /\ UniqueRows'
<1> PICK a \in App, m \in Mailbox, s \in Side :
        OpenTransaction(a, m, s) /\ UNCHANGED <<nameplates, nameplateSides, messages>>
  BY DEF MailboxOpened
<1>1. /\ mailboxes[m] = None \/ mailboxes[m] = a
      /\ mailboxes' = [mailboxes EXCEPT ![m] = a]
      /\ a # None
  BY NoneAssumption DEF OpenTransaction, IdTaken
<1>2. \A r \in mailboxSides' : r \in mailboxSides \/ r = [mailbox |-> m, side |-> s, opened |-> TRUE]
  BY DEF OpenTransaction, SidesAfterOpen
<1>3. \A n \in nameplates : mailboxes'[n.mailbox] = n.app
  <2> SUFFICES ASSUME NEW n \in nameplates PROVE mailboxes'[n.mailbox] = n.app
    OBVIOUS
  <2>1. n.mailbox \in Mailbox /\ n.app \in App /\ n.app # None /\ mailboxes[n.mailbox] = n.app
    BY NoneAssumption DEF Rows, ChannelTypeOK, ForeignKeys, Nameplate
  <2> QED BY <1>1, <2>1 DEF Rows, ChannelTypeOK
<1>4. \A r \in mailboxSides' : mailboxes'[r.mailbox] # None
  <2> SUFFICES ASSUME NEW r \in mailboxSides' PROVE mailboxes'[r.mailbox] # None
    OBVIOUS
  <2>1. CASE r \in mailboxSides
    <3>1. r.mailbox \in Mailbox /\ mailboxes[r.mailbox] # None
      BY <2>1 DEF Rows, ChannelTypeOK, ForeignKeys, MailboxSide
    <3> QED BY <1>1, <3>1 DEF Rows, ChannelTypeOK
  <2>2. CASE r.mailbox = m
    BY <1>1, <2>2 DEF Rows, ChannelTypeOK
  <2> QED BY <1>2, <2>1, <2>2
<1>5. \A r1, r2 \in mailboxSides' : r1.mailbox = r2.mailbox /\ r1.side = r2.side => r1 = r2
  <2>1. CASE mailboxSides' = mailboxSides
    BY <2>1 DEF Rows, UniqueRows
  <2>2. CASE \A r \in mailboxSides : r.mailbox = m => r.side # s
    <3> DEFINE row == [mailbox |-> m, side |-> s, opened |-> TRUE]
    <3>1. row.mailbox = m /\ row.side = s
      OBVIOUS
    <3>2. \A r \in mailboxSides' : r \in mailboxSides \/ r = row
      BY <1>2
    <3> HIDE DEF row
    <3> QED BY <2>2, <3>1, <3>2 DEF Rows, UniqueRows
  <2> QED BY <2>1, <2>2 DEF OpenTransaction, SidesAfterOpen, SidesOf
<1> QED BY <1>3, <1>4, <1>5 DEF Rows, ForeignKeys, UniqueRows, NameplateRows

LEMMA CreatedRows ==
    ASSUME Rows, NameplateCreated
    PROVE  ForeignKeys' /\ UniqueRows'
<1> PICK a \in App, n \in Name, s \in Side, m \in Mailbox :
        CreateNameplate(a, n, s, m) /\ UNCHANGED <<mailboxSides, messages>>
  BY DEF NameplateCreated
<1> DEFINE plate == [app |-> a, name |-> n, mailbox |-> m]
           claim == [app |-> a, name |-> n, side |-> s, claimed |-> TRUE]
<1>1. /\ mailboxes[m] = None
      /\ mailboxes' = [mailboxes EXCEPT ![m] = a]
      /\ nameplates' = nameplates \union {plate}
      /\ nameplateSides' = nameplateSides \union {claim}
      /\ a # None
  BY NoneAssumption DEF CreateNameplate, FreshMailbox
<1>2. \A p \in nameplates : /\ p.app \in App /\ p.mailbox \in Mailbox
                            /\ mailboxes[p.mailbox] = p.app /\ p.app # None
                            /\ p.mailbox # m
                            /\ ~(p.app = a /\ p.name = n)
  BY <1>1, NoneAssumption DEF Rows, ChannelTypeOK, ForeignKeys, Nameplate, CreateNameplate, NameplateRows
<1>3. \A r \in nameplateSides : ~(r.app = a /\ r.name = n)
  BY <1>2 DEF Rows, ForeignKeys, NameplateRows
<1>4. \A p \in nameplates' : mailboxes'[p.mailbox] = p.app
  BY <1>1, <1>2 DEF Rows, ChannelTypeOK
<1>5. \A r \in mailboxSides' : mailboxes'[r.mailbox] # None
  BY <1>1 DEF Rows, ChannelTypeOK, ForeignKeys, MailboxSide
<1>6. \A r \in nameplateSides' : NameplateRows(r.app, r.name)' # {}
  <2>1. plate \in NameplateRows(a, n)'
    BY <1>1 DEF NameplateRows
  <2>2. \A r \in nameplateSides : NameplateRows(r.app, r.name)' # {}
    BY <1>1 DEF Rows, ForeignKeys, NameplateRows
  <2> QED BY <1>1, <2>1, <2>2
<1>7. \A n1, n2 \in nameplates' :
          (n1.app = n2.app /\ n1.name = n2.name) \/ n1.mailbox = n2.mailbox => n1 = n2
  BY <1>1, <1>2 DEF Rows, UniqueRows
<1>8. \A r1, r2 \in nameplateSides' :
          r1.app = r2.app /\ r1.name = r2.name /\ r1.side = r2.side => r1 = r2
  <2>1. claim.app = a /\ claim.name = n /\ claim.side = s
    OBVIOUS
  <2>2. \A r \in nameplateSides' : r \in nameplateSides \/ r = claim
    BY <1>1
  <2> HIDE DEF claim
  <2> QED BY <1>3, <2>1, <2>2 DEF Rows, UniqueRows
<1> QED BY <1>4, <1>5, <1>6, <1>7, <1>8 DEF Rows, ForeignKeys, UniqueRows

LEMMA JoinedRows ==
    ASSUME Rows, NameplateJoined
    PROVE  ForeignKeys' /\ UniqueRows'
<1> PICK a \in App, n \in Name, s \in Side, m \in Mailbox :
        /\ JoinNameplate(a, n, s, m)
        /\ UNCHANGED <<mailboxes, mailboxSides, nameplates, messages>>
  BY DEF NameplateJoined
<1> DEFINE claim == [app |-> a, name |-> n, side |-> s, claimed |-> TRUE]
<1>1. nameplateSides' = nameplateSides \union {claim}
  BY DEF JoinNameplate
<1>2. [app |-> a, name |-> n, mailbox |-> m] \in NameplateRows(a, n)
  BY DEF JoinNameplate, NameplateRows
<1>3. \A r \in nameplateSides' : NameplateRows(r.app, r.name)' # {}
  BY <1>1, <1>2 DEF Rows, ForeignKeys, NameplateRows
<1>4. \A r \in nameplateSides : r.app = a /\ r.name = n /\ r.side = s => r = claim
  <2> SUFFICES ASSUME NEW r \in nameplateSides, r.app = a, r.name = n, r.side = s
               PROVE  r = claim
    OBVIOUS
  <2>1. r \in NameplateSide
    BY DEF Rows, ChannelTypeOK
  <2>2. r.claimed
    BY DEF JoinNameplate, ClaimRowOf, ClaimRows
  <2>3. r.claimed = TRUE
    BY <2>1, <2>2 DEF NameplateSide
  <2>4. r = [app |-> r.app, name |-> r.name, side |-> r.side, claimed |-> r.claimed]
    BY <2>1 DEF NameplateSide
  <2> QED BY <2>3, <2>4
<1>5. \A r1, r2 \in nameplateSides' :
          r1.app = r2.app /\ r1.name = r2.name /\ r1.side = r2.side => r1 = r2
  <2>1. claim.app = a /\ claim.name = n /\ claim.side = s
    OBVIOUS
  <2>2. \A r \in nameplateSides' : r \in nameplateSides \/ r = claim
    BY <1>1
  <2> HIDE DEF claim
  <2> QED BY <1>4, <2>1, <2>2 DEF Rows, UniqueRows
<1> QED BY <1>3, <1>5 DEF Rows, ForeignKeys, UniqueRows

LEMMA ReleasedRows ==
    ASSUME Rows, ClaimReleased
    PROVE  ForeignKeys' /\ UniqueRows'
<1> PICK a \in App, n \in Name, s \in Side :
        /\ nameplateSides' = ClaimsAfterRelease(a, n, s)
        /\ UNCHANGED <<mailboxes, mailboxSides, nameplates, messages>>
  BY DEF ClaimReleased
<1> DEFINE new(r) == IF r.app = a /\ r.name = n /\ r.side = s THEN [r EXCEPT !.claimed = FALSE]
                                                              ELSE r
<1>1. nameplateSides' = {new(r) : r \in nameplateSides}
  BY DEF ClaimsAfterRelease
<1>2. \A r \in nameplateSides : new(r).app = r.app /\ new(r).name = r.name /\ new(r).side = r.side
  BY DEF Rows, ChannelTypeOK, NameplateSide
<1> HIDE DEF new
<1>3. \A r \in nameplateSides' : NameplateRows(r.app, r.name)' # {}
  BY <1>1, <1>2 DEF Rows, ForeignKeys, NameplateRows
<1>4. \A r1, r2 \in nameplateSides' :
          r1.app = r2.app /\ r1.name = r2.name /\ r1.side = r2.side => r1 = r2
  BY <1>1, <1>2 DEF Rows, UniqueRows
<1> QED BY <1>3, <1>4 DEF Rows, ForeignKeys, UniqueRows

LEMMA SideClosedRows ==
    ASSUME Rows, SideClosed
    PROVE  ForeignKeys' /\ UniqueRows'
<1> PICK m \in Mailbox, s \in Side :
        /\ mailboxSides' = SidesAfterClose(m, s)
        /\ UNCHANGED <<mailboxes, nameplates, nameplateSides, messages>>
  BY DEF SideClosed
<1> DEFINE new(r) == IF r.mailbox = m /\ r.side = s THEN [r EXCEPT !.opened = FALSE] ELSE r
<1>1. mailboxSides' = {new(r) : r \in mailboxSides}
  BY DEF SidesAfterClose
<1>2. \A r \in mailboxSides : new(r).mailbox = r.mailbox /\ new(r).side = r.side
  BY DEF Rows, ChannelTypeOK, MailboxSide
<1> HIDE DEF new
<1>3. \A r \in mailboxSides' : mailboxes'[r.mailbox] # None
  BY <1>1, <1>2 DEF Rows, ForeignKeys
<1>4. \A r1, r2 \in mailboxSides' : r1.mailbox = r2.mailbox /\ r1.side = r2.side => r1 = r2
  BY <1>1, <1>2 DEF Rows, UniqueRows
<1> QED BY <1>3, <1>4 DEF Rows, ForeignKeys, UniqueRows, NameplateRows

\* Fewer rows are as unique as before.
LEMMA FewerRows ==
    ASSUME UniqueRows, nameplates' \subseteq nameplates, mailboxSides' \subseteq mailboxSides,
           nameplateSides' \subseteq nameplateSides
    PROVE  UniqueRows'
BY DEF UniqueRows

LEMMA RetiredRows ==
    ASSUME Rows, RetireNameplate
    PROVE  ForeignKeys' /\ UniqueRows'
<1> DEFINE gone == NameplateRows(conn[task.conn].app.app, task.name)
<1>1. /\ nameplates' = nameplates \ gone
      /\ nameplateSides' = ClaimsWithoutNameplates(gone)
      /\ UNCHANGED <<mailboxes, mailboxSides>>
  BY DEF RetireNameplate
<1> HIDE DEF gone
<1>2. \A r \in nameplateSides' : NameplateRows(r.app, r.name)' # {}
  BY <1>1 DEF Rows, ForeignKeys, NameplateRows, ClaimsWithoutNameplates
<1> QED BY <1>1, <1>2, FewerRows DEF Rows, ForeignKeys, ClaimsWithoutNameplates

LEMMA MailboxClosedRows ==
    ASSUME Rows, MailboxClosed
    PROVE  ForeignKeys' /\ UniqueRows'
<1> DEFINE m == task.box.id
           s == conn[task.conn].side
<1>1. /\ ~NameplateInTheWay(task.box, s)
      /\ nameplateSides' = ClaimsWithout(s)
      /\ nameplates' = nameplates \ NameplatesOf(m)
      /\ mailboxes' = [k \in Mailbox |-> IF k = m THEN None ELSE mailboxes[k]]
      /\ mailboxSides' = {r \in mailboxSides : r.mailbox # m}
  BY DEF MailboxClosed, DeleteMailbox, DeleteMailboxes
<1>2. \A n \in nameplates' : mailboxes'[n.mailbox] = n.app
  BY <1>1 DEF Rows, ChannelTypeOK, ForeignKeys, Nameplate, NameplatesOf
<1>3. \A r \in mailboxSides' : mailboxes'[r.mailbox] # None
  BY <1>1 DEF Rows, ChannelTypeOK, ForeignKeys, MailboxSide
<1>4. \A r \in nameplateSides' : NameplateRows(r.app, r.name)' # {}
  <2> SUFFICES ASSUME NEW r \in nameplateSides' PROVE NameplateRows(r.app, r.name)' # {}
    OBVIOUS
  <2>1. r \in ClaimsWithout(s) /\ r \in nameplateSides
    BY <1>1 DEF ClaimsWithout
  <2>2. PICK n \in nameplates : n.app = r.app /\ n.name = r.name
    BY <2>1 DEF Rows, ForeignKeys, NameplateRows
  <2>3. n \notin NameplatesOf(m)
    BY <1>1, <2>1, <2>2 DEF NameplateInTheWay
  <2> QED BY <1>1, <2>2, <2>3 DEF NameplateRows
<1>5. UniqueRows'
  BY <1>1, FewerRows DEF Rows, ClaimsWithout
<1> QED BY <1>2, <1>3, <1>4, <1>5 DEF ForeignKeys

LEMMA DeleteFailsRows ==
    ASSUME Rows, DeleteFails
    PROVE  ForeignKeys' /\ UniqueRows'
<1>1. /\ nameplateSides' \subseteq nameplateSides
      /\ UNCHANGED <<mailboxes, mailboxSides, nameplates>>
  BY DEF DeleteFails, ClaimsWithout
<1> QED BY <1>1, FewerRows DEF Rows, ForeignKeys, NameplateRows

LEMMA PrunedRows ==
    ASSUME Rows, PruneDelete
    PROVE  ForeignKeys' /\ UniqueRows'
<1> DEFINE a == task.ns.app
<1>1. /\ nameplates' = nameplates \ OldNameplates(a)
      /\ nameplateSides' = ClaimsWithoutNameplates(OldNameplates(a))
      /\ mailboxes' = [k \in Mailbox |-> IF k \in OldMailboxes(a) THEN None ELSE mailboxes[k]]
      /\ mailboxSides' = {r \in mailboxSides : r.mailbox \notin OldMailboxes(a)}
  BY DEF PruneDelete, DeleteMailboxes
<1>2. \A n \in nameplates' : mailboxes'[n.mailbox] = n.app
  <2> SUFFICES ASSUME NEW n \in nameplates' PROVE mailboxes'[n.mailbox] = n.app
    OBVIOUS
  <2>1. n.mailbox \in Mailbox /\ mailboxes[n.mailbox] = n.app /\ n \in nameplates
    BY <1>1 DEF Rows, ChannelTypeOK, ForeignKeys, Nameplate
  <2>2. n.mailbox \notin OldMailboxes(a)
    BY <1>1, <2>1 DEF OldNameplates, OldMailboxes
  <2> QED BY <1>1, <2>1, <2>2
<1>3. \A r \in mailboxSides' : mailboxes'[r.mailbox] # None
  BY <1>1 DEF Rows, ChannelTypeOK, ForeignKeys, MailboxSide
<1>4. \A r \in nameplateSides' : NameplateRows(r.app, r.name)' # {}
  <2> HIDE DEF a
  <2> QED BY <1>1 DEF Rows, ForeignKeys, NameplateRows, ClaimsWithoutNameplates
<1>5. UniqueRows'
  BY <1>1, FewerRows DEF Rows, ClaimsWithoutNameplates
<1> QED BY <1>2, <1>3, <1>4, <1>5 DEF ForeignKeys

LEMMA TransactionRows ==
    ASSUME Rows, Transaction
    PROVE  ForeignKeys' /\ UniqueRows'
<1>1. CASE TablesKept \/ MessageAdded
  BY <1>1 DEF TablesKept, MessageAdded, Rows, ForeignKeys, UniqueRows, NameplateRows
<1> QED BY <1>1, OpenedRows, CreatedRows, JoinedRows, ReleasedRows, SideClosedRows, RetiredRows,
           MailboxClosedRows, DeleteFailsRows, PrunedRows DEF Transaction

Structured == Typed /\ ForeignKeys /\ UniqueRows

LEMMA NextStructured == Structured /\ [Next]_vars => Structured'
<1> SUFFICES ASSUME Structured, [Next]_vars PROVE Structured'
  OBVIOUS
<1>1. Rows
  BY DEF Structured, Typed, TypeOK, Rows
<1>2. Transaction
  BY Transactions DEF Structured
<1> QED BY <1>1, <1>2, NextTyped, TransactionRows DEF Structured

LEMMA SpecStructured == Spec => []Structured
<1>1. Init => ForeignKeys /\ UniqueRows
  BY DEF Init, ChannelInit, ForeignKeys, UniqueRows
<1>2. Init => Typed
  BY InitTypeOK DEF Init, Typed, HandlerBound, Idle
<1> QED BY <1>1, <1>2, NextStructured, PTL DEF Spec, Structured

\* Whatever the clients do and wherever the process dies, no committed state
\* has a dangling reference.
THEOREM ReferencesHold == Spec => []ForeignKeys
<1>1. Structured => ForeignKeys
  BY DEF Structured
<1> QED BY <1>1, SpecStructured, PTL

\* SELECT-then-INSERT keeps the rows unique that the schema does not: the
\* server is one thread, and commits the two together.
THEOREM RowsAreUnique == Spec => []UniqueRows
<1>1. Structured => UniqueRows
  BY DEF Structured
<1> QED BY <1>1, SpecStructured, PTL

-----------------------------------------------------------------------------
(* What a step never does: the action properties of MailboxServer.  A      *)
(* handler that commits twice relies, in its second transaction, on what   *)
(* it saw in its first.  HandlerReady, which is inductive, says what that  *)
(* is.                                                                     *)

\* Server._apps is a dictionary.
OneNamespace == \A n1, n2 \in apps : n1.app = n2.app => n1 = n2

\* Mailbox.close deletes a mailbox of its application that all sides have closed.
DeleteReady ==
    task.op = "delete" =>
        /\ mailboxes[task.box.id] = task.box.ns.app
        /\ \A r \in SidesOf(task.box.id) : ~r.opened

\* release_nameplate deletes a nameplate nobody claims.
RetireReady ==
    task.op = "retire" =>
        \A r \in ClaimRows(conn[task.conn].app.app, task.name) : ~r.claimed

\* prune deletes from the tables of a registered namespace, after it has
\* touched the mailboxes that have listeners.
ExpireReady ==
    task.op = "expire" =>
        /\ task.ns \in apps
        /\ \A m \in ListenedIn(task.ns) : idle[m] = 0

HandlerReady == OneNamespace /\ DeleteReady /\ RetireReady /\ ExpireReady

\* Where a second transaction that relies on a first one comes from.
LEMMA TaskOrigin ==
    ASSUME Typed, [Next]_vars
    PROVE  \/ task'.op \notin {"delete", "retire", "expire"}
           \/ CloseSide /\ task'.op = "delete"
           \/ (\E c \in Conn, n \in Name : Release(c, n)) /\ task'.op = "retire"
           \/ PruneTouch /\ task'.op = "expire"
           \/ UNCHANGED vars
<1> DEFINE Ordinary == task'.op \notin {"delete", "retire", "expire"}
<1>0. task' = Idle => Ordinary
  BY DEF Idle
<1>1. ASSUME NEW c \in Conn, Command(c), \A n \in Name : ~Release(c, n) PROVE Ordinary
  <2>1. CASE \E a \in App, s \in Side : Bind(c, a, s)
    BY <2>1 DEF Bind, Idle
  <2>2. CASE Allocate(c)
    BY <2>2 DEF Allocate
  <2>3. CASE AllocateFails(c) \/ Lost(c) \/ \E m \in Mailbox : OpenFails(c, m)
    BY <2>3, <1>0 DEF AllocateFails, Lost, OpenFails, Disconnect
  <2>4. CASE \E n \in Name : Claim(c, n)
    BY <2>4 DEF Claim
  <2>5. CASE \E n \in Name : ClaimRefused(c, n)
    BY <2>5 DEF ClaimRefused, Handling, Idle
  <2>6. CASE \E m \in Mailbox : Open(c, m) \/ OpenCrowded(c, m) \/ CloseCrowded(c, m)
    BY <2>6 DEF Open, OpenCrowded, CloseCrowded, MayClose, Handling, Idle
  <2>7. CASE \E m \in Mailbox : CloseHeld(c, m)
    BY <2>7 DEF CloseHeld
  <2>8. CASE \E m \in Mailbox : CloseUnheld(c, m)
    BY <2>8 DEF CloseUnheld
  <2>9. CASE \E x \in Msg : Add(c, x)
    BY <2>9 DEF Add, Handling, Idle
  <2> QED BY <1>1, <2>1, <2>2, <2>3, <2>4, <2>5, <2>6, <2>7, <2>8, <2>9 DEF Command
<1>2. ASSUME NEW c \in Conn, NEW n \in Name, Release(c, n)
      PROVE  Ordinary \/ task'.op = "retire"
  BY <1>2 DEF Release, Idle
<1>3. CASE OpenClaimed \/ RetireNameplate \/ DeleteMailbox \/ DeleteFails \/ Restart
  BY <1>3, <1>0 DEF OpenClaimed, RetireNameplate, DeleteMailbox, DeleteFails, Disconnect, Restart
<1>4. CASE CloseSide
  <2>1. task = [op |-> "close", conn |-> task.conn, box |-> task.box]
    BY <1>4 DEF CloseSide, Typed, TypeOK, Task, Idle
  <2>2. task' = Idle \/ task' = [task EXCEPT !.op = "delete"]
    BY <1>4 DEF CloseSide
  <2> QED BY <1>0, <1>4, <2>1, <2>2
<1>5. CASE PruneTouch
  <2>1. PICK ns, a : task' = [op |-> "expire", ns |-> ns, todo |-> task.todo \ {a}]
    BY <1>5 DEF PruneTouch
  <2> QED BY <1>5, <2>1
<1>6. CASE PruneDelete
  <2>1. task' = Idle \/ task' = [op |-> "prune", todo |-> task.todo]
    BY <1>6 DEF PruneDelete
  <2> QED BY <1>0, <2>1
<1>7. CASE StartPrune
  BY <1>7 DEF StartPrune
<1>8. CASE Tick
  BY <1>8 DEF Tick, Idle
<1> QED BY <1>1, <1>2, <1>3, <1>4, <1>5, <1>6, <1>7, <1>8 DEF Next, Continue

\* get_app adds a namespace only for an application that has none.
LEMMA GetAppKeepsOne ==
    ASSUME OneNamespace, NEW a, NEW held, NEW ns \in GetApp(a, held), apps' = apps \union {ns}
    PROVE  OneNamespace'
<1>1. ns.app = a
  <2>1. ASSUME NEW used
        PROVE  \A n \in {[app |-> a, gen |-> g] : g \in LeastUnused(used)} : n.app = a
    OBVIOUS
  <2> QED BY <2>1 DEF GetApp
<1>2. CASE \E n \in apps : n.app = a
  <2>1. ns \in apps
    BY <1>2 DEF GetApp
  <2> QED BY <2>1 DEF OneNamespace
<1>3. CASE ~ \E n \in apps : n.app = a
  BY <1>1, <1>3 DEF OneNamespace
<1> QED BY <1>2, <1>3

LEMMA NextOneNamespace ==
    ASSUME Typed, OneNamespace, [Next]_vars
    PROVE  OneNamespace'
<1>1. CASE apps' \subseteq apps
  BY <1>1 DEF OneNamespace
<1>2. ASSUME NEW c \in Conn, Command(c) PROVE OneNamespace'
  <2>1. ASSUME NEW a \in App, NEW s \in Side, Bind(c, a, s) PROVE OneNamespace'
    BY <2>1, GetAppKeepsOne DEF Bind
  <2>2. CASE Allocate(c) \/ AllocateFails(c) \/ Lost(c)
    BY <1>1, <2>2 DEF Allocate, AllocateFails, Lost, Disconnect, registry
  <2>3. CASE \E n \in Name : Claim(c, n) \/ ClaimRefused(c, n) \/ Release(c, n)
    BY <1>1, <2>3 DEF Claim, ClaimRefused, Release, registry
  <2>4. CASE \E m \in Mailbox : Open(c, m) \/ OpenCrowded(c, m) \/ OpenFails(c, m)
    BY <1>1, <2>4 DEF Open, OpenCrowded, OpenFails, Disconnect
  <2>5. CASE \E m \in Mailbox : CloseHeld(c, m) \/ CloseUnheld(c, m) \/ CloseCrowded(c, m)
    BY <1>1, <2>5 DEF CloseHeld, CloseUnheld, CloseCrowded
  <2>6. CASE \E x \in Msg : Add(c, x)
    BY <1>1, <2>6 DEF Add, registry
  <2> QED BY <1>2, <2>1, <2>2, <2>3, <2>4, <2>5, <2>6 DEF Command
<1>3. CASE PruneTouch
  BY <1>3, GetAppKeepsOne DEF PruneTouch
<1>4. CASE Continue /\ ~PruneTouch
  BY <1>1, <1>4 DEF Continue, OpenClaimed, RetireNameplate, CloseSide, DeleteMailbox, DeleteFails,
         PruneDelete, Disconnect, registry
<1>5. CASE StartPrune \/ Tick \/ Restart \/ UNCHANGED vars
  BY <1>1, <1>5 DEF StartPrune, Tick, Restart, vars, registry
<1> QED BY <1>2, <1>3, <1>4, <1>5 DEF Next

LEMMA NextHandlerReady ==
    ASSUME Typed, HandlerReady, [Next]_vars
    PROVE  HandlerReady'
<1>1. OneNamespace'
  BY NextOneNamespace DEF HandlerReady
<1>2. CASE task'.op \notin {"delete", "retire", "expire"}
  BY <1>1, <1>2 DEF HandlerReady, DeleteReady, RetireReady, ExpireReady
<1>3. CASE UNCHANGED vars
  BY <1>1, <1>3 DEF HandlerReady, DeleteReady, RetireReady, ExpireReady, SidesOf, ClaimRows,
         ListenedIn, ListeningTo, vars, channelDB, registry
<1>4. CASE CloseSide /\ task'.op = "delete"
  <2> DEFINE c == task.conn
             b == task.box
             after == SidesAfterClose(b.id, conn[c].side)
  <2>1. task = [op |-> "close", conn |-> c, box |-> b]
    BY <1>4 DEF CloseSide, Typed, TypeOK, Task, Idle
  <2>2. ~NothingToClose(b, conn[c].side) /\ ~StillOpen(b.id, after)
    BY <1>4 DEF CloseSide, Idle
  <2>3. /\ mailboxSides' = after
        /\ task' = [task EXCEPT !.op = "delete"]
        /\ mailboxes' = mailboxes
    BY <1>4, <2>2 DEF CloseSide
  <2>4. task'.box = b
    BY <2>1, <2>3
  <2>5. mailboxes'[b.id] = b.ns.app
    BY <2>2, <2>3 DEF NothingToClose
  <2>6. \A r \in SidesOf(b.id)' : ~r.opened
    BY <2>2, <2>3 DEF SidesOf, StillOpen
  <2>7. DeleteReady'
    BY <2>4, <2>5, <2>6 DEF DeleteReady, SidesOf
  <2> QED BY <1>1, <1>4, <2>7 DEF HandlerReady, RetireReady, ExpireReady
<1>5. ASSUME NEW c \in Conn, NEW n \in Name, Release(c, n), task'.op = "retire"
      PROVE  HandlerReady'
  <2> DEFINE a == conn[c].app.app
             after == ClaimsAfterRelease(a, n, conn[c].side)
  <2>1. /\ nameplateSides' = after
        /\ task' = [op |-> "retire", conn |-> c, name |-> n]
        /\ ~StillClaimed(a, n, after)
    BY <1>5 DEF Release, Idle
  <2>2. conn'[c].app = conn[c].app
    BY <1>5 DEF Release, Typed, TypeOK, ConnTypeOK, ConnState
  <2>3. RetireReady'
    BY <2>1, <2>2 DEF RetireReady, ClaimRows, StillClaimed
  <2> QED BY <1>1, <1>5, <2>3 DEF HandlerReady, DeleteReady, ExpireReady
<1>6. CASE PruneTouch /\ task'.op = "expire"
  <2>1. PICK a, ns :
              /\ ns \in GetApp(a, HeldNamespaces)
              /\ apps' = apps \union {ns}
              /\ Touch(ListenedIn(ns))
              /\ task' = [op |-> "expire", ns |-> ns, todo |-> task.todo \ {a}]
    BY <1>6 DEF PruneTouch
  <2>2. UNCHANGED <<spawned, listeners>>
    BY <1>6 DEF PruneTouch
  <2>3. ListenedIn(ns)' = ListenedIn(ns) /\ ListenedIn(ns) \subseteq Mailbox
    BY <2>2 DEF ListenedIn, ListeningTo, Typed, TypeOK, RegistryTypeOK, Box
  <2>4. \A m \in ListenedIn(ns) : idle'[m] = 0
    BY <2>1, <2>3 DEF Touch
  <2>5. ExpireReady'
    BY <2>1, <2>3, <2>4 DEF ExpireReady
  <2> QED BY <1>1, <1>6, <2>5 DEF HandlerReady, DeleteReady, RetireReady
<1> QED BY <1>2, <1>3, <1>4, <1>5, <1>6, TaskOrigin

LEMMA SpecHandlerReady == Spec => [](Structured /\ HandlerReady)
<1>1. Init => HandlerReady
  BY DEF Init, RegistryInit, HandlerReady, OneNamespace, DeleteReady, RetireReady, ExpireReady, Idle
<1>2. Structured /\ HandlerReady /\ [Next]_vars => HandlerReady'
  BY NextHandlerReady DEF Structured
<1> QED BY <1>1, <1>2, SpecStructured, PTL DEF Spec

-----------------------------------------------------------------------------
(* The action properties. *)

\* A step that deletes mailboxes deletes the ones that are done.
LEMMA DeletedMailboxes ==
    ASSUME Structured, HandlerReady, [Next]_vars
    PROVE  \/ mailboxes' = mailboxes /\ messages \subseteq messages'
           \/ MailboxOpened /\ messages' = messages
           \/ NameplateCreated /\ messages' = messages
           \/ /\ MailboxClosed
              /\ mailboxes[task.box.id] # None
              /\ \A r \in SidesOf(task.box.id) : ~r.opened
           \/ PruneDelete
<1>1. CASE MailboxOpened \/ NameplateCreated
  BY <1>1 DEF MailboxOpened, NameplateCreated
<1>2. CASE MailboxClosed
  <2>1. task.box.ns.app \in App
    BY <1>2 DEF MailboxClosed, Box, Namespace
  <2>2. mailboxes[task.box.id] # None /\ \A r \in SidesOf(task.box.id) : ~r.opened
    BY <1>2, <2>1, NoneAssumption DEF MailboxClosed, HandlerReady, DeleteReady
  <2> QED BY <1>2, <2>2
<1>3. CASE NameplateJoined \/ ClaimReleased \/ SideClosed
  BY <1>3 DEF NameplateJoined, ClaimReleased, SideClosed
<1>4. CASE TablesKept \/ RetireNameplate \/ MessageAdded \/ DeleteFails
  BY <1>4 DEF TablesKept, RetireNameplate, MessageAdded, DeleteFails
<1>5. Transaction
  BY Transactions DEF Structured
<1> QED BY <1>1, <1>2, <1>3, <1>4, <1>5 DEF Transaction

LEMMA MessagesStayStep ==
    Structured /\ HandlerReady /\ [Next]_vars =>
        [\A x \in messages :
            \/ x \in messages'
            \/ mailboxes[x.mailbox] # None /\ mailboxes'[x.mailbox] = None]_vars
<1> SUFFICES ASSUME Structured, HandlerReady, [Next]_vars, NEW x \in messages, x \notin messages'
             PROVE  mailboxes[x.mailbox] # None /\ mailboxes'[x.mailbox] = None
  OBVIOUS
<1>1. x.mailbox \in Mailbox
  BY DEF Structured, Typed, TypeOK, ChannelTypeOK, Message
<1>2. CASE MailboxClosed /\ mailboxes[task.box.id] # None
  BY <1>1, <1>2 DEF MailboxClosed, DeleteMailbox, DeleteMailboxes
<1>3. CASE PruneDelete
  <2>1. x.mailbox \in OldMailboxes(task.ns.app)
    BY <1>3 DEF PruneDelete, DeleteMailboxes
  <2>2. task.ns.app \in App
    BY <1>3 DEF PruneDelete, Structured, Typed, TypeOK, Task, Idle, Namespace
  <2>3. mailboxes[x.mailbox] # None
    BY <2>1, <2>2, NoneAssumption DEF OldMailboxes
  <2> QED BY <1>1, <1>3, <2>1, <2>3 DEF PruneDelete, DeleteMailboxes
<1> QED BY <1>2, <1>3, DeletedMailboxes

\* A stored message is not lost before its mailbox.
THEOREM MessagesAreKept == Spec => MessagesStay
BY SpecHandlerReady, MessagesStayStep, PTL DEF Spec, MessagesStay

LEMMA MailboxGoesStep ==
    Structured /\ HandlerReady /\ [Next]_vars =>
        [\A m \in Mailbox : mailboxes[m] # None /\ mailboxes'[m] = None =>
            \/ \A r \in SidesOf(m) : ~r.opened
            \/ (idle[m] = Expire /\ ~Protected(m))]_vars
<1> SUFFICES ASSUME Structured, HandlerReady, [Next]_vars,
                    NEW m \in Mailbox, mailboxes[m] # None, mailboxes'[m] = None
             PROVE  \/ \A r \in SidesOf(m) : ~r.opened
                    \/ (idle[m] = Expire /\ ~Protected(m))
  OBVIOUS
<1>1. CASE MailboxOpened \/ NameplateCreated
  <2>1. PICK a \in App, k \in Mailbox : mailboxes' = [mailboxes EXCEPT ![k] = a]
    BY <1>1 DEF MailboxOpened, NameplateCreated, OpenTransaction, CreateNameplate
  <2> QED BY <2>1, NoneAssumption DEF Structured, Typed, TypeOK, ChannelTypeOK
<1>2. CASE MailboxClosed /\ \A r \in SidesOf(task.box.id) : ~r.opened
  BY <1>2 DEF MailboxClosed, DeleteMailbox, DeleteMailboxes
<1>3. CASE PruneDelete
  <2>1. m \in OldMailboxes(task.ns.app)
    BY <1>3 DEF PruneDelete, DeleteMailboxes
  <2>2. mailboxes[m] = task.ns.app /\ idle[m] = Expire /\ idle[m] # 0
    BY <2>1, ExpireAssumption DEF OldMailboxes
  <2>3. ASSUME Protected(m) PROVE FALSE
    <3>1. PICK l \in listeners :
                /\ l.box \in spawned
                /\ l.box.ns \in apps
                /\ l.box.id = m
                /\ l.box.ns.app = mailboxes[m]
      BY <2>3 DEF Protected
    <3>2. task.ns \in apps /\ \A k \in ListenedIn(task.ns) : idle[k] = 0
      BY <1>3 DEF PruneDelete, HandlerReady, ExpireReady
    <3>3. l.box.ns = task.ns
      BY <2>2, <3>1, <3>2 DEF HandlerReady, OneNamespace
    <3>4. ListeningTo(l.box) # {}
      BY DEF ListeningTo
    <3>5. m \in ListenedIn(task.ns)
      BY <3>1, <3>3, <3>4 DEF ListenedIn
    <3> QED BY <2>2, <3>2, <3>5
  <2> QED BY <2>2, <2>3
<1> QED BY <1>1, <1>2, <1>3, DeletedMailboxes

\* A mailbox is deleted when all its sides have closed it, or when it is old
\* and nobody listens to it through a namespace the server knows.
THEOREM MailboxesGoWhenDone == Spec => MailboxGoesWhenDone
BY SpecHandlerReady, MailboxGoesStep, PTL DEF Spec, MailboxGoesWhenDone

LEMMA ClosedStaysStep ==
    Structured /\ [Next]_vars =>
        [\A r \in mailboxSides : ~r.opened =>
            r \in mailboxSides' \/ mailboxes'[r.mailbox] = None]_vars
<1> SUFFICES ASSUME Structured, [Next]_vars, NEW r \in mailboxSides, ~r.opened
             PROVE  r \in mailboxSides' \/ mailboxes'[r.mailbox] = None
  OBVIOUS
<1>1. r \in MailboxSide /\ r.mailbox \in Mailbox
  BY DEF Structured, Typed, TypeOK, ChannelTypeOK, MailboxSide
<1>2. CASE MailboxOpened
  BY <1>2 DEF MailboxOpened, OpenTransaction, SidesAfterOpen
<1>3. CASE SideClosed
  <2>1. PICK m, s : mailboxSides' = SidesAfterClose(m, s)
    BY <1>3 DEF SideClosed
  <2>2. r.opened = FALSE
    BY <1>1 DEF MailboxSide
  <2>3. r = [mailbox |-> r.mailbox, side |-> r.side, opened |-> r.opened]
    BY <1>1 DEF MailboxSide
  <2>4. [r EXCEPT !.opened = FALSE] = r
    BY <2>2, <2>3
  <2> QED BY <2>1, <2>4 DEF SidesAfterClose
<1>4. CASE MailboxClosed \/ PruneDelete
  BY <1>1, <1>4 DEF MailboxClosed, DeleteMailbox, PruneDelete, DeleteMailboxes
<1>5. CASE TablesKept \/ NameplateCreated \/ NameplateJoined \/ ClaimReleased \/ RetireNameplate
           \/ MessageAdded \/ DeleteFails
  BY <1>5 DEF TablesKept, NameplateCreated, NameplateJoined, ClaimReleased, RetireNameplate,
              MessageAdded, DeleteFails
<1>6. Transaction
  BY Transactions DEF Structured
<1> QED BY <1>2, <1>3, <1>4, <1>5, <1>6 DEF Transaction

\* A side that has closed a mailbox has closed it for good.
THEOREM ClosedIsFinal == Spec => ClosedStaysClosed
BY SpecStructured, ClosedStaysStep, PTL DEF Spec, ClosedStaysClosed

LEMMA NameplateGoesStep ==
    Structured /\ HandlerReady /\ [Next]_vars =>
        [\A n \in nameplates :
            \/ n \in nameplates'
            \/ \A r \in ClaimRows(n.app, n.name) : ~r.claimed
            \/ mailboxes'[n.mailbox] = None]_vars
<1> SUFFICES ASSUME Structured, HandlerReady, [Next]_vars, NEW n \in nameplates, n \notin nameplates'
             PROVE  \/ \A r \in ClaimRows(n.app, n.name) : ~r.claimed
                    \/ mailboxes'[n.mailbox] = None
  OBVIOUS
<1>1. n.mailbox \in Mailbox
  BY DEF Structured, Typed, TypeOK, ChannelTypeOK, Nameplate
<1>2. CASE RetireNameplate
  <2>1. n.app = conn[task.conn].app.app /\ n.name = task.name
    BY <1>2 DEF RetireNameplate, NameplateRows
  <2>2. \A r \in ClaimRows(conn[task.conn].app.app, task.name) : ~r.claimed
    BY <1>2 DEF RetireNameplate, HandlerReady, RetireReady
  <2> QED BY <2>1, <2>2
<1>3. CASE MailboxClosed
  <2>1. n.mailbox = task.box.id
    BY <1>3 DEF MailboxClosed, DeleteMailbox, NameplatesOf
  <2> QED BY <1>1, <1>3, <2>1 DEF MailboxClosed, DeleteMailbox, DeleteMailboxes
<1>4. CASE PruneDelete
  <2>1. n.mailbox \in OldMailboxes(task.ns.app)
    BY <1>4 DEF PruneDelete, OldNameplates
  <2> QED BY <1>1, <1>4, <2>1 DEF PruneDelete, DeleteMailboxes
<1>5. ~(TablesKept \/ MailboxOpened \/ NameplateCreated \/ NameplateJoined \/ ClaimReleased
            \/ SideClosed \/ MessageAdded \/ DeleteFails)
  BY DEF TablesKept, MailboxOpened, NameplateCreated, CreateNameplate, NameplateJoined,
         ClaimReleased, SideClosed, MessageAdded, DeleteFails
<1>6. Transaction
  BY Transactions DEF Structured
<1> QED BY <1>2, <1>3, <1>4, <1>5, <1>6 DEF Transaction

\* A nameplate goes when nobody claims it any more, or with its mailbox.
THEOREM NameplatesGoWhenFree == Spec => NameplateGoesWhenFree
BY SpecHandlerReady, NameplateGoesStep, PTL DEF Spec, NameplateGoesWhenFree

LEMMA ClaimsLastStep ==
    Structured /\ [Next]_vars =>
        [\A r \in nameplateSides :
            \/ \E q \in nameplateSides' : q.app = r.app /\ q.name = r.name /\ q.side = r.side
                                              /\ (q.claimed => r.claimed)
            \/ \A n \in nameplates' : n.app # r.app \/ n.name # r.name
            \/ task.op = "delete" /\ conn[task.conn].side = r.side]_vars
<1> SUFFICES ASSUME Structured, [Next]_vars, NEW r \in nameplateSides,
                    ~(task.op = "delete" /\ conn[task.conn].side = r.side),
                    r \notin nameplateSides'
             PROVE  \/ \E q \in nameplateSides' : q.app = r.app /\ q.name = r.name /\ q.side = r.side
                                                      /\ (q.claimed => r.claimed)
                    \/ \A n \in nameplates' : n.app # r.app \/ n.name # r.name
  OBVIOUS
<1>1. CASE ClaimReleased
  <2>1. PICK a, k, s : nameplateSides' = ClaimsAfterRelease(a, k, s)
    BY <1>1 DEF ClaimReleased
  <2> DEFINE q == [r EXCEPT !.claimed = FALSE]
  <2>2. q \in nameplateSides'
    BY <2>1 DEF ClaimsAfterRelease
  <2>3. r \in NameplateSide
    BY DEF Structured, Typed, TypeOK, ChannelTypeOK
  <2>4. q.app = r.app /\ q.name = r.name /\ q.side = r.side /\ q.claimed = FALSE
    BY <2>3 DEF NameplateSide
  <2> QED BY <2>2, <2>4
<1>2. CASE RetireNameplate \/ PruneDelete
  <2>1. PICK gone \in SUBSET nameplates :
              nameplates' = nameplates \ gone /\ nameplateSides' = ClaimsWithoutNameplates(gone)
    BY <1>2 DEF RetireNameplate, NameplateRows, PruneDelete, OldNameplates
  <2>2. PICK n \in gone : n.app = r.app /\ n.name = r.name
    BY <2>1 DEF ClaimsWithoutNameplates
  <2>3. \A k \in nameplates : k.app = r.app /\ k.name = r.name => k = n
    BY <2>2 DEF Structured, UniqueRows
  <2> QED BY <2>1, <2>2, <2>3
<1>3. ~(MailboxClosed \/ DeleteFails)
  BY DEF MailboxClosed, DeleteMailbox, DeleteFails, ClaimsWithout
<1>4. ~(TablesKept \/ MailboxOpened \/ NameplateCreated \/ NameplateJoined \/ SideClosed
            \/ MessageAdded)
  BY DEF TablesKept, MailboxOpened, NameplateCreated, CreateNameplate, NameplateJoined,
         JoinNameplate, SideClosed, MessageAdded
<1>5. Transaction
  BY Transactions DEF Structured
<1> QED BY <1>1, <1>2, <1>3, <1>4, <1>5 DEF Transaction

\* A claim, and the mark that it was released, last as long as the nameplate,
\* except for what closing a mailbox takes from the closing side.
THEOREM ClaimsAreKept == Spec => ClaimsLast
BY SpecStructured, ClaimsLastStep, PTL DEF Spec, ClaimsLast
=============================================================================
