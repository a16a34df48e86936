----------------------------- MODULE UsageProofs -----------------------------
(***************************************************************************)
(* The books of the usage database balance, for any clients, any number of *)
(* mailboxes and of deaths.  The invariant allows for what is still to go  *)
(* wrong: a mailbox without sides, which a death between the two commits   *)
(* of claim left behind, will be pruned without a row.                     *)
(***************************************************************************)
EXTENDS UsageServer, MailboxTableProofs

\* claim_nameplate is about to give this mailbox its first side.
BeingClaimed(m) == task.op \in {"claim", "allocate"} /\ task.mailbox = m

WillBeMissed(m) == mailboxes[m] # None /\ Sideless(m) /\ ~BeingClaimed(m)

Off(m) == dueMailboxes[m] - OwedMailbox(m)

Balanced(m) ==
    /\ -deaths <= Off(m)
    /\ Off(m) + Count(WillBeMissed(m)) <= deaths

\* Where a handler with a usage row to write can be.
Stage ==
    /\ pending # NoRows => task.op \in {"idle", "prune"}
    /\ booked => task.op \in {"retire", "delete"}
    /\ task.op = "delete" => mailboxes[task.box.id] # None
    /\ \A m \in pending.mailboxes : mailboxes[m] = None

SavedTypeOK ==
    /\ saved.mailboxes \in [Mailbox -> App \union {None}]
    /\ saved.mailboxSides \subseteq MailboxSide
    /\ saved.nameplates \subseteq Nameplate
    /\ saved.nameplateSides \subseteq NameplateSide
    /\ saved.messages \subseteq Message

BooksTypeOK ==
    /\ dueMailboxes \in [Mailbox -> Int]
    /\ deaths \in Nat
    /\ booked \in BOOLEAN

UsageTyped == Typed /\ SavedTypeOK /\ BooksTypeOK /\ Stage

UInv == UsageTyped /\ \A m \in Mailbox : Balanced(m)

-----------------------------------------------------------------------------
(* What the transactions do to one mailbox. *)

LEMMA CountType == \A b : Count(b) \in {0, 1}
BY DEF Count

LEMMA OpenEffect ==
    ASSUME Typed, NEW a \in App, NEW k \in Mailbox, NEW s \in Side, OpenTransaction(a, k, s),
           NEW m \in Mailbox
    PROVE  /\ mailboxes[m] # None => mailboxes'[m] # None
           /\ m # k => mailboxes'[m] = mailboxes[m]
           /\ Sideless(m)' => m # k /\ Sideless(m)
<1>1. a # None
  BY NoneAssumption
<1>2. mailboxes' = [mailboxes EXCEPT ![k] = a] /\ mailboxSides' = SidesAfterOpen(k, s)
  BY DEF OpenTransaction
<1>3. mailboxSides \subseteq mailboxSides'
  BY <1>2 DEF SidesAfterOpen
<1>4. \E r \in mailboxSides' : r.mailbox = k
  <2>1. CASE \E r \in SidesOf(k) : r.side = s
    BY <1>3, <2>1 DEF SidesOf
  <2>2. CASE ~ \E r \in SidesOf(k) : r.side = s
    <3> DEFINE row == [mailbox |-> k, side |-> s, opened |-> TRUE]
    <3>1. row.mailbox = k
      OBVIOUS
    <3>2. row \in mailboxSides'
      BY <1>2, <2>2 DEF SidesAfterOpen
    <3> HIDE DEF row
    <3> QED BY <3>1, <3>2
  <2> QED BY <2>1, <2>2
<1>5. Sideless(m)' => m # k /\ Sideless(m)
  BY <1>3, <1>4 DEF Sideless, SidesOf
<1>6. mailboxes'[m] = IF m = k THEN a ELSE mailboxes[m]
  BY <1>2 DEF Typed, TypeOK, ChannelTypeOK
<1> QED BY <1>1, <1>5, <1>6

LEMMA CloseEffect ==
    ASSUME NEW k, NEW s, mailboxSides' = SidesAfterClose(k, s), NEW m, Sideless(m)'
    PROVE  Sideless(m)
<1> SUFFICES ASSUME NEW r \in mailboxSides, r.mailbox = m PROVE FALSE
  BY DEF Sideless, SidesOf
<1> DEFINE q == IF r.mailbox = k /\ r.side = s THEN [r EXCEPT !.opened = FALSE] ELSE r
<1>1. q \in mailboxSides'
  BY DEF SidesAfterClose
<1>2. [r EXCEPT !.opened = FALSE].mailbox = r.mailbox
  OBVIOUS
<1>3. q.mailbox = m
  BY <1>2
<1> QED BY <1>1, <1>3 DEF Sideless, SidesOf

LEMMA DeleteEffect ==
    ASSUME Typed, NEW gone, DeleteMailboxes(gone), NEW m \in Mailbox
    PROVE  /\ m \in gone => mailboxes'[m] = None
           /\ m \notin gone => mailboxes'[m] = mailboxes[m] /\ (Sideless(m)' <=> Sideless(m))
BY DEF DeleteMailboxes, Typed, TypeOK, ChannelTypeOK, Sideless, SidesOf

\* A transaction that retires nothing deletes no mailbox and leaves none
\* without sides, but for one that is being claimed.
LEMMA CommitEffect ==
    ASSUME Typed, CommitStep, NEW m \in Mailbox
    PROVE  /\ mailboxes[m] # None => mailboxes'[m] # None
           /\ WillBeMissed(m)' => WillBeMissed(m)
<1> DEFINE Goal == /\ mailboxes[m] # None => mailboxes'[m] # None
                   /\ WillBeMissed(m)' => WillBeMissed(m)
<1>1. ASSUME UNCHANGED <<mailboxes, mailboxSides>>, task.op \notin {"claim", "allocate"}
      PROVE  Goal
  BY <1>1 DEF WillBeMissed, Sideless, SidesOf, BeingClaimed
<1>2. ASSUME NEW c \in Conn, Command(c) PROVE Goal
  <2>0. task.op = "idle"
    <3>1. task = Idle
      BY <1>2 DEF Command, Bind, Allocate, AllocateFails, Claim, ClaimRefused, Release, Open,
                  OpenCrowded, OpenFails, CloseHeld, CloseUnheld, CloseCrowded, MayClose, Add, Lost,
                  Handling
    <3> QED BY <3>1 DEF Idle
  <2>1. CASE UNCHANGED <<mailboxes, mailboxSides>>
    BY <1>1, <2>0, <2>1
  <2>2. ASSUME NEW n \in Name, NEW k \in Mailbox,
               CreateNameplate(conn[c].app.app, n, conn[c].side, k), Bound(c),
               task'.op \in {"claim", "allocate"}, task'.mailbox = k, mailboxSides' = mailboxSides
        PROVE  Goal
    <3>1. conn[c].app.app # None
      BY <2>2, BoundType, NoneAssumption DEF Typed, TypeOK
    <3>2. mailboxes' = [mailboxes EXCEPT ![k] = conn[c].app.app]
      BY <2>2 DEF CreateNameplate
    <3>3. mailboxes[m] # None => mailboxes'[m] # None
      BY <3>1, <3>2 DEF Typed, TypeOK, ChannelTypeOK
    <3>4. WillBeMissed(m)' => m # k
      BY <2>2 DEF WillBeMissed, BeingClaimed
    <3>5. m # k => mailboxes'[m] = mailboxes[m]
      BY <3>2 DEF Typed, TypeOK, ChannelTypeOK
    <3> QED BY <2>0, <2>2, <3>3, <3>4, <3>5 DEF WillBeMissed, Sideless, SidesOf, BeingClaimed
  <2>3. ASSUME NEW k \in Mailbox, OpenTransaction(conn[c].app.app, k, conn[c].side), Bound(c)
        PROVE  Goal
    <3>1. conn[c].app.app \in App /\ conn[c].side \in Side
      BY <2>3, BoundType DEF Typed, TypeOK
    <3>2. /\ mailboxes[m] # None => mailboxes'[m] # None
          /\ m # k => mailboxes'[m] = mailboxes[m]
          /\ Sideless(m)' => m # k /\ Sideless(m)
      BY <2>3, <3>1, OpenEffect
    <3> QED BY <2>0, <3>2 DEF WillBeMissed, BeingClaimed
  <2>4. CASE Allocate(c)
    BY <2>2, <2>4 DEF Allocate, Handling
  <2>5. ASSUME NEW n \in Name, Claim(c, n) PROVE Goal
    <3>1. PICK k \in Mailbox :
            /\ \/ CreateNameplate(conn[c].app.app, n, conn[c].side, k)
               \/ JoinNameplate(conn[c].app.app, n, conn[c].side, k)
            /\ task' = [op |-> "claim", conn |-> c, mailbox |-> k]
      BY <2>5 DEF Claim
    <3>2. CASE CreateNameplate(conn[c].app.app, n, conn[c].side, k)
      BY <2>2, <2>5, <3>1, <3>2 DEF Claim, Handling
    <3>3. CASE JoinNameplate(conn[c].app.app, n, conn[c].side, k)
      BY <2>1, <2>5, <3>3 DEF Claim, JoinNameplate
    <3> QED BY <3>1, <3>2, <3>3
  <2>6. ASSUME NEW k \in Mailbox,
               Open(c, k) \/ OpenCrowded(c, k) \/ CloseUnheld(c, k) \/ CloseCrowded(c, k)
        PROVE  Goal
    BY <2>3, <2>6 DEF Open, OpenCrowded, CloseUnheld, CloseCrowded, MayClose, Handling
  <2>7. CASE \/ \E a \in App, s \in Side : Bind(c, a, s)
             \/ AllocateFails(c)
             \/ \E n \in Name : ClaimRefused(c, n) \/ Release(c, n)
             \/ \E k \in Mailbox : OpenFails(c, k) \/ CloseHeld(c, k)
             \/ \E x \in Msg : Add(c, x)
             \/ Lost(c)
    BY <2>1, <2>7 DEF Bind, AllocateFails, ClaimRefused, Release, OpenFails, CloseHeld, Add, Lost,
                      channelDB
  <2> QED BY <1>2, <2>4, <2>5, <2>6, <2>7 DEF Command
<1>3. CASE OpenClaimed
  <2>1. task.conn \in Conn /\ task.mailbox \in Mailbox
    BY <1>3 DEF OpenClaimed, Typed, TypeOK, Task, Idle
  <2>2. conn[task.conn].app.app \in App /\ conn[task.conn].side \in Side
    BY <1>3, <2>1, BoundType DEF OpenClaimed, Typed, TypeOK, HandlerBound
  <2>3. OpenTransaction(conn[task.conn].app.app, task.mailbox, conn[task.conn].side)
    BY <1>3 DEF OpenClaimed
  <2>4. /\ mailboxes[m] # None => mailboxes'[m] # None
        /\ m # task.mailbox => mailboxes'[m] = mailboxes[m]
        /\ Sideless(m)' => m # task.mailbox /\ Sideless(m)
    BY <2>1, <2>2, <2>3, OpenEffect
  <2> QED BY <2>4 DEF WillBeMissed, BeingClaimed
<1>4. CASE CloseSide
  <2>1. \/ mailboxSides' = mailboxSides
        \/ mailboxSides' = SidesAfterClose(task.box.id, conn[task.conn].side)
    BY <1>4 DEF CloseSide
  <2>2. Sideless(m)' => Sideless(m)
    BY <2>1, CloseEffect DEF Sideless, SidesOf
  <2>3. mailboxes' = mailboxes /\ task.op = "close"
    BY <1>4 DEF CloseSide
  <2> QED BY <2>2, <2>3 DEF WillBeMissed, BeingClaimed
<1>5. CASE DeleteFails \/ PruneTouch
  BY <1>1, <1>5 DEF DeleteFails, PruneTouch
<1> QED BY <1>2, <1>3, <1>4, <1>5 DEF CommitStep
-----------------------------------------------------------------------------
(* Types. *)

LEMMA UsageInitInv == UsageInit => UInv
<1> SUFFICES ASSUME UsageInit PROVE UInv
  OBVIOUS
<1>1. Typed
  BY InitTypeOK DEF UsageInit, Init, Typed, HandlerBound, Idle
<1>2. SavedTypeOK
  BY <1>1 DEF UsageInit, tables, SavedTypeOK, Typed, TypeOK, ChannelTypeOK
<1>3. BooksTypeOK /\ Stage
  <2>1. booked = FALSE /\ task.op = "idle" /\ pending = NoRows
    BY DEF UsageInit, Init, Idle
  <2>2. booked \in BOOLEAN
    BY <2>1
  <2>3. dueMailboxes \in [Mailbox -> Int] /\ deaths \in Nat
    BY DEF UsageInit
  <2> QED BY <2>1, <2>2, <2>3 DEF BooksTypeOK, Stage, NoRows
<1>4. ASSUME NEW m \in Mailbox PROVE Balanced(m)
  BY DEF UsageInit, Init, ChannelInit, Balanced, Off, OwedMailbox, WillBeMissed, Count, NoRows
<1> QED BY <1>1, <1>2, <1>3, <1>4 DEF UInv, UsageTyped

\* The steps of the server underneath.
LEMMA ServerStep ==
    ASSUME [UsageNext]_<<vars, usageVars>>
    PROVE  [Next]_vars \/ PruneFails \/ Die
BY DEF UsageNext, CommitStep, CommitOpen, QuietStep, BookNameplate, RetireBooked, BookMailbox,
       DeleteBooked, PruneBooked, CommitUsage, Next, Continue

LEMMA FailsTyped ==
    ASSUME Typed, PruneFails
    PROVE  Typed'
<1> PICK names \in SUBSET OldNameplates(task.ns.app), gone \in SUBSET OldMailboxes(task.ns.app) :
          /\ nameplates' = nameplates \ names
          /\ nameplateSides' = ClaimsWithoutNameplates(names)
          /\ DeletesSoFar(gone)
  BY DEF PruneFails
<1>1. UNCHANGED <<registry, conn, delivered>> /\ task' = Idle
  BY DEF PruneFails
<1>2. ChannelTypeOK'
  BY DeleteMailboxesType DEF DeletesSoFar, ClaimsWithoutNameplates, Typed, TypeOK, ChannelTypeOK
<1>3. RegistryTypeOK' /\ ConnTypeOK' /\ delivered' \in [Conn -> SUBSET Msg]
  BY <1>1 DEF registry, Typed, TypeOK, RegistryTypeOK, ConnTypeOK, Bound
<1> QED BY <1>1, <1>2, <1>3 DEF Typed, TypeOK, HandlerBound, Task, Idle

LEMMA DieTyped ==
    ASSUME Typed, SavedTypeOK, Die
    PROVE  Typed'
<1>1. idle' \in [Mailbox -> 0..Expire]
  BY ExpireAssumption DEF Die, Typed, TypeOK, ChannelTypeOK
<1>2. ChannelTypeOK'
  BY <1>1 DEF Die, SavedTypeOK, ChannelTypeOK
<1>3. RegistryTypeOK' /\ delivered' \in [Conn -> SUBSET Msg]
  BY DEF Die, RegistryTypeOK
<1>4. ConnTypeOK'
  BY DEF Die, ConnTypeOK, ConnState, Bound, Unbound
<1> QED BY <1>2, <1>3, <1>4 DEF Die, Typed, TypeOK, HandlerBound, Task, Idle

LEMMA AccountType ==
    ASSUME NEW a, NEW b, NEW c, NEW d, dueMailboxes \in [Mailbox -> Int], Account(a, b, c, d)
    PROVE  dueMailboxes' \in [Mailbox -> Int]
BY DEF Account

LEMMA StageStep ==
    ASSUME UsageTyped, [UsageNext]_<<vars, usageVars>>
    PROVE  Stage'
<1>1. CASE CommitStep
  <2>1. pending' = NoRows /\ booked' = FALSE
    BY <1>1 DEF CommitStep, UsageTyped, BooksTypeOK
  <2>2. task'.op = "delete" => mailboxes'[task'.box.id] # None
    <3>1. CASE CloseSide
      <4> SUFFICES ASSUME task'.op = "delete" PROVE mailboxes'[task'.box.id] # None
        OBVIOUS
      <4>1. task = [op |-> "close", conn |-> task.conn, box |-> task.box] /\ task.box \in Box
        BY <3>1 DEF CloseSide, UsageTyped, Typed, TypeOK, Task, Idle
      <4>2. task' = [task EXCEPT !.op = "delete"] /\ mailboxes[task.box.id] = task.box.ns.app
        BY <3>1 DEF CloseSide, NothingToClose, Idle
      <4>3. task'.box = task.box
        BY <4>1, <4>2
      <4>4. task.box.ns.app # None
        BY <4>1, NoneAssumption DEF Box, Namespace
      <4> QED BY <3>1, <4>2, <4>3, <4>4 DEF CloseSide
    <3>2. CASE OpenClaimed \/ DeleteFails \/ PruneTouch
      <4>1. CASE OpenClaimed
        BY <4>1 DEF OpenClaimed, Idle
      <4>2. CASE DeleteFails
        BY <4>2 DEF DeleteFails, Disconnect, Idle
      <4>3. CASE PruneTouch
        <5>1. PICK ns, a : task' = [op |-> "expire", ns |-> ns, todo |-> task.todo \ {a}]
          BY <4>3 DEF PruneTouch
        <5> QED BY <5>1
      <4> QED BY <3>2, <4>1, <4>2, <4>3
    <3>3. ASSUME NEW c \in Conn, Command(c) PROVE task'.op # "delete"
      <4>1. ASSUME \/ \E a \in App, s \in Side : Bind(c, a, s)
                   \/ \E n \in Name : ClaimRefused(c, n)
                   \/ \E k \in Mailbox : Open(c, k) \/ OpenCrowded(c, k) \/ CloseCrowded(c, k)
                   \/ \E x \in Msg : Add(c, x)
            PROVE  task = Idle /\ task' = task
        BY <4>1 DEF Bind, ClaimRefused, Open, OpenCrowded, CloseCrowded, MayClose, Add, Handling
      <4>2. ASSUME AllocateFails(c) \/ Lost(c) \/ \E k \in Mailbox : OpenFails(c, k)
            PROVE  task' = Idle
        BY <4>2 DEF AllocateFails, Lost, OpenFails, Disconnect
      <4>3. ASSUME Allocate(c) \/ \E n \in Name : Claim(c, n)
            PROVE  task'.op \in {"claim", "allocate"}
        BY <4>3 DEF Allocate, Claim
      <4>4. ASSUME \E n \in Name : Release(c, n)
            PROVE  task'.op \in {"retire", "idle"}
        BY <4>4 DEF Release, Idle
      <4>5. ASSUME \E k \in Mailbox : CloseHeld(c, k) \/ CloseUnheld(c, k)
            PROVE  task'.op = "close"
        BY <4>5 DEF CloseHeld, CloseUnheld
      <4> QED BY <3>3, <4>1, <4>2, <4>3, <4>4, <4>5 DEF Command, Idle
    <3> QED BY <1>1, <3>1, <3>2, <3>3 DEF CommitStep
  <2> QED BY <2>1, <2>2 DEF Stage, NoRows
<1>2. CASE QuietStep
  <2>1. UNCHANGED usageVars /\ mailboxes' = mailboxes /\ pending = NoRows
    BY <1>2 DEF QuietStep, StartPrune, Tick, channelDB
  <2>2. task.op = "idle" /\ task'.op \in {"idle", "prune"}
    BY <1>2 DEF QuietStep, StartPrune, Tick, Idle
  <2> QED BY <2>1, <2>2 DEF usageVars, Stage, UsageTyped
<1>3. CASE RetireBooked \/ DeleteBooked
  <2>1. pending = NoRows
    BY <1>3 DEF RetireBooked, DeleteBooked, RetireNameplate, DeleteMailbox, UsageTyped, Stage
  <2> QED BY <1>3, <2>1 DEF RetireBooked, DeleteBooked, RetireNameplate, DeleteMailbox, Stage, Idle, NoRows
<1>4. CASE BookNameplate \/ BookMailbox
  BY <1>4 DEF BookNameplate, BookMailbox, vars, channelDB, UsageTyped, Stage
<1>5. CASE PruneBooked \/ PruneFails
  <2>1. task' = Idle \/ task' = [op |-> "prune", todo |-> task.todo]
    BY <1>5 DEF PruneBooked, PruneFails, PruneDelete
  <2>2. task'.op \in {"idle", "prune"}
    BY <2>1 DEF Idle
  <2>3. task.op = "expire" /\ booked' = booked
    BY <1>5 DEF PruneBooked, PruneFails, PruneDelete
  <2>4. ASSUME NEW m \in pending'.mailboxes PROVE mailboxes'[m] = None
    <3>1. CASE PruneBooked
      BY <2>4, <3>1 DEF PruneBooked, PruneDelete, DeleteMailboxes, OldMailboxes
    <3>2. CASE PruneFails
      <4> PICK gone \in SUBSET OldMailboxes(task.ns.app) :
              DeletesSoFar(gone) /\ pending'.mailboxes = {k \in gone : ~Sideless(k)}
        BY <3>2 DEF PruneFails
      <4>1. m \in gone /\ m \in Mailbox
        BY <2>4 DEF OldMailboxes
      <4> QED BY <4>1 DEF DeletesSoFar, DeleteMailboxes
    <3> QED BY <1>5, <3>1, <3>2
  <2> QED BY <2>2, <2>3, <2>4 DEF UsageTyped, Stage
<1>6. CASE CommitUsage \/ CommitOpen \/ UNCHANGED <<vars, usageVars>>
  BY <1>6 DEF CommitUsage, CommitOpen, vars, channelDB, usageVars, UsageTyped, Stage, NoRows
<1>7. CASE Die
  BY <1>7 DEF Die, Stage, Idle, NoRows
<1> QED BY <1>1, <1>2, <1>3, <1>4, <1>5, <1>6, <1>7 DEF UsageNext

LEMMA UsageTypedStep ==
    ASSUME UsageTyped, [UsageNext]_<<vars, usageVars>>
    PROVE  UsageTyped'
<1>1. Typed'
  BY ServerStep, NextTyped, FailsTyped, DieTyped DEF UsageTyped
<1>2. SavedTypeOK'
  <2>1. saved' = saved \/ saved' = tables' \/ saved' = tables
    BY DEF UsageNext, CommitStep, CommitOpen, QuietStep, BookNameplate, RetireBooked, BookMailbox,
           DeleteBooked, PruneBooked, PruneFails, CommitUsage, Die, usageVars
  <2> QED BY <1>1, <2>1 DEF UsageTyped, SavedTypeOK, tables, Typed, TypeOK, ChannelTypeOK
<1>3. BooksTypeOK'
  <2>1. dueMailboxes' \in [Mailbox -> Int]
    BY AccountType
       DEF UsageNext, CommitStep, CommitOpen, QuietStep, BookNameplate, RetireBooked, BookMailbox, books,
           DeleteBooked, PruneBooked, PruneFails, CommitUsage, Die, usageVars, UsageTyped, BooksTypeOK
  <2>2. deaths' \in Nat
    BY DEF UsageNext, CommitStep, CommitOpen, QuietStep, BookNameplate, RetireBooked, BookMailbox,
           DeleteBooked, PruneBooked, PruneFails, CommitUsage, Die, usageVars, UsageTyped, BooksTypeOK
  <2>3. booked' \in BOOLEAN
    <3>1. booked' = booked \/ booked' = TRUE \/ booked' = FALSE
      BY DEF UsageNext, CommitStep, CommitOpen, QuietStep, BookNameplate, RetireBooked, BookMailbox,
             DeleteBooked, PruneBooked, PruneFails, CommitUsage, Die, usageVars
    <3> QED BY <3>1 DEF UsageTyped, BooksTypeOK
  <2> QED BY <2>1, <2>2, <2>3 DEF BooksTypeOK
<1> QED BY <1>1, <1>2, <1>3, StageStep DEF UsageTyped
-----------------------------------------------------------------------------
(* The books. *)

\* Steps that leave a mailbox and its account alone.
LEMMA UntouchedBalance ==
    ASSUME UsageTyped, NEW m \in Mailbox, Balanced(m),
           dueMailboxes'[m] = dueMailboxes[m], OwedMailbox(m)' = OwedMailbox(m), deaths' = deaths,
           WillBeMissed(m)' => WillBeMissed(m)
    PROVE  Balanced(m)'
<1>1. Count(WillBeMissed(m))' <= Count(WillBeMissed(m)) /\ Count(WillBeMissed(m))' \in {0, 1}
  BY DEF Count
<1>2. OwedMailbox(m) \in Nat /\ dueMailboxes[m] \in Int /\ deaths \in Nat
  BY DEF OwedMailbox, Count, UsageTyped, BooksTypeOK
<1>3. Off(m)' = Off(m)
  BY DEF Off
<1> QED BY <1>1, <1>2, <1>3, CountType DEF Balanced, Off

LEMMA CommitBalance ==
    ASSUME UsageTyped, CommitStep, NEW m \in Mailbox, Balanced(m)
    PROVE  Balanced(m)'
<1>1. /\ mailboxes[m] # None => mailboxes'[m] # None
      /\ WillBeMissed(m)' => WillBeMissed(m)
  BY CommitEffect DEF UsageTyped
<1>2. dueMailboxes'[m] = dueMailboxes[m] + Count(mailboxes[m] = None /\ mailboxes'[m] # None)
  BY DEF CommitStep, Account, NewMailboxes, UsageTyped, BooksTypeOK, Count
<1>3. OwedMailbox(m) = Count(mailboxes[m] # None) /\ OwedMailbox(m)' = Count(mailboxes'[m] # None)
  BY DEF CommitStep, OwedMailbox, NoRows, Count
<1>4. Off(m)' = Off(m)
  BY <1>1, <1>2, <1>3 DEF Off, Count, UsageTyped, BooksTypeOK
<1>5. Count(WillBeMissed(m))' <= Count(WillBeMissed(m)) /\ Count(WillBeMissed(m))' \in {0, 1}
  BY <1>1 DEF Count
<1>6. Off(m) \in Int /\ deaths \in Nat /\ deaths' = deaths
  BY DEF Off, OwedMailbox, Count, CommitStep, UsageTyped, BooksTypeOK
<1> QED BY <1>4, <1>5, <1>6, CountType DEF Balanced

LEMMA BookBalance ==
    ASSUME UsageTyped, BookNameplate \/ BookMailbox, NEW m \in Mailbox, Balanced(m)
    PROVE  Balanced(m)'
<1>1. CASE BookMailbox /\ m = task.box.id
  <2>1. dueMailboxes'[m] = dueMailboxes[m] - 1
    BY <1>1 DEF BookMailbox, Account, Booked, UsageTyped, BooksTypeOK
  <2>2. pending = NoRows /\ mailboxes[m] # None
    BY <1>1 DEF BookMailbox, UsageTyped, Stage
  <2>3. OwedMailbox(m) = 1 /\ OwedMailbox(m)' = 0
    BY <1>1, <2>2 DEF BookMailbox, OwedMailbox, Count, NoRows, vars, channelDB
  <2>4. Off(m)' = Off(m) /\ Off(m) \in Int
    BY <2>1, <2>3 DEF Off, UsageTyped, BooksTypeOK
  <2>5. WillBeMissed(m)' = WillBeMissed(m) /\ deaths' = deaths
    BY <1>1 DEF BookMailbox, WillBeMissed, Sideless, SidesOf, BeingClaimed, vars, channelDB
  <2> QED BY <2>4, <2>5 DEF Balanced, Count
<1>2. CASE ~(BookMailbox /\ m = task.box.id)
  <2>1. dueMailboxes'[m] = dueMailboxes[m]
    BY <1>2 DEF BookMailbox, BookNameplate, Account, Booked, UsageTyped, BooksTypeOK
  <2>2. OwedMailbox(m)' = OwedMailbox(m)
    BY <1>2 DEF BookMailbox, BookNameplate, OwedMailbox, Count, vars, channelDB
  <2>3. WillBeMissed(m)' = WillBeMissed(m) /\ deaths' = deaths
    BY DEF BookMailbox, BookNameplate, WillBeMissed, Sideless, SidesOf, BeingClaimed, vars, channelDB
  <2> QED BY <2>1, <2>2, <2>3, UntouchedBalance
<1> QED BY <1>1, <1>2

LEMMA RetireBalance ==
    ASSUME UsageTyped, RetireBooked \/ DeleteBooked, NEW m \in Mailbox, Balanced(m)
    PROVE  Balanced(m)'
<1>1. dueMailboxes'[m] = dueMailboxes[m] /\ deaths' = deaths /\ pending' = pending
  BY DEF RetireBooked, DeleteBooked, books
<1>2. CASE RetireBooked
  <2>1. OwedMailbox(m)' = OwedMailbox(m)
    BY <1>1, <1>2 DEF RetireBooked, RetireNameplate, OwedMailbox, Count
  <2>2. WillBeMissed(m)' => WillBeMissed(m)
    BY <1>2 DEF RetireBooked, RetireNameplate, WillBeMissed, Sideless, SidesOf, BeingClaimed
  <2> QED BY <1>1, <2>1, <2>2, UntouchedBalance
<1>3. CASE DeleteBooked
  <2>1. /\ m = task.box.id => mailboxes'[m] = None
        /\ m # task.box.id => mailboxes'[m] = mailboxes[m] /\ (Sideless(m)' <=> Sideless(m))
    BY <1>3, DeleteEffect DEF DeleteBooked, DeleteMailbox, UsageTyped
  <2>2. OwedMailbox(m)' = OwedMailbox(m)
    BY <1>1, <1>3, <2>1 DEF DeleteBooked, DeleteMailbox, OwedMailbox, Count
  <2>3. WillBeMissed(m)' => WillBeMissed(m)
    BY <1>3, <2>1 DEF DeleteBooked, DeleteMailbox, WillBeMissed, BeingClaimed
  <2> QED BY <1>1, <2>2, <2>3, UntouchedBalance
<1> QED BY <1>2, <1>3

LEMMA PruneBalance ==
    ASSUME UsageTyped, PruneBooked, NEW m \in Mailbox, Balanced(m)
    PROVE  Balanced(m)'
<1>1. task.op = "expire" /\ pending = NoRows /\ ~booked /\ task.ns.app # None
  <2>1. task.op = "expire"
    BY DEF PruneBooked, PruneDelete
  <2>2. task.ns \in Namespace
    BY <2>1 DEF UsageTyped, Typed, TypeOK, Task, Idle
  <2> QED BY <2>1, <2>2, NoneAssumption DEF UsageTyped, Stage, Namespace
<1>2. dueMailboxes'[m] = dueMailboxes[m] /\ deaths' = deaths /\ booked' = booked
  BY DEF PruneBooked, books
<1> DEFINE gone == OldMailboxes(task.ns.app)
<1>3. /\ m \in gone => mailboxes'[m] = None /\ mailboxes[m] # None
      /\ m \notin gone => mailboxes'[m] = mailboxes[m] /\ (Sideless(m)' <=> Sideless(m))
  <2>1. DeleteMailboxes(gone)
    BY DEF PruneBooked, PruneDelete
  <2>2. m \in gone => mailboxes[m] = task.ns.app
    BY DEF OldMailboxes
  <2> HIDE DEF gone
  <2> QED BY <1>1, <2>1, <2>2, DeleteEffect DEF UsageTyped
<1>4. pending'.mailboxes = gone
  BY DEF PruneBooked
<1> HIDE DEF gone
<1>5. OwedMailbox(m)' = OwedMailbox(m)
  BY <1>1, <1>2, <1>3, <1>4 DEF OwedMailbox, Count, NoRows
<1>6. WillBeMissed(m)' => WillBeMissed(m)
  BY <1>1, <1>3 DEF WillBeMissed, BeingClaimed
<1> QED BY <1>2, <1>5, <1>6, UntouchedBalance

LEMMA FailsBalance ==
    ASSUME UsageTyped, PruneFails, NEW m \in Mailbox, Balanced(m)
    PROVE  Balanced(m)'
<1>1. task.op = "expire" /\ pending = NoRows /\ ~booked /\ task.ns.app # None
  <2>1. task.op = "expire"
    BY DEF PruneFails
  <2>2. task.ns \in Namespace
    BY <2>1 DEF UsageTyped, Typed, TypeOK, Task, Idle
  <2> QED BY <2>1, <2>2, NoneAssumption DEF UsageTyped, Stage, Namespace
<1>2. dueMailboxes'[m] = dueMailboxes[m] /\ deaths' = deaths /\ booked' = booked
  BY DEF PruneFails, books
<1> PICK names \in SUBSET OldNameplates(task.ns.app), gone \in SUBSET OldMailboxes(task.ns.app) :
          /\ DeletesSoFar(gone)
          /\ pending' = [mailboxes |-> {k \in gone : ~Sideless(k)},
                         nameplates |-> Names({n \in names : ~Claimless(n)})]
  BY DEF PruneFails
<1>3. /\ m \in gone => mailboxes'[m] = None /\ mailboxes[m] # None
      /\ m \notin gone => mailboxes'[m] = mailboxes[m] /\ (Sideless(m)' <=> Sideless(m))
  <2>1. m \in gone => mailboxes[m] = task.ns.app
    BY DEF OldMailboxes
  <2> QED BY <1>1, <2>1, DeleteEffect DEF DeletesSoFar, UsageTyped
<1>4. m \in pending'.mailboxes <=> m \in gone /\ ~Sideless(m)
  OBVIOUS
<1>5. CASE m \in gone /\ Sideless(m)
  <2>1. OwedMailbox(m) = 1 /\ OwedMailbox(m)' = 0
    BY <1>1, <1>2, <1>3, <1>4, <1>5 DEF OwedMailbox, Count, NoRows
  <2>2. Count(WillBeMissed(m)) = 1 /\ Count(WillBeMissed(m))' = 0
    BY <1>1, <1>3, <1>5 DEF WillBeMissed, BeingClaimed, Count
  <2>3. Off(m)' = Off(m) + 1 /\ Off(m) \in Int /\ deaths \in Nat
    BY <1>2, <2>1 DEF Off, UsageTyped, BooksTypeOK
  <2> QED BY <1>2, <2>2, <2>3 DEF Balanced
<1>6. CASE ~(m \in gone /\ Sideless(m))
  <2>1. OwedMailbox(m)' = OwedMailbox(m)
    BY <1>1, <1>2, <1>3, <1>4, <1>6 DEF OwedMailbox, Count, NoRows
  <2>2. WillBeMissed(m)' => WillBeMissed(m)
    BY <1>1, <1>3 DEF WillBeMissed, BeingClaimed
  <2> QED BY <1>2, <2>1, <2>2, UntouchedBalance
<1> QED BY <1>5, <1>6

LEMMA CommitUsageBalance ==
    ASSUME UsageTyped, CommitUsage, NEW m \in Mailbox, Balanced(m)
    PROVE  Balanced(m)'
<1>1. dueMailboxes'[m] = dueMailboxes[m] - Count(m \in pending.mailboxes)
  BY DEF CommitUsage, Account, Count, UsageTyped, BooksTypeOK
<1>2. OwedMailbox(m)' = OwedMailbox(m) - Count(m \in pending.mailboxes)
  BY DEF CommitUsage, OwedMailbox, Count, NoRows, vars, channelDB
<1>3. Off(m)' = Off(m)
  <2>1. OwedMailbox(m) \in Nat /\ dueMailboxes[m] \in Int /\ Count(m \in pending.mailboxes) \in Nat
    BY DEF OwedMailbox, Count, UsageTyped, BooksTypeOK
  <2> QED BY <1>1, <1>2, <2>1 DEF Off
<1>4. WillBeMissed(m)' = WillBeMissed(m) /\ deaths' = deaths
  BY DEF CommitUsage, WillBeMissed, Sideless, SidesOf, BeingClaimed, vars, channelDB
<1> QED BY <1>3, <1>4 DEF Balanced, Count

LEMMA DieBalance ==
    ASSUME UsageTyped, Die, NEW m \in Mailbox, Balanced(m)
    PROVE  Balanced(m)'
<1>1. /\ dueMailboxes'[m] = dueMailboxes[m]
      /\ booked' = FALSE
      /\ pending' = NoRows
      /\ task' = Idle
      /\ mailboxes' = saved.mailboxes
      /\ mailboxSides' = saved.mailboxSides
  BY DEF Die, books
<1>2. CASE Midway
  <2>1. deaths' = deaths + 1
    BY <1>2 DEF Die
  <2>2. OwedMailbox(m) \in {0, 1}
    BY DEF OwedMailbox, Count, UsageTyped, Stage
  <2>3. OwedMailbox(m)' = Count(mailboxes'[m] # None)
    BY <1>1 DEF OwedMailbox, Count, NoRows
  <2>4. mailboxes'[m] = None => Count(WillBeMissed(m))' = 0
    BY DEF WillBeMissed, Count
  <2>5. Count(WillBeMissed(m))' \in {0, 1} /\ Count(WillBeMissed(m)) \in {0, 1}
    BY DEF Count
  <2>6. dueMailboxes[m] \in Int /\ deaths \in Nat
    BY DEF UsageTyped, BooksTypeOK
  <2> QED BY <1>1, <2>1, <2>2, <2>3, <2>4, <2>5, <2>6 DEF Balanced, Off, Count
<1>3. CASE ~Midway
  <2>1. deaths' = deaths
    BY <1>3 DEF Die
  <2>2. mailboxes' = mailboxes /\ mailboxSides' = mailboxSides /\ task' = task /\ pending' = pending
    BY <1>1, <1>3 DEF Midway, tables
  <2>3. OwedMailbox(m)' = OwedMailbox(m)
    BY <1>1, <1>3, <2>2 DEF OwedMailbox, Count, Midway, Idle
  <2>4. WillBeMissed(m)' => WillBeMissed(m)
    BY <2>2 DEF WillBeMissed, Sideless, SidesOf, BeingClaimed
  <2> QED BY <1>1, <2>1, <2>3, <2>4, UntouchedBalance
<1> QED BY <1>2, <1>3

LEMMA UsageInvStep == UInv /\ [UsageNext]_<<vars, usageVars>> => UInv'
<1> SUFFICES ASSUME UInv, [UsageNext]_<<vars, usageVars>> PROVE UInv'
  OBVIOUS
<1>1. UsageTyped'
  BY UsageTypedStep DEF UInv
<1>2. ASSUME NEW m \in Mailbox PROVE Balanced(m)'
  <2>1. UsageTyped /\ Balanced(m)
    BY DEF UInv
  <2>2. CASE QuietStep \/ CommitOpen \/ UNCHANGED <<vars, usageVars>>
    <3>1. UNCHANGED <<mailboxes, mailboxSides, dueMailboxes, pending, deaths, booked>>
      BY <2>2 DEF QuietStep, StartPrune, Tick, CommitOpen, vars, channelDB, usageVars, books
    <3>2. \/ task' = task
          \/ task = Idle /\ task'.op = "prune"
      BY <2>2 DEF QuietStep, StartPrune, Tick, CommitOpen, vars
    <3>3. OwedMailbox(m)' = OwedMailbox(m)
      BY <3>1, <3>2 DEF OwedMailbox, Count, Idle
    <3>4. WillBeMissed(m)' => WillBeMissed(m)
      BY <3>1, <3>2 DEF WillBeMissed, Sideless, SidesOf, BeingClaimed, Idle
    <3> QED BY <2>1, <3>1, <3>3, <3>4, UntouchedBalance
  <2> QED
    BY <2>1, <2>2, CommitBalance, BookBalance, RetireBalance, PruneBalance, FailsBalance,
       CommitUsageBalance, DieBalance
       DEF UsageNext
<1> QED BY <1>1, <1>2 DEF UInv

\* Every death between two commits costs a mailbox at most one usage row too
\* many or too few, for any number of clients, mailboxes and deaths, and
\* however many prunes fail half way.
THEOREM BooksBalance == UsageSpec => []MailboxesBooked
<1>1. UInv => MailboxesBooked
  <2> SUFFICES ASSUME UInv, NEW m \in Mailbox
               PROVE  dueMailboxes[m] - OwedMailbox(m) \in (-deaths)..deaths
    BY DEF MailboxesBooked
  <2>1. Balanced(m) /\ OwedMailbox(m) \in Nat /\ dueMailboxes[m] \in Int /\ deaths \in Nat
    BY DEF UInv, OwedMailbox, Count, UsageTyped, BooksTypeOK
  <2> QED BY <2>1 DEF Balanced, Off, Count
<1> QED BY <1>1, UsageInitInv, UsageInvStep, PTL DEF UsageSpec
-----------------------------------------------------------------------------
(* The rows of the tables, in memory and on disk. *)

\* What ForeignKeys and UniqueRows say, of the tables on disk.
SavedRows ==
    /\ \A n \in saved.nameplates : saved.mailboxes[n.mailbox] = n.app
    /\ \A r \in saved.mailboxSides : saved.mailboxes[r.mailbox] # None
    /\ \A r \in saved.nameplateSides :
          \E n \in saved.nameplates : n.app = r.app /\ n.name = r.name
    /\ \A n1, n2 \in saved.nameplates :
          (n1.app = n2.app /\ n1.name = n2.name) \/ n1.mailbox = n2.mailbox => n1 = n2
    /\ \A r1, r2 \in saved.mailboxSides :
          r1.mailbox = r2.mailbox /\ r1.side = r2.side => r1 = r2
    /\ \A r1, r2 \in saved.nameplateSides :
          r1.app = r2.app /\ r1.name = r2.name /\ r1.side = r2.side => r1 = r2

AllRows == ForeignKeys /\ UniqueRows /\ SavedRows

\* A prune that fails has deleted all the nameplates of the mailboxes it deleted.
LEMMA FailsRows ==
    ASSUME Rows, PruneFails
    PROVE  ForeignKeys' /\ UniqueRows'
<1> DEFINE a == task.ns.app
<1>1. PICK names \in SUBSET OldNameplates(a), gone \in SUBSET OldMailboxes(a) :
          /\ gone = {} \/ names = OldNameplates(a)
          /\ nameplates' = nameplates \ names
          /\ nameplateSides' = ClaimsWithoutNameplates(names)
          /\ DeleteMailboxes(gone)
  BY DEF PruneFails, DeletesSoFar
<1>2. /\ mailboxes' = [k \in Mailbox |-> IF k \in gone THEN None ELSE mailboxes[k]]
      /\ mailboxSides' = {r \in mailboxSides : r.mailbox \notin gone}
  BY <1>1 DEF DeleteMailboxes
<1>3. \A n \in nameplates' : mailboxes'[n.mailbox] = n.app
  <2> SUFFICES ASSUME NEW n \in nameplates' PROVE mailboxes'[n.mailbox] = n.app
    OBVIOUS
  <2>1. n.mailbox \in Mailbox /\ mailboxes[n.mailbox] = n.app /\ n \in nameplates /\ n \notin names
    BY <1>1 DEF Rows, ChannelTypeOK, ForeignKeys, Nameplate
  <2>2. n.mailbox \notin gone
    BY <1>1, <2>1 DEF OldNameplates, OldMailboxes
  <2> QED BY <1>2, <2>1, <2>2
<1>4. \A r \in mailboxSides' : mailboxes'[r.mailbox] # None
  BY <1>2 DEF Rows, ChannelTypeOK, ForeignKeys, MailboxSide
<1>5. \A r \in nameplateSides' : NameplateRows(r.app, r.name)' # {}
  <2> HIDE DEF a
  <2> QED BY <1>1 DEF Rows, ForeignKeys, NameplateRows, ClaimsWithoutNameplates
<1>6. UniqueRows'
  <2> HIDE DEF a
  <2> QED BY <1>1, <1>2, FewerRows DEF Rows, ClaimsWithoutNameplates
<1> QED BY <1>3, <1>4, <1>5, <1>6 DEF ForeignKeys

LEMMA DieRows ==
    ASSUME SavedRows, Die
    PROVE  ForeignKeys' /\ UniqueRows'
<1>1. /\ mailboxes' = saved.mailboxes /\ mailboxSides' = saved.mailboxSides
      /\ nameplates' = saved.nameplates /\ nameplateSides' = saved.nameplateSides
  BY DEF Die
<1>2. ForeignKeys'
  BY <1>1 DEF SavedRows, ForeignKeys, NameplateRows
<1>3. UniqueRows'
  BY <1>1 DEF SavedRows, UniqueRows
<1> QED BY <1>2, <1>3

LEMMA AllRowsStep ==
    ASSUME UsageTyped, AllRows, [UsageNext]_<<vars, usageVars>>
    PROVE  AllRows'
<1>1. Rows
  BY DEF AllRows, Rows, UsageTyped, Typed, TypeOK
<1>2. ForeignKeys' /\ UniqueRows'
  <2>1. CASE [Next]_vars
    BY <1>1, <2>1, Transactions, TransactionRows DEF UsageTyped
  <2>2. CASE PruneFails
    BY <1>1, <2>2, FailsRows
  <2>3. CASE Die
    BY <2>3, DieRows DEF AllRows
  <2> QED BY <2>1, <2>2, <2>3, ServerStep
<1>3. SavedRows'
  <2>1. saved' = saved \/ saved' = tables' \/ saved' = tables
    BY DEF UsageNext, CommitStep, CommitOpen, QuietStep, BookNameplate, RetireBooked, BookMailbox,
           DeleteBooked, PruneBooked, PruneFails, CommitUsage, Die, usageVars
  <2>2. CASE saved' = saved
    BY <2>2 DEF AllRows, SavedRows
  <2>3. CASE saved' = tables'
    <3>1. /\ saved'.mailboxes = mailboxes' /\ saved'.mailboxSides = mailboxSides'
          /\ saved'.nameplates = nameplates' /\ saved'.nameplateSides = nameplateSides'
      BY <2>3 DEF tables
    <3> QED BY <1>2, <3>1 DEF SavedRows, ForeignKeys, UniqueRows, NameplateRows
  <2>4. CASE saved' = tables
    <3>1. /\ saved'.mailboxes = mailboxes /\ saved'.mailboxSides = mailboxSides
          /\ saved'.nameplates = nameplates /\ saved'.nameplateSides = nameplateSides
      BY <2>4 DEF tables
    <3> QED BY <3>1 DEF AllRows, SavedRows, ForeignKeys, UniqueRows, NameplateRows
  <2> QED BY <2>1, <2>2, <2>3, <2>4
<1> QED BY <1>2, <1>3 DEF AllRows

LEMMA UsageInitRows == UsageInit => AllRows
<1> SUFFICES ASSUME UsageInit PROVE AllRows
  OBVIOUS
<1>1. nameplates = {} /\ mailboxSides = {} /\ nameplateSides = {}
  BY DEF UsageInit, Init, ChannelInit
<1>2. saved.nameplates = {} /\ saved.mailboxSides = {} /\ saved.nameplateSides = {}
  BY <1>1 DEF UsageInit, tables
<1> QED BY <1>1, <1>2 DEF AllRows, SavedRows, ForeignKeys, UniqueRows

LEMMA SpecUsageRows == UsageSpec => [](UInv /\ AllRows)
<1>1. UInv => UsageTyped
  BY DEF UInv
<1> QED BY <1>1, UsageInitInv, UsageInvStep, UsageInitRows, AllRowsStep, PTL DEF UsageSpec

\* With a usage database too, whose commits come apart from those of the channel
\* database, and with prunes that raise half way and leave a transaction open
\* which some other handler's commit makes permanent: no dangling reference.
THEOREM UsageReferencesHold == UsageSpec => []ForeignKeys
<1>1. AllRows => ForeignKeys
  BY DEF AllRows
<1> QED BY <1>1, SpecUsageRows, PTL

\* And the rows stay unique that the schema does not keep unique.
THEOREM UsageRowsAreUnique == UsageSpec => []UniqueRows
<1>1. AllRows => UniqueRows
  BY DEF AllRows
<1> QED BY <1>1, SpecUsageRows, PTL

-----------------------------------------------------------------------------
(* The nameplates. *)

\* What release_nameplate is retiring has a row until it is done.
RetiredName == <<conn[task.conn].app.app, task.name>>

RetiresARow == task.op = "retire" => RetiredName \in Names(nameplates)

OffName(p) == dueNameplates[p] - OwedNameplate(p)

NamesInv ==
    /\ dueNameplates \in [App \X Name -> Int]
    /\ RetiresARow
    /\ \A p \in App \X Name : OffName(p) >= -deaths

LEMMA NamesMember ==
    ASSUME NEW rows, NEW p
    PROVE  p \in Names(rows) <=> \E n \in rows : p = <<n.app, n.name>>
BY DEF Names

\* A side that releases its claim claims something.
LEMMA ReleaseRetires ==
    ASSUME UsageTyped, AllRows, NEW c \in Conn, NEW n \in Name, Release(c, n)
    PROVE  RetiresARow'
<1> SUFFICES ASSUME task'.op = "retire" PROVE RetiredName' \in Names(nameplates')
  BY DEF RetiresARow
<1> DEFINE a == conn[c].app.app
<1>1. task' = [op |-> "retire", conn |-> c, name |-> n] /\ ClaimRowOf(a, n, conn[c].side) # {}
  <2>1. task' # Idle
    BY DEF Idle
  <2> QED BY <2>1 DEF Release
<1>2. PICK r \in nameplateSides : r.app = a /\ r.name = n
  BY <1>1 DEF ClaimRowOf, ClaimRows
<1>3. PICK q \in nameplates : q.app = a /\ q.name = n
  BY <1>2 DEF AllRows, ForeignKeys, NameplateRows
<1>4. conn'[c].app = conn[c].app /\ nameplates' = nameplates
  BY DEF Release, UsageTyped, Typed, TypeOK, ConnTypeOK, ConnState
<1>5. RetiredName' = <<a, n>>
  BY <1>1, <1>4 DEF RetiredName
<1> QED BY <1>3, <1>4, <1>5, NamesMember

\* No other step begins to retire a nameplate.
LEMMA OtherTasks ==
    ASSUME UsageTyped, [UsageNext]_<<vars, usageVars>>, task'.op = "retire"
    PROVE  \/ UNCHANGED <<task, conn, nameplates>>
           \/ \E c \in Conn, n \in Name : Release(c, n)
<1>1. CASE BookNameplate \/ BookMailbox \/ CommitOpen \/ CommitUsage \/ UNCHANGED <<vars, usageVars>>
  BY <1>1 DEF BookNameplate, BookMailbox, CommitOpen, CommitUsage, vars, channelDB
<1>2. CASE QuietStep
  <2>1. \/ Tick
        \/ task' = [op |-> "prune", todo |-> AppsWithRows]
    BY <1>2 DEF QuietStep, StartPrune
  <2> QED BY <2>1 DEF Tick
<1>3. CASE RetireBooked \/ DeleteBooked \/ PruneFails \/ Die
  <2>1. task' = Idle
    BY <1>3 DEF RetireBooked, RetireNameplate, DeleteBooked, DeleteMailbox, PruneFails, Die
  <2> QED BY <2>1 DEF Idle
<1>4. CASE PruneBooked
  <2>1. task' = Idle \/ task' = [op |-> "prune", todo |-> task.todo]
    BY <1>4 DEF PruneBooked, PruneDelete
  <2> QED BY <2>1 DEF Idle
<1>5. CASE OpenClaimed \/ DeleteFails
  <2>1. task' = Idle
    BY <1>5 DEF OpenClaimed, DeleteFails, Disconnect
  <2> QED BY <2>1 DEF Idle
<1>6. CASE PruneTouch
  <2>1. PICK ns, a : task' = [op |-> "expire", ns |-> ns, todo |-> task.todo \ {a}]
    BY <1>6 DEF PruneTouch
  <2> QED BY <2>1
<1>7. CASE CloseSide
  <2>1. task = [op |-> "close", conn |-> task.conn, box |-> task.box]
    BY <1>7 DEF CloseSide, UsageTyped, Typed, TypeOK, Task, Idle
  <2>2. task' = Idle \/ task' = [task EXCEPT !.op = "delete"]
    BY <1>7 DEF CloseSide
  <2> QED BY <2>1, <2>2 DEF Idle
<1>8. ASSUME NEW c \in Conn, Command(c)
      PROVE  \E n \in Name : Release(c, n)
  <2>1. ASSUME \/ \E a \in App, s \in Side : Bind(c, a, s)
               \/ \E n \in Name : ClaimRefused(c, n)
               \/ \E k \in Mailbox : Open(c, k) \/ OpenCrowded(c, k) \/ CloseCrowded(c, k)
               \/ \E x \in Msg : Add(c, x)
        PROVE  task' = Idle
    BY <2>1 DEF Bind, ClaimRefused, Open, OpenCrowded, CloseCrowded, MayClose, Add, Handling
  <2>2. ASSUME AllocateFails(c) \/ Lost(c) \/ \E k \in Mailbox : OpenFails(c, k)
        PROVE  task' = Idle
    BY <2>2 DEF AllocateFails, Lost, OpenFails, Disconnect
  <2>3. ASSUME Allocate(c) \/ \E n \in Name : Claim(c, n)
        PROVE  task'.op \in {"claim", "allocate"}
    BY <2>3 DEF Allocate, Claim
  <2>4. ASSUME \E k \in Mailbox : CloseHeld(c, k) \/ CloseUnheld(c, k)
        PROVE  task'.op = "close"
    BY <2>4 DEF CloseHeld, CloseUnheld
  <2>5. Idle.op = "idle"
    BY DEF Idle
  <2> QED BY <1>8, <2>1, <2>2, <2>3, <2>4, <2>5 DEF Command
<1> QED BY <1>1, <1>2, <1>3, <1>4, <1>5, <1>6, <1>7, <1>8 DEF UsageNext, CommitStep

LEMMA RetiresStep ==
    ASSUME UsageTyped, AllRows, RetiresARow, [UsageNext]_<<vars, usageVars>>
    PROVE  RetiresARow'
<1>1. ASSUME UNCHANGED <<task, conn, nameplates>> PROVE RetiresARow'
  BY <1>1 DEF RetiresARow, RetiredName
<1> QED BY <1>1, OtherTasks, ReleaseRetires DEF RetiresARow

\* A step keeps the promise if a row that is still owed was owed before, but for
\* what it creates and books.
LEMMA OwedType == \A p : OwedNameplate(p) \in Nat
BY DEF OwedNameplate, Count

LEMMA CommitNames ==
    ASSUME UsageTyped, NamesInv, CommitStep, NEW p \in App \X Name
    PROVE  OffName(p)' >= OffName(p) \/ OffName(p)' >= 0
<1>1. dueNameplates[p] \in Int /\ MaxDue \in Nat \ {0}
  BY UsageAssumption DEF NamesInv
<1>2. /\ OwedNameplate(p) = Count(p \in Names(nameplates))
      /\ OwedNameplate(p)' = Count(p \in Names(nameplates'))
  BY DEF CommitStep, OwedNameplate, NoRows, Count
<1>3. CASE p \in NewNames /\ dueNameplates[p] >= MaxDue
  <2>1. dueNameplates'[p] = dueNameplates[p]
    BY <1>1, <1>3 DEF CommitStep, Account
  <2> QED BY <1>1, <1>2, <1>3, <2>1 DEF OffName, Count
<1>4. CASE ~(p \in NewNames /\ dueNameplates[p] >= MaxDue)
  <2>1. dueNameplates'[p] = dueNameplates[p] + Count(p \in Names(nameplates') \ Names(nameplates))
    BY <1>1, <1>4 DEF CommitStep, Account, NewNames, Count
  <2> QED BY <1>1, <1>2, <2>1 DEF OffName, Count
<1> QED BY <1>3, <1>4

LEMMA BookNames ==
    ASSUME UsageTyped, NamesInv, BookNameplate, NEW p \in App \X Name
    PROVE  OffName(p)' = OffName(p)
<1>1. RetiredName \in Names(nameplates) /\ ~booked /\ booked' /\ task.op = "retire"
  BY DEF BookNameplate, NamesInv, RetiresARow
<1>2. dueNameplates'[p] = dueNameplates[p] - Count(p = RetiredName)
  BY DEF BookNameplate, Account, NamesInv, RetiredName, Count
<1>3. OwedNameplate(p)' = OwedNameplate(p) - Count(p = RetiredName)
  <2>1. UNCHANGED <<nameplates, task, conn, pending>>
    BY DEF BookNameplate, vars, channelDB
  <2>2. OwedNameplate(p)' = Count(p \in Names(nameplates) /\ p # RetiredName)
                                + Count(p \in pending.nameplates)
    BY <1>1, <2>1 DEF OwedNameplate, RetiredName, Count
  <2>3. OwedNameplate(p) = Count(p \in Names(nameplates)) + Count(p \in pending.nameplates)
    BY <1>1 DEF OwedNameplate, Count
  <2> QED BY <1>1, <2>2, <2>3 DEF Count
<1>4. OwedNameplate(p) \in Nat /\ dueNameplates[p] \in Int /\ Count(p = RetiredName) \in {0, 1}
  BY OwedType, CountType DEF NamesInv
<1> QED BY <1>2, <1>3, <1>4 DEF OffName

\* The deletes that follow the usage row, and those of a close.
LEMMA RetireNames ==
    ASSUME UsageTyped, NamesInv, RetireBooked \/ DeleteBooked, NEW p \in App \X Name
    PROVE  OffName(p)' >= OffName(p)
<1>1. dueNameplates' = dueNameplates /\ pending' = pending /\ booked /\ ~booked'
  BY DEF RetireBooked, DeleteBooked, books
<1>2. OwedNameplate(p)' <= OwedNameplate(p)
  <2>1. CASE RetireBooked
    <3>1. nameplates' = nameplates \ NameplateRows(conn[task.conn].app.app, task.name)
          /\ task.op = "retire"
      BY <2>1 DEF RetireBooked, RetireNameplate
    <3>2. p \in Names(nameplates') => p \in Names(nameplates) /\ p # RetiredName
      BY <3>1 DEF Names, NameplateRows, RetiredName
    <3> QED BY <1>1, <3>1, <3>2 DEF OwedNameplate, RetiredName, Count
  <2>2. CASE DeleteBooked
    <3>1. nameplates' \subseteq nameplates /\ task.op = "delete"
      BY <2>2 DEF DeleteBooked, DeleteMailbox
    <3>2. p \in Names(nameplates') => p \in Names(nameplates)
      BY <3>1 DEF Names
    <3> QED BY <1>1, <3>1, <3>2 DEF OwedNameplate, Count
  <2> QED BY <2>1, <2>2
<1>3. OwedNameplate(p) \in Nat /\ OwedNameplate(p)' \in Nat /\ dueNameplates[p] \in Int
  BY DEF OwedNameplate, Count, NamesInv
<1> QED BY <1>1, <1>2, <1>3 DEF OffName

\* What a prune inserts and has not committed, it has deleted.
LEMMA PruneNames ==
    ASSUME UsageTyped, AllRows, NamesInv, PruneBooked \/ PruneFails, NEW p \in App \X Name
    PROVE  OffName(p)' >= OffName(p)
<1>1. PICK names \in SUBSET nameplates :
          /\ nameplates' = nameplates \ names
          /\ pending'.nameplates \subseteq Names(names)
  <2>1. CASE PruneBooked
    <3>1. nameplates' = nameplates \ OldNameplates(task.ns.app)
          /\ pending'.nameplates = Names(OldNameplates(task.ns.app))
      BY <2>1 DEF PruneBooked, PruneDelete, PrunedNames
    <3>2. OldNameplates(task.ns.app) \subseteq nameplates
      BY DEF OldNameplates
    <3> QED BY <3>1, <3>2
  <2>2. CASE PruneFails
    <3>1. PICK names \in SUBSET OldNameplates(task.ns.app), gone \in SUBSET OldMailboxes(task.ns.app) :
              /\ nameplates' = nameplates \ names
              /\ pending' = [mailboxes |-> {m \in gone : ~Sideless(m)},
                             nameplates |-> Names({n \in names : ~Claimless(n)})]
      BY <2>2 DEF PruneFails
    <3>2. names \subseteq nameplates
      BY DEF OldNameplates
    <3>3. Names({n \in names : ~Claimless(n)}) \subseteq Names(names)
      BY DEF Names
    <3>4. pending'.nameplates = Names({n \in names : ~Claimless(n)})
      BY <3>1
    <3> QED BY <3>1, <3>2, <3>3, <3>4
  <2> QED BY <2>1, <2>2
<1>2. /\ task.op = "expire" /\ pending = NoRows /\ ~booked /\ booked' = booked
      /\ dueNameplates' = dueNameplates
  BY DEF PruneBooked, PruneDelete, PruneFails, books, UsageTyped, Stage
<1>3. OwedNameplate(p) = Count(p \in Names(nameplates))
  BY <1>2 DEF OwedNameplate, NoRows, Count
<1>4. OwedNameplate(p)' = Count(p \in Names(nameplates')) + Count(p \in pending'.nameplates)
  BY <1>2 DEF OwedNameplate, Count
<1>5. Names(nameplates') \subseteq Names(nameplates) /\ pending'.nameplates \subseteq Names(nameplates)
  BY <1>1 DEF Names
<1>6. ~(p \in Names(nameplates') /\ p \in pending'.nameplates)
  <2> SUFFICES ASSUME p \in Names(nameplates'), p \in Names(names) PROVE FALSE
    BY <1>1
  <2>1. PICK n \in nameplates \ names : p = <<n.app, n.name>>
    BY <1>1, NamesMember
  <2>2. PICK k \in names : p = <<k.app, k.name>>
    BY NamesMember
  <2> QED BY <2>1, <2>2 DEF AllRows, UniqueRows
<1> QED BY <1>2, <1>3, <1>4, <1>5, <1>6 DEF OffName, Count, NamesInv

LEMMA CommitUsageNames ==
    ASSUME UsageTyped, NamesInv, CommitUsage, NEW p \in App \X Name
    PROVE  OffName(p)' = OffName(p)
<1>1. dueNameplates'[p] = dueNameplates[p] - Count(p \in pending.nameplates)
  BY DEF CommitUsage, Account, Count, NamesInv
<1>2. OwedNameplate(p)' = OwedNameplate(p) - Count(p \in pending.nameplates)
  BY DEF CommitUsage, OwedNameplate, Count, NoRows, vars, channelDB
<1>3. /\ OwedNameplate(p) \in Nat /\ dueNameplates[p] \in Int
      /\ Count(p \in pending.nameplates) \in Nat
  BY DEF OwedNameplate, Count, NamesInv
<1> QED BY <1>1, <1>2, <1>3 DEF OffName

\* A death costs a row at most: the nameplate was booked and comes back, or it
\* was pruned and comes back after its row has been committed.
LEMMA DieNames ==
    ASSUME UsageTyped, NamesInv, Die, NEW p \in App \X Name
    PROVE  OffName(p)' - OffName(p) >= deaths - deaths'
<1>1. dueNameplates' = dueNameplates /\ ~booked' /\ pending' = NoRows /\ nameplates' = saved.nameplates
  BY DEF Die, books
<1>2. OwedNameplate(p)' = Count(p \in Names(nameplates'))
  BY <1>1 DEF OwedNameplate, Count, NoRows
<1>3. dueNameplates[p] \in Int /\ deaths \in Nat /\ OwedNameplate(p) \in Nat
  BY DEF NamesInv, UsageTyped, BooksTypeOK, OwedNameplate, Count
<1>4. CASE Midway
  <2>1. deaths' = deaths + 1
    BY <1>4 DEF Die
  <2> QED BY <1>1, <1>2, <1>3, <2>1 DEF OffName, Count
<1>5. CASE ~Midway
  <2>1. deaths' = deaths /\ task = Idle /\ pending = NoRows /\ nameplates' = nameplates
    BY <1>1, <1>5 DEF Die, Midway, tables
  <2>2. OwedNameplate(p) = Count(p \in Names(nameplates))
    BY <2>1 DEF OwedNameplate, Count, NoRows, Idle
  <2> QED BY <1>1, <1>2, <1>3, <2>1, <2>2 DEF OffName
<1> QED BY <1>4, <1>5

LEMMA QuietNames ==
    ASSUME UsageTyped, QuietStep \/ CommitOpen \/ BookMailbox \/ UNCHANGED <<vars, usageVars>>,
           NamesInv, NEW p \in App \X Name
    PROVE  OffName(p)' = OffName(p)
<1>1. dueNameplates'[p] = dueNameplates[p] /\ pending' = pending /\ nameplates' = nameplates
  BY DEF QuietStep, StartPrune, Tick, CommitOpen, BookMailbox, Account, vars, channelDB, usageVars, books,
         NamesInv
<1>2. CASE UNCHANGED <<task, conn, booked>>
  BY <1>1, <1>2 DEF OffName, OwedNameplate
<1>3. CASE task.op # "retire" /\ task'.op # "retire"
  BY <1>1, <1>3 DEF OffName, OwedNameplate
<1>4. \/ UNCHANGED <<task, conn, booked>>
      \/ task.op # "retire" /\ task'.op # "retire"
  BY DEF QuietStep, StartPrune, Tick, CommitOpen, BookMailbox, vars, usageVars, Idle
<1> QED BY <1>2, <1>3, <1>4

LEMMA NamesStep ==
    ASSUME UsageTyped, AllRows, NamesInv, [UsageNext]_<<vars, usageVars>>
    PROVE  NamesInv'
<1>1. dueNameplates' \in [App \X Name -> Int]
  <2>1. ASSUME NEW a, NEW b, NEW c, NEW d, Account(a, b, c, d)
        PROVE  dueNameplates' \in [App \X Name -> Int]
    BY <2>1 DEF Account, NamesInv
  <2> QED BY <2>1
     DEF UsageNext, CommitStep, CommitOpen, QuietStep, BookNameplate, RetireBooked, BookMailbox, books,
         DeleteBooked, PruneBooked, PruneFails, CommitUsage, Die, usageVars, NamesInv
<1>2. RetiresARow'
  BY RetiresStep DEF NamesInv
<1>3. ASSUME NEW p \in App \X Name PROVE OffName(p)' >= -(deaths')
  <2>1. OffName(p) \in Int /\ OffName(p) >= -deaths /\ deaths \in Nat
    BY OwedType DEF OffName, NamesInv, UsageTyped, BooksTypeOK
  <2>2. OffName(p)' \in Int
    BY <1>1 DEF OffName, OwedNameplate, Count
  <2>3. CASE Die
    <3>1. deaths' \in Nat
      BY <2>1, <2>3 DEF Die
    <3> QED BY <2>1, <2>2, <2>3, <3>1, DieNames
  <2>4. CASE ~Die
    <3>1. deaths' = deaths
      BY <2>4 DEF UsageNext, CommitStep, CommitOpen, QuietStep, BookNameplate, RetireBooked, BookMailbox,
                  DeleteBooked, PruneBooked, PruneFails, CommitUsage, usageVars
    <3>2. OffName(p)' >= OffName(p) \/ OffName(p)' >= 0
      BY <2>1, <2>2, <2>4, CommitNames, BookNames, RetireNames, PruneNames, CommitUsageNames, QuietNames
         DEF UsageNext
    <3> QED BY <2>1, <2>2, <3>1, <3>2
  <2> QED BY <2>3, <2>4
<1> QED BY <1>1, <1>2, <1>3 DEF NamesInv

\* A nameplate is retired in the usage database once at most, for any number of
\* clients, names and deaths, except that every death between two commits may
\* count one again that then comes back: not by a release that races another,
\* nor by a prune after a release, nor by a prune that fails and is repeated.
THEOREM NamesBookedOnce == UsageSpec => []NameplatesBookedOnce
<1>1. UsageInit => NamesInv
  <2> SUFFICES ASSUME UsageInit PROVE NamesInv
    OBVIOUS
  <2>1. /\ dueNameplates = [p \in App \X Name |-> 0] /\ deaths = 0 /\ pending = NoRows
        /\ nameplates = {} /\ task.op = "idle"
    BY DEF UsageInit, Init, ChannelInit, Idle
  <2>2. Names(nameplates) = {}
    BY <2>1 DEF Names
  <2> QED BY <2>1, <2>2 DEF NamesInv, RetiresARow, OffName, OwedNameplate, Count, NoRows
<1>2. NamesInv => NameplatesBookedOnce
  BY DEF NamesInv, NameplatesBookedOnce, OffName
<1>3. UInv => UsageTyped
  BY DEF UInv
<1> QED BY <1>1, <1>2, <1>3, NamesStep, SpecUsageRows, PTL DEF UsageSpec
=============================================================================
