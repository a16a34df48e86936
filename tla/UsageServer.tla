----------------------------- MODULE UsageServer -----------------------------
(***************************************************************************)
(* The mailbox server with --usage-db: when a nameplate or a mailbox is    *)
(* retired it also writes a row to the usage database, and commits the two *)
(* databases one after the other, release and close the usage database     *)
(* first, the pruner the channel database.  The process may die between    *)
(* the two.  Summarising a mailbox or a nameplate that has no sides raises *)
(* an exception in the middle of a prune, after statements that nobody has *)
(* committed; the channel database then has an open transaction, which the *)
(* next handler to commit makes permanent and the end of the process       *)
(* undoes.                                                                 *)
(***************************************************************************)
EXTENDS MailboxServer, Integers

CONSTANTS
    MaxDeaths,      \* bound on the deaths between two commits
    MaxDue          \* where the count of a name's nameplates without a usage row stops

ASSUME UsageAssumption == MaxDeaths \in Nat /\ MaxDue \in Nat \ {0}

VARIABLES
    saved,          \* the channel tables as they are on disk
    booked,         \* the handler in progress has committed its usage row
    pending,        \* usage rows the pruner has inserted and not committed
    dueMailboxes,   \* history: mailboxes created, less usage rows on disk for them
    dueNameplates,  \* history: nameplates created, less usage rows on disk for them
    deaths          \* history: deaths of the process between two commits

books == <<dueMailboxes, dueNameplates>>
usageVars == <<saved, booked, pending, books, deaths>>

\* The channel tables as the process sees them.
tables ==
    [mailboxes |-> mailboxes, mailboxSides |-> mailboxSides, nameplates |-> nameplates,
     nameplateSides |-> nameplateSides, messages |-> messages]

Names(rows) == {<<n.app, n.name>> : n \in rows}
NoRows == [mailboxes |-> {}, nameplates |-> {}]

UsageInit ==
    /\ Init
    /\ saved = tables
    /\ booked = FALSE
    /\ pending = NoRows
    /\ dueMailboxes = [m \in Mailbox |-> 0]
    /\ dueNameplates = [p \in App \X Name |-> 0]
    /\ deaths = 0

\* The books after a step that creates and books these.  A count that stops at
\* MaxDue is too low, which makes NameplatesBookedOnce only harder to keep.
Account(newMailboxes, newNames, bookedMailboxes, bookedNames) ==
    /\ dueMailboxes' = [m \in Mailbox |->
            dueMailboxes[m] + (IF m \in newMailboxes THEN 1 ELSE 0)
                            - (IF m \in bookedMailboxes THEN 1 ELSE 0)]
    /\ dueNameplates' = [p \in App \X Name |->
            dueNameplates[p] + (IF p \in newNames /\ dueNameplates[p] < MaxDue THEN 1 ELSE 0)
                             - (IF p \in bookedNames THEN 1 ELSE 0)]

NewMailboxes == {m \in Mailbox : mailboxes[m] = None /\ mailboxes'[m] # None}
NewNames     == Names(nameplates') \ Names(nameplates)

-----------------------------------------------------------------------------
\* A transaction that retires nothing.  Whatever the command, onMessage's own
\* commit makes permanent what a failed prune left open, as onClose's does.
CommitStep ==
    /\ pending = NoRows
    /\ ~booked
    /\ \/ \E c \in Conn : Command(c)
       \/ OpenClaimed
       \/ CloseSide
       \/ DeleteFails
       \/ PruneTouch
    /\ saved' = tables'
    /\ Account(NewMailboxes, NewNames, {}, {})
    /\ UNCHANGED <<booked, pending, deaths>>

\* What a failed prune left open is committed by the next message, though it be
\* without effect, such as a ping; or, before dump_stats commits the usage rows,
\* by check_addrid_generation, when that starts a generation.
CommitOpen ==
    /\ task = Idle
    /\ saved # tables
    /\ saved' = tables
    /\ UNCHANGED <<vars, booked, pending, books, deaths>>

QuietStep ==
    /\ pending = NoRows
    /\ StartPrune \/ Tick
    /\ UNCHANGED usageVars

\* release_nameplate: _summarize_nameplate_and_store, usage commit.
BookNameplate ==
    /\ task.op = "retire"
    /\ ~booked
    /\ booked' = TRUE
    /\ Account({}, {}, {}, {<<conn[task.conn].app.app, task.name>>})
    /\ UNCHANGED <<vars, saved, pending, deaths>>

\* ... and the commit of the deletes.
RetireBooked ==
    /\ booked
    /\ RetireNameplate
    /\ booked' = FALSE
    /\ saved' = tables'
    /\ UNCHANGED <<pending, books, deaths>>

\* Fault: standalone mailboxes are forgotten.
BookedWithNameplate == {n.mailbox : n \in NameplatesOf(task.box.id)}

Booked == {task.box.id}

\* Mailbox.close: a row for the mailbox, none for the nameplates deleted with it.
BookMailbox ==
    /\ task.op = "delete"
    /\ ~booked
    /\ ~NameplateInTheWay(task.box, conn[task.conn].side)
    /\ booked' = TRUE
    /\ Account({}, {}, Booked, {})
    /\ UNCHANGED <<vars, saved, pending, deaths>>

DeleteBooked ==
    /\ booked
    /\ DeleteMailbox
    /\ booked' = FALSE
    /\ saved' = tables'
    /\ UNCHANGED <<pending, books, deaths>>

Sideless(m)  == SidesOf(m) = {}
Claimless(n) == ClaimRows(n.app, n.name) = {}

\* Fault: all nameplates of the application.
AllNames(a) == Names({n \in nameplates : n.app = a})

PrunedNames(a) == Names(OldNameplates(a))

\* prune, when every row can be summarised: the channel database is committed
\* first, with what DELETEs and INSERTs have done.
PruneBooked ==
    /\ PruneDelete
    /\ \A n \in OldNameplates(task.ns.app) : ~Claimless(n)
    /\ \A m \in OldMailboxes(task.ns.app) : ~Sideless(m)
    /\ pending' = [mailboxes |-> OldMailboxes(task.ns.app),
                   nameplates |-> PrunedNames(task.ns.app)]
    /\ saved' = tables'
    /\ UNCHANGED <<booked, books, deaths>>

\* Fault: summarising comes first.
DeletesNothing(gone) == UNCHANGED <<mailboxes, idle, mailboxSides, messages>>

\* The statements before the one that raises.
DeletesSoFar(gone) == DeleteMailboxes(gone)

\* times[0] of an empty list: IndexError.  In what order a set is walked is
\* open; what comes before the row without sides has been deleted and inserted,
\* the row itself deleted, and nothing is committed.  prune_all_apps ends with
\* the exception, and the applications after this one have to wait.
PruneFails ==
    /\ task.op = "expire"
    /\ \E names \in SUBSET OldNameplates(task.ns.app), gone \in SUBSET OldMailboxes(task.ns.app) :
          /\ \/ \E n \in names : /\ \A k \in names : Claimless(k) <=> k = n
                                 /\ gone = {}
             \/ \E m \in gone : /\ \A k \in gone : Sideless(k) <=> k = m
                                /\ names = OldNameplates(task.ns.app)
                                /\ \A k \in names : ~Claimless(k)
          /\ nameplates' = nameplates \ names
          /\ nameplateSides' = ClaimsWithoutNameplates(names)
          /\ DeletesSoFar(gone)
          /\ pending' = [mailboxes |-> {m \in gone : ~Sideless(m)},
                         nameplates |-> Names({n \in names : ~Claimless(n)})]
    /\ task' = Idle
    /\ UNCHANGED <<registry, conn, delivered, saved, booked, books, deaths>>

\* The pruner's usage commit, or that of dump_stats after a failed prune.
CommitUsage ==
    /\ pending # NoRows
    /\ pending' = NoRows
    /\ Account({}, {}, pending.mailboxes, pending.nameplates)
    /\ UNCHANGED <<vars, saved, booked, deaths>>

\* Between two commits of a handler, or with a transaction left open.
Midway == task # Idle \/ pending # NoRows \/ saved # tables

\* The process dies and is started again: what was not committed is gone.  A
\* mailbox that comes back is one the pruner had found old.
Die ==
    /\ Midway => deaths < MaxDeaths
    /\ mailboxes' = saved.mailboxes
    /\ mailboxSides' = saved.mailboxSides
    /\ nameplates' = saved.nameplates
    /\ nameplateSides' = saved.nameplateSides
    /\ messages' = saved.messages
    /\ idle' = [m \in Mailbox |-> IF mailboxes'[m] # mailboxes[m] THEN Expire ELSE idle[m]]
    /\ apps' = {}
    /\ spawned' = {}
    /\ listeners' = {}
    /\ conn' = [c \in Conn |-> Unbound]
    /\ delivered' = [c \in Conn |-> {}]
    /\ task' = Idle
    /\ booked' = FALSE
    /\ pending' = NoRows
    /\ deaths' = IF Midway THEN deaths + 1 ELSE deaths
    /\ UNCHANGED <<saved, books>>

\* A handler that has begun goes on.
UsageContinue ==
    \/ task # Idle /\ CommitStep
    \/ BookNameplate
    \/ RetireBooked
    \/ BookMailbox
    \/ DeleteBooked
    \/ PruneBooked
    \/ PruneFails
    \/ CommitUsage

UsageNext ==
    \/ CommitStep
    \/ CommitOpen
    \/ QuietStep
    \/ BookNameplate
    \/ RetireBooked
    \/ BookMailbox
    \/ DeleteBooked
    \/ PruneBooked
    \/ PruneFails
    \/ CommitUsage
    \/ Die

UsageSpec == UsageInit /\ [][UsageNext]_<<vars, usageVars>>

\* Reboots between two commits of the pruner, again and again, are not assumed away.
UsageFairness ==
    /\ WF_<<vars, usageVars>>(UsageContinue)
    /\ SF_<<vars, usageVars>>(QuietStep /\ Tick)
    /\ SF_<<vars, usageVars>>(QuietStep /\ StartPrune)

FairUsageSpec == UsageSpec /\ UsageFairness

-----------------------------------------------------------------------------
UsageTypeOK ==
    /\ booked \in BOOLEAN
    /\ pending \in [mailboxes : SUBSET Mailbox, nameplates : SUBSET (App \X Name)]
    /\ dueMailboxes \in [Mailbox -> Int]
    /\ dueNameplates \in [App \X Name -> Int]
    /\ deaths \in Nat

Count(b) == IF b THEN 1 ELSE 0

\* Rows that are still to be written for a mailbox: one while it exists, until
\* its close has booked it, one while the pruner has not committed.
OwedMailbox(m) ==
    Count(mailboxes[m] # None /\ ~(booked /\ task.op = "delete" /\ task.box.id = m))
        + Count(m \in pending.mailboxes)

OwedNameplate(p) ==
    Count(p \in Names(nameplates)
            /\ ~(booked /\ task.op = "retire" /\ p = <<conn[task.conn].app.app, task.name>>))
        + Count(p \in pending.nameplates)

\* usage-v2.sql:30 "one row is created each time a mailbox is retired": every
\* death of the process between two commits costs each mailbox id at most one
\* row too many or too few, whatever the orders of the commits and however
\* many prunes fail half way; without such deaths the books balance.
MailboxesBooked ==
    \A m \in Mailbox : dueMailboxes[m] - OwedMailbox(m) \in (-deaths)..deaths

\* A nameplate is not counted twice, but for deaths between two commits.
NameplatesBookedOnce ==
    \A p \in App \X Name : dueNameplates[p] - OwedNameplate(p) >= -deaths

\* A prune finds a nameplate that it cannot summarise.
PruneStuck == \E n \in nameplates : Claimless(n) /\ idle[n.mailbox] = Expire

\* An unused mailbox is removed in the end also when prunes fail half way and
\* their transactions are left open, unless there are always nameplates without
\* claims again for the pruner to fail at before it comes to the mailboxes.
ExpiresUnlessStuck == []<>PruneStuck \/ UnusedMailboxExpires

\* usage-v2.sql:14 "one row is created each time a nameplate is retired".
NameplatesBooked ==
    \A p \in App \X Name : dueNameplates[p] - OwedNameplate(p) <= deaths
=============================================================================
