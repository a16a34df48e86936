# Verification of the magic-wormhole mailbox server

TLA+ modules that model the mailbox server of this repository, the TLC runs that check them on small
instances, and TLAPS proofs of what holds for every instance. Line numbers refer to
`src/wormhole_mailbox_server/` unless a path is given.

## 1. The system

Two clients that share a short code meet at this server. One claims a *nameplate* (the number in the
code), which points to a *mailbox*; the other claims the same nameplate and learns the mailbox's id;
both open the mailbox, add messages to it, hear each other's messages, and close it. Connections are
lost and made again at any time, the server may be restarted, and what nobody uses is pruned.

| Component | State it keeps | Operations | Modelled in |
|---|---|---|---|
| WebSocket protocol (`server_websocket.py`) | per connection: namespace, side, what it has done (`_did_claim` ...), nameplate, mailbox id, `Mailbox` object | `bind`, `list`, `allocate`, `claim`, `release`, `open`, `add`, `close`, `ping`, `onConnect`, `onClose` | `MailboxServer`, `ConnectionTable`, `PeerAddress` |
| Mailboxes and nameplates (`server.py`) | in memory: `Server._apps`, `AppNamespace._mailboxes`, `Mailbox._listeners` | `get_app`, `claim_nameplate`, `release_nameplate`, `open_mailbox`, `add_message`, `close`, `prune`, `prune_all_apps` | `AppNamespace`, `MailboxServer`, `NameplateChoice`; the promise: `Wormhole` |
| Channel database (`db-schemas/channel-v2.sql`) | nameplates, nameplate_sides, mailboxes, mailbox_sides, messages | the SQL statements of `server.py` | `ChannelDB` |
| Service and timer (`server_tap.py`) | the timer; the options | start, `expire()` every 5 minutes | `MailboxServer`, `AddressIDTracker`, `ChannelExpiry`, `ServerOptions`, `DurationOption` |
| Usage records (`server.py`, `usage-v2.sql`) | one row for each retired nameplate and mailbox, in a database of its own | `_summarize_*`, commits next to those of the channel database | `UsageServer`, `UsageSummary` |
| Address tracker (`address_id.py`, `addrid-v1.sql`) | the generation (channel database), the address table (own database) | `check_generation`, `get_id`, `get_address` | `AddressIDTracker` |
| Connection table (`connections.py`) | rows about live connections | `clear`, `established`, `bound`, `add_message`, `lost` | `ConnectionTable` |
| Database files (`database.py`, `misc/migrate_*_db.py`) | the files and their versions, backups | create by rename, back up, upgrade, migrate | `DatabaseFile` |
| Limits (`increase_rlimits.py`), options (`server_tap.py`, `web.py`), releases (`update-version.py`, `_version.py`) | none | functions | `ProcessLimits`, `ServerOptions`, `ReleaseVersion`, `PackageVersion` |
| `util.py`, `versioneer.py`, `setup.py`, `docs/conf.py` | none | encoding, the build | no |

How they interact: a WebSocket command calls the connection's `AppNamespace`, which reads and writes
the database and keeps `Mailbox` objects; a `Mailbox` calls back its listeners, the connections
subscribed to it. Every connection and every command also writes the connection table, which refers to
the address tracker's ids. The timer asks the database which applications exist, gets or makes their
namespaces, deletes what is old, then has the tracker check its generation. All of it runs in one thread
of the reactor.

What is hard about it:

* **Two representations.** Who hears a message is decided by Python objects, what is stored by the
  database. A restart, a prune, or a second connection can leave a connection with an object the
  others do not use.
* **Handlers of several transactions.** `claim`, `release`, `close` and `prune` commit more than once;
  the process may die between two commits, and a statement may fail after others have run.
* **Up to three databases**, committed one after the other: channels, usage, addresses.
* **Clients come back.** The same side connects again, possibly while its old connection is still
  thought alive, and repeats what it did; everything but one claim and one release per nameplate must
  be repeatable.
* **Nothing in the schema** makes nameplates, claims or sides unique, or ties messages to mailboxes.
* **Third parties.** A nameplate is guessable: a third side may join, and is refused only after it has
  left its rows.
* **Expiry** must not take a mailbox from a subscriber, and must in the end take every other.
* **Scripts without transactions.** An upgrade commits after every statement.

`PROJECT.json` lists the hazards line by line, with the properties that cover them.

## 2. Modules

The server:

* `ChannelDB`: the tables, as sets of rows, and the effect of each SQL statement. Columns no property
  distinguishes (`mood`, `added`, `phase`, `body`, `request_id`) are left out. `updated` is kept as an age
  in ticks, `idle`, capped at `Expire`.
* `AppNamespace`: the in-memory objects. An object is what it stands for plus a generation number, so
  that two objects for one mailbox are two values; `spawned` holds the `_mailboxes` of all namespaces some
  connection or the registry can still reach. Generations of garbage objects are used again, smallest first.
* `MailboxServer` composes the two with the connections, the timer and the process. One action is one
  database transaction with the Python code around it. `task` is the handler that is between two of its
  transactions: while it is not idle nothing else runs, except that the process may die (`Restart`).
* `UsageServer` extends it by the usage database. Every transaction of `MailboxServer` is taken as it is, with the
  commits made visible: `saved` is the channel database on disk, `booked` and `pending` are usage rows between the two
  commits. It also has the prune that raises an exception on a nameplate without claims (355) or a mailbox without
  sides (432) and leaves a transaction open. `release` and `close` commit the usage row first (173, 348), `prune` the
  channel rows.
* `Wormhole` is what the server promises, without databases and objects: codes name pipes, pipes have at most two
  sides that listen, and carry everything to every connection of either. `WormholeRefinement` maps the server's state
  to it.
* `DocumentedClaims`: sentences of the documentation the code does not keep.

The other parts with state, each on its own since they share nothing with the rest but the process and
a file:

* `AddressIDTracker`, and `ConnectionTable`, which extends it: accepting a connection first commits the
  address id and then the row. `DurationOption` is the tracker with a duration from the command line.
* `ChannelExpiry`: one mailbox, in minutes, against a timer of its own period and restarts at any minute.
  `MailboxServer` says what is deleted; this module when.
* `DatabaseFile`: one file, the server or a migration script, one action for each committed statement.

Functions, each with the statement of what it must return: `UsageSummary`, `NameplateChoice`, `PeerAddress`,
`ProcessLimits`, `ServerOptions`, `ReleaseVersion`, `PackageVersion`. `MCFunctions` calls each with every input of
a small set.

Operators marked "Fault:" are not part of the model. Each is the definition below it with a plausible
mistake; putting it in that definition's place must break a property, which shows the property notices.

| Code | Action |
|---|---|
| `handle_bind` | `Bind` |
| `handle_allocate`, `handle_claim` up to the first commit of `claim_nameplate` | `Allocate`, `Claim` (`CreateNameplate`, `JoinNameplate`) |
| ... `ReclaimedError`; no free nameplate | `ClaimRefused`; `AllocateFails` |
| `claim_nameplate` from its commit on (`open_mailbox`) | `OpenClaimed` |
| `handle_release`, `release_nameplate` up to its commit; from there on | `Release`; `RetireNameplate` (with a usage database `BookNameplate`, `RetireBooked`) |
| `handle_open`; with `CrowdedError`; with `IntegrityError` | `Open`; `OpenCrowded`; `OpenFails` |
| `handle_add` | `Add` |
| `handle_close` with a mailbox; without; with `CrowdedError` | `CloseHeld`; `CloseUnheld`; `CloseCrowded` |
| `Mailbox.close` up to its commit; from there on; with `IntegrityError` | `CloseSide`; `DeleteMailbox` (`BookMailbox`, `DeleteBooked`); `DeleteFails` |
| `onClose` | `Lost` (and `Disconnect` in the failing handlers); its table row: `ConnectionTable!Lost` |
| `prune_all_apps`; `prune` up to its first commit; from there on; with `IndexError` | `StartPrune`; `PruneTouch`; `PruneDelete` (`PruneBooked`, `CommitUsage`); `PruneFails` |
| the process is killed and started again | `Restart` (`Die`) |
| `makeService`'s and `expire()`'s calls of `check_generation`; its second commit, and when it fails; `get_id` | `Start`, `Check`; `Erase`, `EraseFails`; `GetKnown`, `GetNew` |
| `clear_connections`; `onConnect` up to and from the commit of the id; `bound`; `add_message` | `Clear`; `Connect`, `Established`; `Bound`; `AddMessage` |
| `_get_db` up to `os.path.exists`; `_initialize_db_schema`; `os.rename` | `ServerStarts`, `MigrationStarts`; `CreateTable`, `CreateVersion`; `Rename` |
| `_get_db` from there on: version, backup, upgrade scripts | `ReadVersion`; `BackUp`; `NoUpgrader`, `UpgradeTable`, `DeleteVersion`, `InsertVersion` |
| a migration script | `MigrationStarts` ... `CopyTable`, `CommitCopy` |

`handle_list` changes nothing. `Mailbox.open` commits by itself before
`open_mailbox` does; the second commit has nothing left to write, so `OpenTransaction` is one step.

**Errors.** A handler that raises anything but `Error` loses its connection (`Disconnect`). What it had
written is committed by `onClose` (`ConnectionTable` shares the database): `DeleteFails` keeps the
deletion of the closing side's claims. A crash before that commit is a `Restart` from the same state. What a
failed prune leaves open is committed by whatever command comes next, since `onMessage` commits to the
connection table, or by a generation that ends (address_id.py:25) (`CommitStep`, `CommitOpen`).

**Environments.** Two Boolean constants say what clients may do: `Overlap`, that a side has two connections at
once, and `Reopen`, that a side opens again what it has closed. With both the clients do anything the server
lets them. The constants only restrict guards.

**Assumptions on behaviours.** The delivery of messages needs more, which the code does not provide: that no
connection holds an object its registry has dropped. `NamespacesKept` says it of namespaces: `prune_all_apps` drops
one without `Mailbox` objects, whoever is bound to it (server.py:626), so it fails when the timer fires while a bound
connection's application has no mailbox in use. `ObjectsKept` says it of `Mailbox` objects as well: the last close of
a mailbox drops the object (180) for every other connection that holds it. They are not guards on the server's actions
but a condition on the whole behaviour: the theorems have it as a premise, `delivery` follows a behaviour for as long
as `NamespacesKept` holds, `protocol` checks `ObjectsKeptSpec`. Section 4 shows what the code does otherwise.

## 3. Properties and runs

| Run | Instance | Distinct states | Shows |
|---|---|---|---|
| `protocol` | 2 connections, 2 sides, nameplate, mailbox, 2 messages; any clients, `ObjectsKept` | 529 967 | the whole course of a wormhole, with crashes, lost and overlapping connections, reopenings: everything is delivered, and the server implements `Wormhole` |
| `delivery` | 3 connections, 3 sides, 2 mailboxes, 1 message; no overlap, no reopening, `NamespacesKept` | 596 370 | delivery, protection from the pruner, no third listener, no lost message, `Wormhole` again |
| `any_clients` | 2 connections, 2 sides, nameplate, mailbox; any clients | 2 070 229 | the table properties against arbitrary command sequences |
| `two_apps` | 2 applications with the same nameplate name, 1 side, 1 connection, 2 mailboxes; any clients, fairness | 521 049 | what one application does leaves the other alone, but for the claims a last close takes; unused mailboxes of either go in the end |
| `usage` | 1 connection, 2 mailboxes, usage database, 1 death between commits; any clients, fairness | 570 413 | the books balance but for that death; unused mailboxes go unless the prunes never stop failing |
| `connections` | 3 addresses, 2 connections, 3 generations | 1 411 677 | ids tell addresses, also when erasures fail; generations end; the connection table is true |
| `channel_expiry` | 11 and 5 minutes, as in the code | 3 722 | how long a client may be away, and how long an unused mailbox stays |
| `database` | 4 versions, scripts to 3 and 4, a migration | 325 | nothing half made is opened, refused wrongly, or without backup |
| `functions` | about 55 000 calls | 54 950 | the functions |
| `claim_*` | | | section 4 |

The properties are stated, with the sentence of the documentation or code they are about, at the
end of each module. For any clients, in every behaviour (`MailboxServer`): `ForeignKeys`, `UniqueRows`,
`MailboxGoesWhenDone`, `MessagesStay`, `ClosedStaysClosed`, `NameplateGoesWhenFree`, `ClaimsLast`, `ApplicationsApart`,
`UnusedMailboxExpires`. For any clients, as long as no connection holds a dropped object (`ObjectsKept`):
`CompleteDelivery`, `NoOrphanMessages`, `TwoListeningSides`, and all of `Wormhole` (`ImplementsWormhole`). For
clients that neither overlap nor reopen, as long as the timer drops no namespace in use (`NamespacesKept`): also
`ListenerProtected`.

**Bounds.** Two connections show every interleaving of two actors; the third, in `delivery`, is the third side of a
crowded mailbox. One application suffices unless applications touch each other, which is the matter of `two_apps`: it
has a mailbox for each, so that both have nameplates, claims and mailboxes at the same time and the timer two
applications to prune. A mailbox id belongs to one application at a time (`IdTaken`). Otherwise a second mailbox is
there where one mailbox must not affect another. `Expire` is 1: a mailbox is young or old, as `prune` tells them
apart. Message ids and mailbox ids are finite pools: a new message is one that no row and no subscriber has
(`FreshMessage`), a generated mailbox id is one nothing refers to (`FreshMailbox`; the code draws 64 random bits).
`Gen` has one number more than there are connections: an object that is still referred to is held by a connection or
registered. `MaxDeaths` is 1 since every death is the same to the books, and shifts them by one; `MaxDue` is where the
count of nameplates closed without a usage row (section 5) stops; it is in no guard, and a count that is too low only
makes `NameplatesBookedOnce` harder to keep. `usage` has two mailboxes and no sequence of prunes in it fails forever;
three mailboxes are too many states together with a death, but with `MaxDeaths = 0` (266 138 states) TLC finds the
prunes that fail forever (section 5): `UnusedMailboxExpires` does not hold there, and `ExpiresUnlessStuck` does.
`MaxGeneration`, `MaxAge` and `MaxId` bound how long the server lives and is down; where they stop it there is no next
state, so `connections` does not check for deadlock. `Duration` is two timer periods, `MaxAge` three durations, so
that both branches of the lag rule are reached. `Forever` is past every time the properties of `ChannelExpiry`
mention. In `database` the first version has no script, so that a file may have none, and an upgrade from 2 to 4 takes
two (in the code as it is, channel and usage database have one upgrade, from 1 to 2). `functions` uses numbers in base
2 where the program uses base 10: nameplates of one to three digits, of which two sizes count as short. It ends after
one call, so it does not check for deadlock either.

**Symmetry** is over connections, sides, names, mailboxes, messages and addresses, none of which the
specification tells apart; applications and generations are numbers because it compares them. Runs with
liveness use none.

**Fairness** (`two_apps`, `usage`). A handler that has begun goes on (weak fairness of `Continue`): handlers are plain
synchronous code. Time passes (strong fairness of `Tick`, since it is disabled while a handler runs, however often
that is). The timer fires again and again: `TimerService` calls `expire` forever, and `expire` catches what
`prune_all_apps` raises. In `two_apps` the process may die any number of times; what is assumed is that, as long as
there are rows, it does not die in the middle of every single run of the pruner, nor each time before the second
application's turn. Nothing is assumed of the clients.

In `usage` deaths between commits are bounded, so that strong fairness of `StartPrune` is enough. There a prune may
fail, and it may do so every time. A failed prune has executed the DELETE of the nameplate or mailbox that made it
fail, so a mailbox without sides makes it fail once. A nameplate without claims makes it fail before the loop over the
mailboxes begins (355, 527), so as long as there is always another such nameplate no mailbox goes.
`ExpiresUnlessStuck` is therefore conditional: an unused mailbox goes unless, again and again, an old nameplate has no
claims (`PruneStuck`).

## 4. What the documentation says and the code does not do

Each of these has a run that must find the counterexample; all were reproduced with the real code.

| Run | The code | The documentation |
|---|---|---|
| `claim_stale_namespace` | a prune that finds an application without mailboxes in use drops its namespace (server.py:626) although bound connections hold it. Such a connection then subscribes to a `Mailbox` nobody else can find: others do not hear it, and the pruner deletes the mailbox under it. `NamespacesKept` excludes this, and only this, from what `delivery` and the theorems about protocol-keeping clients say | docs/server-protocol.md:186 |
| `claim_last_close` | the last `close` deletes only its own side's claims (160) before the nameplate (162), and fails while the other side has a row there | server.py:157, NEWS.md:47 |
| `claim_duration_option` | `--generation-duration` from the command line stays text (server_tap.py:28), and adding it to a time raises `TypeError`: generations never end, and a restart fails | docs/operations.md:17 |

## 5. Met while modelling

Plain from the code and in the model, without a run of their own:

* The last `close` deletes the side's claims on all nameplates, in all applications (160): a `release` that
  was done is forgotten, and the nameplate can be claimed again by the same side (`ClaimsLast` has the exception).
* Opening a mailbox again leaves the side's row closed (53); docs/server-protocol.md:154 does not say so.
* `add` through a `Mailbox` object that outlived its mailbox stores a message no mailbox has (113), and one through an
  object that is not the registered one reaches only its own listeners. A connection comes to hold such an
  object in two ways: it was bound when the timer dropped its namespace, and its mailbox was pruned or opened by
  others later; or another connection closed the mailbox last, which can happen to a side that has a second
  connection or has opened again. `ObjectsKept` excludes both. Where only
  `NamespacesKept` is assumed and a side may have two connections, TLC finds `CompleteDelivery` and `NoOrphanMessages`
  violated within nine states.
* A connection may open again after `close`: `_did_open` is never tested, although server_websocket.py:24
  and 46 say otherwise.
* The generation check at startup is forced (server_tap.py:95) and starts the new generation at the end of the current
  one (address_id.py:15), even when that lies ahead. Each start that does not wait for the end adds a duration: after
  N quick restarts the addresses seen since are kept for up to N+1 durations, where docs/operations.md:15 and 17 speak
  of about 24 hours and of an erasure interval. `GenerationEnds` counts them (`early`). Conversely, an erasure that
  fails keeps the old addresses for a generation more (`TracedForAGeneration` has the exception).
* An upgrade that was cut short is tried again at the next start, which copies the half-upgraded file over
  the backup (database.py:107): `DatabaseFile!BackupOutlivesRetries` does not hold. `UpgradeHasBackup`, of
  the upgrade in progress, does, since a second try stops at its first statement.
* Nameplates deleted together with a mailbox get no usage row (162), and a mailbox without sides gets
  none: `UsageServer!NameplatesBooked` does not hold.
* With a usage database, a prune that finds an old nameplate without claims raises (355) before it comes to the mailboxes
  (527), although server.py:470-474 says that what is old is deleted. A last close leaves such a nameplate behind by taking
  the side's claims on other nameplates (160). The failed prune has deleted it, but a side that keeps claiming one
  nameplate and closing another mailbox makes every prune fail, and no unused mailbox goes meanwhile.
* The comment at server.py:465-468 speaks of a check every 10 minutes and of 9 minutes a client may be
  away. With the values of server_tap.py:67-68, 11 minutes checked every 5, it may be away 10 minutes if the server
  runs throughout, and 6 if it is restarted; after 16 minutes the mailbox is gone.
* A nameplate with a line feed at its end is accepted (`$` in server.py:11), and one of the decimal digits of any
  script (`\d` of a text): `"٣"` is a nameplate, and not the same as `"3"`.
* The server allocates the shortest name that is free only up to three digits (server.py:230); beyond, it draws from
  four to six digits (238-242), whatever is free, where docs/server-protocol.md:129-130 says "as short as possible".
* "quiet", the mood of a mailbox without sides (441), is never written: `times[0]` raises before.
* On a platform with an undocumented cap between its soft limit and 10000 `increase_rlimits` can lower the limit.
* `git_pieces_from_vcs` does not look at failures of its last two git commands; then importing the package raises.
* Mailbox ids are unique across applications (`IdTaken`; docs/server-protocol.md:23 says they can be re-used); the
  last close deletes a mailbox its nameplate still points to (docs/server-protocol.md:150); `list` returns all
  nameplates, not those with one side (server_websocket.py:32).

## 6. Proofs

Checked with `tlapm`, for every value of the constants that satisfies the assumptions. Those are small:
generations and applications are natural numbers (`prune_all_apps` sorts the application ids; a number in
the order of their names does as well), `Expire` and the durations are positive, the environment
constants are Booleans, and `None` is none of the other values. Nothing is assumed to be finite except where said.

| Module | Theorem | Property | Further assumption |
|---|---|---|---|
| `MailboxTableProofs` | `TypeCorrect`, `ReferencesHold`, `RowsAreUnique` | `TypeOK`, `ForeignKeys`, `UniqueRows` | |
| | `MessagesAreKept`, `MailboxesGoWhenDone`, `ClosedIsFinal`, `NameplatesGoWhenFree`, `ClaimsAreKept` | `MessagesStay`, `MailboxGoesWhenDone`, `ClosedStaysClosed`, `NameplateGoesWhenFree`, `ClaimsLast` | |
| `MailboxDeliveryProofs` | `DeliveryIsComplete`, `MessagesHaveMailboxes` | `CompleteDelivery`, `NoOrphanMessages` | `[]ObjectsKept` |
| | `TwoEnds` | `TwoListeningSides` | `[]ObjectsKept`, finitely many sides |
| | `OnlyTheTimerDrops` | `ObjectsKept` | `Protocol`, `[]NamespacesKept` |
| | `ListenersAreProtected` | `ListenerProtected` | `Protocol`, `[]NamespacesKept` |
| `WormholeProofs` | `ServerIsAWormhole` | `ImplementsWormhole` | `[]ObjectsKept`, finitely many sides |
| | `ProtocolClientsMeetAWormhole` | `ImplementsWormhole` | `Protocol`, `[]NamespacesKept`, finitely many sides |
| `UsageProofs` | `BooksBalance`, `NamesBookedOnce` | `MailboxesBooked`, `NameplatesBookedOnce` | |
| | `UsageReferencesHold`, `UsageRowsAreUnique` | `ForeignKeys`, `UniqueRows` | |
| `ConnectionTableProofs` | `IdsTellAddressesApart`, `CurrentIds`, `GenerationsEnd`, `TableTrue`, `Traced` | `IdsTellAddresses`, `ServedIdsAreCurrent`, `GenerationEnds`, `TableIsCurrent`, `TracedForAGeneration` | |
| `DatabaseFileProofs` | `OpenedFilesAreCurrent`, `RefusalsAreJustified`, `UpgradesHaveBackups` | `OpenedIsCurrent`, `RefusesOnlyBroken`, `UpgradeHasBackup` | |
| | `MigrationsAreWhole` | `MigratesAllOrNothing` | `OrderAssumption` |
| `ChannelExpiryProofs` | `MailboxesGoInTime`, `ClientsMayBeAway`, `ClientsMayBeAwayLonger` | `GoneInTime`, `KeptWhileAway`, `KeptWhileRunning` | |
| `ComputationProofs` | `UsageTimesAreRight`, `UsageTimesAreBlurred`, `UsageMoodIsWorst`, `LimitIsNeverLowered`, `OptionsAreTold` | `UsageTimesTell`, `UsageIsBlurred`, `UsageTellsWorstMood`, `RaisesLimit`, `OptionsTell` | |
| | `PlaceIsOne`, `NamesAreSound`, `VersionsAreTold` | `OnePlace`, `ShortNamesFirst`, `VersionsTell` | see "Functions" |

`Protocol` is about clients only: `~Overlap /\ ~Reopen`. `[]ObjectsKept` and `[]NamespacesKept` are about the behaviour
(section 2), and the code does not see to them; sections 4 and 5 show they are needed. That every other assumption on
the server is gone is what `OnlyTheTimerDrops` says: with clients that keep to the protocol only the timer ever leaves a
connection with a dropped object.

**Types and tables** (`MailboxTableProofs`). `TypeOK` is inductive with `HandlerBound`: a handler between two
transactions belongs to a bound connection. Every step is one of ten transactions or leaves the tables alone
(lemma `Transactions`), so a property of the tables needs ten cases, not one for each command. `ForeignKeys` and
`UniqueRows` are inductive with the types, and only together: that a claim row has a nameplate is kept by the
deletion of a nameplate because names are unique, and names stay unique because a nameplate is created only where
no row has its name. `IdTaken`, `FreshMailbox` and the failing DELETE (`NameplateInTheWay`) are what the proof uses of
the schema's PRIMARY KEY and REFERENCES.

**Steps** (the end of `MailboxTableProofs`). The second transaction of a handler deletes on the strength of what the
first one saw: that all sides are closed, that nobody claims the nameplate, that what is listened to
was touched. `HandlerReady` says this still holds, because nothing but a crash comes between the two.

**Delivery** (`MailboxDeliveryProofs`). The inductive invariant, `Inside`, says that objects and tables agree
(`Objects`, `Connections`, `Delivery`): what a connection holds is registered, a namespace has one `Mailbox` object
for each mailbox, what a connection holds is what it listens to, and whoever listens listens to a mailbox that exists.
Clients are arbitrary; a step preserves `Inside` if `ObjectsKept` holds after it. One exception in the code is a
conjunct: `handle_close` stops listening before it lets go of the object (`Closing`). A refused third side leaves its
row, so the number of rows has no bound; at the one step that adds a listener there are at most two, and every
listening side has one.

For clients that keep to the protocol `Alone` is added: a side has one connection, and who listens has an open row. A side
that closes then leaves no other connection of its own behind, so that no last close drops what somebody holds
(`OnlyTheTimerDrops`), and `ObjectsKept` follows from `NamespacesKept`.

**Refinement** (`WormholeProofs`). Under `Inside`, before and after, every action is a step of `Wormhole` or a
stutter: the first transaction of a claim is `Assign` or a stutter, the second `Join`, the touching half of a prune
nothing, a crash the loss of all ears at once. The steps that touch none of the mapped variables are dealt with by one
lemma.

**Usage** (`UsageProofs`). That the books balance is not inductive: a mailbox whose claim died between its two
commits has no sides, and the prune that deletes it will write no row for it. `Balanced` counts such mailboxes
(`WillBeMissed`) against the deaths that made them, before they are missed. That no nameplate is counted twice
needs something else: a nameplate whose usage row is being written still has its own row (`RetiresARow`), is
deleted with the same commit or by the next, and has no other. A count that stopped at `MaxDue` is at least 1, so the rows
still to be booked are never more than it says (`CommitNames`). That names are unique and references hold is proved
for the server with failing prunes as well (`AllRows`).

**Addresses and connections** (`ConnectionTableProofs`). `IInv` ties each phase of `check_generation` to what may
be in the table: after its first commit everything ever issued is older than the recorded generation. A row of the
connection table leads to one address because of what `ServedTheirOwn` adds: the id a connection is served under was
issued for its own address, in whatever generation that was; by `IInv` no other address ever got the same one.

**Files** (`DatabaseFileProofs`). `Shape`: a file has the tables of its version and the first few of the next one. An
upgrade that gets past its first statement has therefore found a whole file, and copied one. A migration's copy is, at
every step, that of the first tables of its list (`CopyInv`); `OrderAssumption`, that the list names each table once
and after those it refers to, is what the order of the statements in `misc/migrate_channel_db.py:78` and
`misc/migrate_usage_db.py` provides, and then no INSERT fails.

**Expiry** (`ChannelExpiryProofs`). A mailbox's age runs ahead of its client's absence by less than a period,
since each check that sees a listener resets it. While the server runs throughout, all checks since are a whole
number of periods apart (`WholePeriods`), which is the difference between 6 minutes and 10.

**Functions** (`ComputationProofs`). Every result is a theorem about the function, for arguments of any size
(`TimesAreRight`, `StartsAreBlurred`, `MoodIsWorst`, `LimitGoesUp`, `AddressIsTheClients`, `AcceptedNamesAreDigits`,
`AllocationKeepsShort`, `ReleaseIsNewest`, `OptionsCount`, `VersionIsTold`), and from it an invariant of `MCFunctions`.
Python's `sorted` and `max` have to exist before anything can be said of what they return: `CanBeSorted` orders a
finite sequence of numbers by counting, for each, those that do not come after it, and `LargestNumber` and
`GreatestOf` take the last. Where a loop or a fold goes over a sequence, `UpTo` stands for induction: a set of numbers
that has 0 and with each number the next has them all. `FoldExists` so finds the function that `FoldLeft` is, set size by
set size; `TellsFirst` is the invariant of the loop over the options. The further assumptions:

* `PowerAssumption` states what powers of the radix are, for the exponents in use, since the provers do not know `^`;
  `ExhaustedAssumption`, that the exception of `_find_available_nameplate_id` is no name.
* `FieldsAssumption`: `""` and `"ffff"` are none of the fields a host's address is made of, so that the
  address of an IPv6 host does not look like a mapped one.
* `OrderOfNames`: texts are in the order `sorted()` gives them, in as far as a text comes after its beginnings;
  `TextsAssumption`, that exceptions are not texts, and that hashes and numbers of commits have no "+";
  `ReleasesAssumption`, that names of versions are not those of commits or directories and have one "+" at most.
  Git enforces none of the last: someone who tags a release `0+unknown` gets what he asked for.

The prover cannot show that a text is one (`"0" \in STRING`), so `Parts` names what texts are made of.

Before each was proved, TLC checked the inductive invariants on instances of the runs.

Every invariant and every action property of the runs that pass is a theorem, but for `ApplicationsApart`. Only
model-checked are that, liveness (`UnusedMailboxExpires`, `ExpiresUnlessStuck`; fairness and ENABLED are beyond the
prover) and the counterexamples.

## 7. Not modelled

* The `client_versions` and `current` tables of the usage database beyond the rounding of the former's times: both are
  written and never read. `dump_stats` is there as a commit.
* The wording of errors, and malformed commands. Most are answered with an error and change nothing but the
  connection table; some raise and lose the connection, which is `Lost`: a nameplate that is not one to 40 digits
  (server_websocket.py:282), a mailbox id that is no text (319).
* A server without `--addrid-db`, the default: connections then have no address id (server.py:582-585), and the
  connection table holds none. `ConnectionTable` has the address database.
* A proxy that passes an IPv4 client on as `::ffff:a.b.c.d`, which the comment at server_websocket.py:141 takes not to
  happen; the code would record it as IPv6.
* Databases in memory other than the address table, `open_existing_db` and `dump_db`.
* `stopService` is a restart. Logging, JSON (`util.py`), the wiring of Twisted and Autobahn (`web.py`,
  `startService`), Munin plugins.
* `versioneer.py` (2276 lines, 44 % of the code counted for this repository) is a third-party build tool,
  `setup.py` and `docs/conf.py` configure others. Of `_version.py`, which the same tool generates, only what the package's
  configuration reaches is modelled, not the seven other styles and not `run_command`.

Data left out of what is modelled: phases and bodies of messages, and moods and times outside `UsageSummary`;
messages are told apart within a subscription only, so the order of delivery, which the protocol does not
promise, is not there. A prune and a usage row are modelled with the rows they concern, not with SQLite's locks: one
process uses the files.

## 8. Plan

Done: every part of the server that has state, its composition with the usage database, its abstract
specification with the refinement, the functions, and proofs of all safety properties the runs check. What could
come next:

1. The mailbox server and the connection table in one module: a failed handler's open transaction is committed by
   `onClose`, which `MailboxServer` has as part of the handler and `UsageServer` as `CommitOpen`.
2. That the server with the usage database implements the one without, the failing prune apart, as a theorem: then
   the delivery properties and `Wormhole` would carry over to it.
3. `ApplicationsApart` as a theorem: it needs that a handler's second transaction still finds its mailbox in its own
   application.
