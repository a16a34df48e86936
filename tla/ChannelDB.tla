----------------------------- MODULE ChannelDB -----------------------------
(***************************************************************************)
(* The channel database: the tables of db-schemas/channel-v2.sql that the  *)
(* server's protocol state lives in, and what the SQL statements of        *)
(* server.py do to them.  A table is a set of rows; the columns no         *)
(* property tells apart (mood, added, phase, body ...) are left out.       *)
(*                                                                         *)
(* sqlite is used synchronously from one thread.  What other handlers, and *)
(* a restart, can see of a handler is what it has committed, so the        *)
(* modules above this one write these tables one transaction at a time.    *)
(***************************************************************************)
EXTENDS Naturals, FiniteSets

CONSTANTS
    App,        \* application ids; numbers, as the pruner visits them sorted
    Side,       \* client-chosen names of the two ends of a wormhole
    Name,       \* nameplate names
    Mailbox,    \* mailbox ids
    Msg,        \* identities of messages (a message's side, phase and body)
    Expire,     \* age, in ticks, at which a mailbox is too old
    None        \* Python's None, SQL's "no row"

ASSUME AppAssumption    == App \subseteq Nat
ASSUME ExpireAssumption == Expire \in Nat \ {0}
ASSUME NoneAssumption   == None \notin App \union Name \union Mailbox

VARIABLES
    mailboxes,      \* mailboxes[id]: the app_id column of the row, or None
    idle,           \* idle[id]: ticks since the `updated` column, at most Expire
    mailboxSides,   \* rows of mailbox_sides
    nameplates,     \* rows of nameplates
    nameplateSides, \* rows of nameplate_sides, nameplates_id spelt out as (app, name)
    messages        \* rows of messages

channelDB == <<mailboxes, idle, mailboxSides, nameplates, nameplateSides, messages>>

MailboxSide   == [mailbox : Mailbox, side : Side, opened : BOOLEAN]
Nameplate     == [app : App, name : Name, mailbox : Mailbox]
NameplateSide == [app : App, name : Name, side : Side, claimed : BOOLEAN]
Message       == [app : App, mailbox : Mailbox, id : Msg]

ChannelTypeOK ==
    /\ mailboxes \in [Mailbox -> App \union {None}]
    /\ idle \in [Mailbox -> 0..Expire]
    /\ mailboxSides \subseteq MailboxSide
    /\ nameplates \subseteq Nameplate
    /\ nameplateSides \subseteq NameplateSide
    /\ messages \subseteq Message

ChannelInit ==
    /\ mailboxes = [m \in Mailbox |-> None]
    /\ idle = [m \in Mailbox |-> 0]
    /\ mailboxSides = {}
    /\ nameplates = {}
    /\ nameplateSides = {}
    /\ messages = {}

-----------------------------------------------------------------------------
(* Queries.  An operator whose comment begins "Fault:" is not used: it is    *)
(* the next definition with a plausible mistake in it, for the mutation     *)
(* tests that show which property notices the mistake.                      *)

SidesOf(m)            == {r \in mailboxSides : r.mailbox = m}
MessagesOf(a, m)      == {r.id : r \in {x \in messages : x.app = a /\ x.mailbox = m}}
NameplatesOf(m)       == {n \in nameplates : n.mailbox = m}
NameplateRows(a, n)   == {r \in nameplates : r.app = a /\ r.name = n}
ClaimRows(a, n)       == {r \in nameplateSides : r.app = a /\ r.name = n}
ClaimRowOf(a, n, s)   == {r \in ClaimRows(a, n) : r.side = s}

\* Fault: get_all_apps forgets standalone mailboxes.
AppsWithNameplates ==
    {n.app : n \in nameplates} \union {x.app : x \in messages}

\* Server.get_all_apps: an application exists as long as it has rows.
AppsWithRows ==
    {n.app : n \in nameplates} \union {x.app : x \in messages}
        \union {mailboxes[m] : m \in {k \in Mailbox : mailboxes[k] # None}}

-----------------------------------------------------------------------------
(* Tables as a statement leaves them. *)

\* Fault: opening again adds a second row for a side that closed.
SidesAfterSecondOpen(m, s) ==
    IF [mailbox |-> m, side |-> s, opened |-> TRUE] \in mailboxSides
      THEN mailboxSides
      ELSE mailboxSides \union {[mailbox |-> m, side |-> s, opened |-> TRUE]}

\* Fault: opening again sets `opened` in the row of a side that closed.
SidesAfterUpsert(m, s) ==
    {r \in mailboxSides : r.mailbox # m \/ r.side # s}
        \union {[mailbox |-> m, side |-> s, opened |-> TRUE]}

\* Mailbox.open: a side gets one row per mailbox; an existing row is kept as it is.
SidesAfterOpen(m, s) ==
    IF \E r \in SidesOf(m) : r.side = s
      THEN mailboxSides
      ELSE mailboxSides \union {[mailbox |-> m, side |-> s, opened |-> TRUE]}

\* Fault: the statement forgets the side.
SidesAfterCloseOfAll(m, s) ==
    {IF r.mailbox = m THEN [r EXCEPT !.opened = FALSE] ELSE r : r \in mailboxSides}

\* Mailbox.close: UPDATE mailbox_sides SET opened = False.
SidesAfterClose(m, s) ==
    {IF r.mailbox = m /\ r.side = s THEN [r EXCEPT !.opened = FALSE] ELSE r :
        r \in mailboxSides}

\* Fault: releasing deletes the side's row.
ClaimsAfterForgetting(a, n, s) ==
    {r \in nameplateSides : r.app # a \/ r.name # n \/ r.side # s}

\* AppNamespace.release_nameplate: UPDATE nameplate_sides SET claimed = False.
ClaimsAfterRelease(a, n, s) ==
    {IF r.app = a /\ r.name = n /\ r.side = s THEN [r EXCEPT !.claimed = FALSE] ELSE r :
        r \in nameplateSides}

\* Mailbox.close: DELETE FROM nameplate_sides WHERE side = ?, whatever the nameplate.
ClaimsWithout(s) == {r \in nameplateSides : r.side # s}

\* Fault: the rows of nameplates of that name, of whatever application.
ClaimsWithoutNames(gone) ==
    {r \in nameplateSides : ~ \E n \in gone : n.name = r.name}

\* The rows of a set of nameplates, deleted with them.
ClaimsWithoutNameplates(gone) ==
    {r \in nameplateSides : ~ \E n \in gone : n.app = r.app /\ n.name = r.name}

\* Fault: the messages stay.
DeleteMailboxesOnly(gone) ==
    /\ mailboxes' = [m \in Mailbox |-> IF m \in gone THEN None ELSE mailboxes[m]]
    /\ idle' = [m \in Mailbox |-> IF m \in gone THEN 0 ELSE idle[m]]
    /\ mailboxSides' = {r \in mailboxSides : r.mailbox \notin gone}
    /\ messages' = messages

\* Fault: the messages of all mailboxes go.
DeleteAllMessages(gone) ==
    /\ mailboxes' = [m \in Mailbox |-> IF m \in gone THEN None ELSE mailboxes[m]]
    /\ idle' = [m \in Mailbox |-> IF m \in gone THEN 0 ELSE idle[m]]
    /\ mailboxSides' = {r \in mailboxSides : r.mailbox \notin gone}
    /\ messages' = {}

\* Deleting mailboxes, with their sides and messages.
DeleteMailboxes(gone) ==
    /\ mailboxes' = [m \in Mailbox |-> IF m \in gone THEN None ELSE mailboxes[m]]
    /\ idle' = [m \in Mailbox |-> IF m \in gone THEN 0 ELSE idle[m]]
    /\ mailboxSides' = {r \in mailboxSides : r.mailbox \notin gone}
    /\ messages' = {r \in messages : r.mailbox \notin gone}

\* `mailboxes`.`id` is the primary key of all applications together: an INSERT
\* of an id another application has raises IntegrityError.
IdTaken(a, m) == mailboxes[m] \notin {None, a}

\* open_mailbox up to its commit: the mailbox row, the side row, the new `updated`.
OpenTransaction(a, m, s) ==
    /\ ~IdTaken(a, m)
    /\ mailboxes' = [mailboxes EXCEPT ![m] = a]
    /\ idle' = [idle EXCEPT ![m] = 0]
    /\ mailboxSides' = SidesAfterOpen(m, s)

\* Fault: off by one.
CrowdedByFour(m, s) == Cardinality({r \in SidesAfterOpen(m, s) : r.mailbox = m}) > 3

\* open_mailbox raises CrowdedError for whoever opens a mailbox that has, or
\* just got, a third side.
Crowded(m, s) == Cardinality({r \in SidesAfterOpen(m, s) : r.mailbox = m}) > 2

Touch(ms) == idle' = [m \in Mailbox |-> IF m \in ms THEN 0 ELSE idle[m]]
=============================================================================
