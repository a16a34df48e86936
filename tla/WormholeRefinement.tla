------------------------- MODULE WormholeRefinement -------------------------
(***************************************************************************)
(* The mailbox server as a wormhole: four tables, two layers of objects    *)
(* and the attributes of the connections, seen as pipes, codes and ears.   *)
(***************************************************************************)
EXTENDS MailboxServer

SidesIn(m, isOpen) == {s \in Side : [mailbox |-> m, side |-> s, opened |-> isOpen] \in mailboxSides}

PipeOf(m) ==
    IF mailboxes[m] = None
      THEN None
      ELSE [app      |-> mailboxes[m],
            open     |-> SidesIn(m, TRUE),
            closed   |-> SidesIn(m, FALSE),
            messages |-> MessagesOf(mailboxes[m], m)]

CodeOf(a, n) ==
    IF NameplateRows(a, n) = {} THEN None ELSE (CHOOSE r \in NameplateRows(a, n) : TRUE).mailbox

Listening(c) == \E l \in listeners : l.conn = c

EarOf(c) ==
    IF Listening(c)
      THEN [mailbox |-> conn[c].mailbox.id, side |-> conn[c].side, heard |-> delivered[c]]
      ELSE None

Pipes == [m \in Mailbox |-> PipeOf(m)]
Codes == [p \in App \X Name |-> CodeOf(p[1], p[2])]
Ears  == [c \in Conn |-> EarOf(c)]

W == INSTANCE Wormhole WITH pipe <- Pipes, code <- Codes, ear <- Ears

\* Python's None is no mailbox row and no subscription.
ASSUME WormholeAssumption == None \notin W!Pipe \union W!Ear

\* The server is a wormhole to any clients: no step of any handler, of the pruner, or
\* of a process that dies between two commits, shows up as anything but one of the
\* steps above.  That holds as long as no connection is left with an object that a
\* registry dropped (ObjectsKept, server.py:626 and 180).
ImplementsWormhole == W!Spec
=============================================================================
