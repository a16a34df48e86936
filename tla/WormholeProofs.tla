--------------------------- MODULE WormholeProofs ---------------------------
(***************************************************************************)
(* The mailbox server implements Wormhole, for any number of clients and   *)
(* whatever they send, as long as no connection is left with an object     *)
(* that a registry dropped (ObjectsKept): every step of it is then a step  *)
(* of the abstract specification or changes nothing there.                 *)
(***************************************************************************)
EXTENDS MailboxDeliveryProofs, WormholeRefinement

-----------------------------------------------------------------------------
(* What leaves pipes, codes and ears as they are. *)

LEMMA SamePipes ==
    ASSUME UNCHANGED <<mailboxes, mailboxSides, messages>>
    PROVE  Pipes' = Pipes
BY DEF Pipes, PipeOf, SidesIn, MessagesOf

LEMMA SameCodes ==
    ASSUME nameplates' = nameplates
    PROVE  Codes' = Codes
BY DEF Codes, CodeOf, NameplateRows

\* What a connection that listens is seen by.
EarKept(d) ==
    /\ conn'[d].mailbox = conn[d].mailbox
    /\ conn'[d].side = conn[d].side
    /\ delivered'[d] = delivered[d]

LEMMA SameEars ==
    ASSUME listeners' = listeners, \A l \in listeners : EarKept(l.conn)
    PROVE  Ears' = Ears
BY DEF Ears, EarOf, Listening, EarKept

LEMMA Stutter ==
    ASSUME Pipes' = Pipes, Codes' = Codes, Ears' = Ears
    PROVE  UNCHANGED W!vars
BY DEF W!vars

\* Connections that stop listening.
LEMMA FewerEars ==
    ASSUME NEW gone, listeners' = {l \in listeners : l.conn \notin gone},
           \A l \in listeners' : EarKept(l.conn)
    PROVE  Ears' = [d \in Conn |-> IF d \in gone THEN None ELSE Ears[d]]
<1> SUFFICES ASSUME NEW d \in Conn
             PROVE  EarOf(d)' = IF d \in gone THEN None ELSE EarOf(d)
  BY DEF Ears
<1>1. Listening(d)' <=> Listening(d) /\ d \notin gone
  BY DEF Listening
<1>2. ASSUME Listening(d)' PROVE EarKept(d)
  BY <1>2 DEF Listening
<1> QED BY <1>1, <1>2 DEF EarOf, EarKept

LEMMA HeldApart ==
    ASSUME Typed, Inside, NEW l \in listeners
    PROVE  l.conn \in Conn /\ conn[l.conn].mailbox = l.box /\ l.box # None /\ Bound(l.conn)
<1>1. l.conn \in Conn /\ l.box # None
  BY ObjectAssumption DEF Typed, TypeOK, RegistryTypeOK, Listener
<1> QED BY <1>1 DEF Inside, Connections, ListenerHolds, HeldMailbox

-----------------------------------------------------------------------------
(* Codes. *)

\* A name of an application has one nameplate.
LEMMA CodeIs ==
    ASSUME UniqueRows, NEW r \in nameplates
    PROVE  CodeOf(r.app, r.name) = r.mailbox
<1>1. NameplateRows(r.app, r.name) = {r}
  BY DEF NameplateRows, UniqueRows
<1>2. (CHOOSE q \in {r} : TRUE) = r
  OBVIOUS
<1> QED BY <1>1, <1>2 DEF CodeOf

\* Nameplates go with their mailboxes.
LEMMA CodesGone ==
    ASSUME UniqueRows, NEW gone, nameplates' = {n \in nameplates : n.mailbox \notin gone}
    PROVE  Codes' = [p \in App \X Name |-> IF Codes[p] \in gone THEN None ELSE Codes[p]]
<1> SUFFICES ASSUME NEW p \in App \X Name
             PROVE  CodeOf(p[1], p[2])' =
                        IF CodeOf(p[1], p[2]) \in gone THEN None ELSE CodeOf(p[1], p[2])
  BY DEF Codes
<1> DEFINE a == p[1]
           n == p[2]
<1>1. CASE NameplateRows(a, n) = {}
  <2>1. NameplateRows(a, n)' = {}
    BY <1>1 DEF NameplateRows
  <2> QED BY <1>1, <2>1 DEF CodeOf
<1>2. ASSUME NEW r \in nameplates, r.app = a, r.name = n
      PROVE  CodeOf(a, n)' = IF CodeOf(a, n) \in gone THEN None ELSE CodeOf(a, n)
  <2>1. CodeOf(a, n) = r.mailbox
    BY <1>2, CodeIs
  <2>2. CASE r.mailbox \in gone
    <3>1. NameplateRows(a, n)' = {}
      BY <1>2, <2>2 DEF NameplateRows, UniqueRows
    <3> QED BY <2>1, <2>2, <3>1 DEF CodeOf
  <2>3. CASE r.mailbox \notin gone
    <3>1. NameplateRows(a, n)' = NameplateRows(a, n)
      BY <1>2, <2>3 DEF NameplateRows, UniqueRows
    <3> QED BY <2>1, <2>3, <3>1 DEF CodeOf
  <2> QED BY <2>2, <2>3
<1> QED BY <1>1, <1>2 DEF NameplateRows

LEMMA OneCodeChanges ==
    ASSUME NEW a \in App, NEW n \in Name, NEW v, CodeOf(a, n)' = v,
           \A b \in App, k \in Name : b # a \/ k # n => NameplateRows(b, k)' = NameplateRows(b, k)
    PROVE  Codes' = [Codes EXCEPT ![<<a, n>>] = v]
<1>1. ASSUME NEW b \in App, NEW k \in Name, b # a \/ k # n PROVE CodeOf(b, k)' = CodeOf(b, k)
  <2>1. NameplateRows(b, k)' = NameplateRows(b, k)
    BY <1>1
  <2> QED BY <2>1 DEF CodeOf
<1>2. ASSUME NEW p \in App \X Name
      PROVE  CodeOf(p[1], p[2])' = IF p = <<a, n>> THEN v ELSE CodeOf(p[1], p[2])
  <2>1. p[1] \in App /\ p[2] \in Name /\ p = <<p[1], p[2]>>
    OBVIOUS
  <2>2. CASE p[1] = a /\ p[2] = n
    BY <2>1, <2>2
  <2>3. CASE p[1] # a \/ p[2] # n
    <3>1. p # <<a, n>>
      BY <2>3
    <3> QED BY <1>1, <2>1, <2>3, <3>1
  <2> QED BY <2>2, <2>3
<1> QED BY <1>2 DEF Codes

\* claim_nameplate on a new name.
LEMMA AssignStep ==
    ASSUME Structured, Inside, NEW a \in App, NEW n \in Name, NEW s, NEW m \in Mailbox,
           CreateNameplate(a, n, s, m),
           UNCHANGED <<mailboxSides, messages>>,
           Ears' = Ears
    PROVE  W!Assign(a, n, m)
<1> DEFINE row == [app |-> a, name |-> n, mailbox |-> m]
<1>1. /\ mailboxes[m] = None
      /\ mailboxes' = [mailboxes EXCEPT ![m] = a]
      /\ nameplates' = nameplates \union {row}
      /\ NameplateRows(a, n) = {}
  BY DEF CreateNameplate, FreshMailbox
<1>2. a # None /\ mailboxes'[m] = a
  BY <1>1, NoneAssumption DEF Structured, Typed, TypeOK, ChannelTypeOK
<1>3. Pipes' = [Pipes EXCEPT ![m] = W!EmptyPipe(a)]
  <2>1. SidesIn(m, TRUE) = {} /\ SidesIn(m, FALSE) = {}
    <3>1. \A r \in mailboxSides : r.mailbox # m
      BY <1>1 DEF Structured, ForeignKeys
    <3>2. \A s2, o : [mailbox |-> m, side |-> s2, opened |-> o].mailbox = m
      OBVIOUS
    <3> QED BY <3>1, <3>2 DEF SidesIn
  <2>2. MessagesOf(a, m) = {}
    BY DEF CreateNameplate, FreshMailbox, MessagesOf
  <2>3. PipeOf(m)' = W!EmptyPipe(a)
    BY <1>2, <2>1, <2>2 DEF PipeOf, SidesIn, MessagesOf, W!EmptyPipe
  <2>4. \A k \in Mailbox \ {m} : PipeOf(k)' = PipeOf(k)
    BY <1>1 DEF PipeOf, SidesIn, MessagesOf, Structured, Typed, TypeOK, ChannelTypeOK
  <2> QED BY <2>3, <2>4 DEF Pipes
<1>4. Codes' = [Codes EXCEPT ![<<a, n>>] = m]
  <2>1. NameplateRows(a, n)' = {row}
    BY <1>1 DEF NameplateRows
  <2>2. CodeOf(a, n)' = m
    <3>1. (CHOOSE q \in {row} : TRUE) = row
      OBVIOUS
    <3> QED BY <2>1, <3>1 DEF CodeOf
  <2>3. \A b \in App, k \in Name : b # a \/ k # n => NameplateRows(b, k)' = NameplateRows(b, k)
    BY <1>1 DEF NameplateRows
  <2> QED BY <2>2, <2>3, OneCodeChanges
<1>5. Codes[<<a, n>>] = None /\ Pipes[m] = None
  BY <1>1 DEF Codes, CodeOf, Pipes, PipeOf
<1> QED BY <1>3, <1>4, <1>5 DEF W!Assign

\* release_nameplate's second transaction.
LEMMA UnassignStep ==
    ASSUME Typed, RetireNameplate
    PROVE  \E a \in App, n \in Name : W!Unassign(a, n)
<1>1. task.conn \in Conn /\ task.name \in Name
  BY DEF RetireNameplate, Typed, TypeOK, Task, Idle
<1>2. PICK a \in App, n \in Name : nameplates' = nameplates \ NameplateRows(a, n)
  BY <1>1, BoundType DEF RetireNameplate, Typed, TypeOK, HandlerBound
<1>3. Pipes' = Pipes /\ Ears' = Ears
  BY SamePipes, SameEars DEF RetireNameplate, registry, EarKept
<1>4. Codes' = [Codes EXCEPT ![<<a, n>>] = None]
  <2>1. CodeOf(a, n)' = None
    BY <1>2 DEF NameplateRows, CodeOf
  <2>2. ASSUME NEW b \in App, NEW k \in Name, b # a \/ k # n
        PROVE  NameplateRows(b, k)' = NameplateRows(b, k)
    BY <1>2, <2>2 DEF NameplateRows
  <2> QED BY <2>1, <2>2, OneCodeChanges
<1> QED BY <1>3, <1>4 DEF W!Unassign

-----------------------------------------------------------------------------
(* Pipes. *)

LEMMA OnePipeChanges ==
    ASSUME NEW m \in Mailbox, NEW v, PipeOf(m)' = v,
           \A k \in Mailbox \ {m} : PipeOf(k)' = PipeOf(k)
    PROVE  Pipes' = [Pipes EXCEPT ![m] = v]
BY DEF Pipes

LEMMA PipeRow ==
    ASSUME Typed, NEW m \in Mailbox, mailboxes[m] # None
    PROVE  /\ Pipes[m] = [app      |-> mailboxes[m],
                         open     |-> SidesIn(m, TRUE),
                         closed   |-> SidesIn(m, FALSE),
                         messages |-> MessagesOf(mailboxes[m], m)]
           /\ Pipes[m] # None
<1>1. mailboxes[m] \in App
  BY DEF Typed, TypeOK, ChannelTypeOK
<1>2. SidesIn(m, TRUE) \subseteq Side /\ SidesIn(m, FALSE) \subseteq Side
  BY DEF SidesIn
<1>3. MessagesOf(mailboxes[m], m) \subseteq Msg
  BY DEF MessagesOf, Typed, TypeOK, ChannelTypeOK, Message
<1>4. PipeOf(m) \in W!Pipe
  BY <1>1, <1>2, <1>3 DEF PipeOf, W!Pipe
<1> QED BY <1>4, WormholeAssumption DEF Pipes, PipeOf

\* A mailbox that is not there has neither sides nor messages.
LEMMA NoPipeRows ==
    ASSUME Structured, NoOrphanMessages, NEW a, NEW m \in Mailbox, mailboxes[m] = None
    PROVE  SidesIn(m, TRUE) = {} /\ SidesIn(m, FALSE) = {} /\ MessagesOf(a, m) = {}
<1>1. \A r \in mailboxSides : r.mailbox # m
  BY DEF Structured, ForeignKeys
<1>2. \A s, o : [mailbox |-> m, side |-> s, opened |-> o].mailbox = m
  OBVIOUS
<1>3. \A x \in messages : x.mailbox # m
  BY NoneAssumption DEF NoOrphanMessages, Structured, Typed, TypeOK, ChannelTypeOK, Message
<1> QED BY <1>1, <1>2, <1>3 DEF SidesIn, MessagesOf

PipeBefore(a, m) == IF Pipes[m] = None THEN W!EmptyPipe(a) ELSE Pipes[m]

\* open_mailbox's transaction.
LEMMA PipeOpened ==
    ASSUME Structured, NoOrphanMessages, NEW a \in App, NEW m \in Mailbox, NEW s \in Side,
           OpenTransaction(a, m, s), messages' = messages
    PROVE  /\ Pipes[m] = None \/ Pipes[m].app = a
           /\ Pipes' = [Pipes EXCEPT ![m] = W!Entered(a, m, s)]
           /\ W!Entered(a, m, s) =
                [app      |-> a,
                 open     |-> SidesIn(m, TRUE)',
                 closed   |-> SidesIn(m, FALSE)',
                 messages |-> MessagesOf(a, m)]
<1>1. /\ mailboxes[m] \in {None, a}
      /\ mailboxes' = [mailboxes EXCEPT ![m] = a]
      /\ mailboxSides' = SidesAfterOpen(m, s)
  BY DEF OpenTransaction, IdTaken
<1>2. PipeBefore(a, m) = [app      |-> a,
                          open     |-> SidesIn(m, TRUE),
                          closed   |-> SidesIn(m, FALSE),
                          messages |-> MessagesOf(a, m)]
  <2>1. CASE mailboxes[m] = None
    BY <2>1, NoPipeRows DEF PipeBefore, Pipes, PipeOf, W!EmptyPipe
  <2>2. CASE mailboxes[m] # None
    BY <1>1, <2>2, PipeRow DEF PipeBefore, Structured
  <2> QED BY <2>1, <2>2
<1>3. Pipes[m] = None \/ Pipes[m].app = a
  BY <1>1, PipeRow DEF Pipes, PipeOf, Structured
<1>4. /\ SidesIn(m, FALSE)' = SidesIn(m, FALSE)
      /\ SidesIn(m, TRUE)' = IF s \in SidesIn(m, FALSE) THEN SidesIn(m, TRUE)
                                                        ELSE SidesIn(m, TRUE) \union {s}
  <2>1. \A r \in mailboxSides : r.mailbox = m /\ r.side = s =>
            s \in SidesIn(m, TRUE) \/ s \in SidesIn(m, FALSE)
    <3> SUFFICES ASSUME NEW r \in mailboxSides, r.mailbox = m, r.side = s
                 PROVE  s \in SidesIn(m, TRUE) \/ s \in SidesIn(m, FALSE)
      OBVIOUS
    <3>1. r = [mailbox |-> m, side |-> s, opened |-> r.opened] /\ r.opened \in {TRUE, FALSE}
      BY DEF Structured, Typed, TypeOK, ChannelTypeOK, MailboxSide
    <3> QED BY <3>1 DEF SidesIn
  <2>2. CASE \E r \in SidesOf(m) : r.side = s
    <3>1. mailboxSides' = mailboxSides
      BY <1>1, <2>2 DEF SidesAfterOpen
    <3> QED BY <2>1, <2>2, <3>1 DEF SidesIn, SidesOf
  <2>3. CASE ~ \E r \in SidesOf(m) : r.side = s
    <3> DEFINE row == [mailbox |-> m, side |-> s, opened |-> TRUE]
    <3>1. mailboxSides' = mailboxSides \union {row}
      BY <1>1, <2>3 DEF SidesAfterOpen
    <3>2. s \notin SidesIn(m, FALSE)
      <4>1. [mailbox |-> m, side |-> s, opened |-> FALSE].mailbox = m
            /\ [mailbox |-> m, side |-> s, opened |-> FALSE].side = s
        OBVIOUS
      <4> QED BY <2>3, <4>1 DEF SidesIn, SidesOf
    <3> QED BY <3>1, <3>2 DEF SidesIn
  <2> QED BY <2>2, <2>3
<1>5. W!Entered(a, m, s) =
          [app      |-> a,
           open     |-> SidesIn(m, TRUE)',
           closed   |-> SidesIn(m, FALSE)',
           messages |-> MessagesOf(a, m)]
  <2>1. W!Entered(a, m, s) =
            [app      |-> a,
             open     |-> IF s \in SidesIn(m, FALSE) THEN SidesIn(m, TRUE)
                                                     ELSE SidesIn(m, TRUE) \union {s},
             closed   |-> SidesIn(m, FALSE),
             messages |-> MessagesOf(a, m)]
    <3> DEFINE o == SidesIn(m, TRUE)
               k == SidesIn(m, FALSE)
               x == MessagesOf(a, m)
               p == PipeBefore(a, m)
    <3>1. p = [app |-> a, open |-> o, closed |-> k, messages |-> x]
      BY <1>2
    <3> HIDE DEF o, k, x, p
    <3>2. W!WithEnd(p, s) = [app |-> a, open |-> IF s \in k THEN o ELSE o \union {s},
                             closed |-> k, messages |-> x]
      BY <3>1 DEF W!WithEnd
    <3>3. W!Entered(a, m, s) = W!WithEnd(p, s)
      BY DEF W!Entered, p, PipeBefore
    <3> QED BY <3>2, <3>3 DEF o, k, x
  <2> QED BY <1>4, <2>1
<1>6. mailboxes'[m] = a /\ a # None
  BY <1>1, NoneAssumption DEF Structured, Typed, TypeOK, ChannelTypeOK
<1>7. PipeOf(m)' = W!Entered(a, m, s)
  BY <1>5, <1>6 DEF PipeOf, MessagesOf
<1>8. ASSUME NEW k \in Mailbox \ {m} PROVE PipeOf(k)' = PipeOf(k)
  <2>1. mailboxes'[k] = mailboxes[k]
    BY <1>1, <1>8 DEF Structured, Typed, TypeOK, ChannelTypeOK
  <2>2. \A t \in Side, o \in BOOLEAN :
            [mailbox |-> k, side |-> t, opened |-> o] # [mailbox |-> m, side |-> s, opened |-> TRUE]
    BY <1>8
  <2>3. SidesIn(k, TRUE)' = SidesIn(k, TRUE) /\ SidesIn(k, FALSE)' = SidesIn(k, FALSE)
    BY <1>1, <2>2 DEF SidesIn, SidesAfterOpen
  <2> QED BY <2>1, <2>3 DEF PipeOf, MessagesOf
<1>9. Pipes' = [Pipes EXCEPT ![m] = W!Entered(a, m, s)]
  BY <1>7, <1>8, OnePipeChanges
<1> QED BY <1>3, <1>5, <1>9

\* open_mailbox for a claim, a refused third side, or a close that opens first.
LEMMA JoinStep ==
    ASSUME Structured, NoOrphanMessages, NEW a \in App, NEW m \in Mailbox, NEW s \in Side,
           OpenTransaction(a, m, s), UNCHANGED <<messages, nameplates>>, Ears' = Ears
    PROVE  W!Join(a, m, s)
<1>1. /\ Pipes[m] = None \/ Pipes[m].app = a
      /\ Pipes' = [Pipes EXCEPT ![m] = W!Entered(a, m, s)]
  BY PipeOpened
<1>2. Codes' = Codes
  BY SameCodes
<1>3. m \in DOMAIN Pipes
  BY DEF Pipes
<1> QED BY <1>1, <1>2, <1>3 DEF W!Join

-----------------------------------------------------------------------------
(* Ears. *)

LEMMA EarIs ==
    ASSUME Typed, Inside, NEW l \in listeners
    PROVE  /\ Ears[l.conn] = [mailbox |-> l.box.id,
                             side    |-> conn[l.conn].side,
                             heard   |-> delivered[l.conn]]
           /\ Ears[l.conn] # None
<1> DEFINE c == l.conn
<1>1. c \in Conn /\ conn[c].mailbox = l.box /\ Bound(c) /\ l.box \in Box
  BY HeldApart DEF Typed, TypeOK, RegistryTypeOK, Listener
<1>2. EarOf(c) = [mailbox |-> l.box.id, side |-> conn[c].side, heard |-> delivered[c]]
  BY <1>1 DEF EarOf, Listening
<1>3. l.box.id \in Mailbox /\ conn[c].side \in Side /\ delivered[c] \subseteq Msg
  BY <1>1, BoundType DEF Typed, TypeOK, Box
<1>4. EarOf(c) \in W!Ear
  BY <1>2, <1>3 DEF W!Ear
<1> QED BY <1>1, <1>2, <1>4, WormholeAssumption DEF Ears

\* add_listener: the past at once.
LEMMA SubscribeStep ==
    ASSUME Structured, Inside, IsFiniteSet(Side), NEW c \in Conn, NEW m \in Mailbox, Open(c, m),
           Structured', Inside'
    PROVE  \E a \in App, s \in Side : W!Subscribe(a, m, s, c)
<1>1. PICK a \in App, s \in Side : a = conn[c].app.app /\ s = conn[c].side
  BY BoundType DEF Open, Handling, Structured, Typed, TypeOK
<1>2. /\ conn[c].mailbox = None
      /\ ~Crowded(m, s)
      /\ OpenTransaction(a, m, s)
      /\ delivered' = [delivered EXCEPT ![c] = MessagesOf(a, m)]
      /\ UNCHANGED <<nameplates, messages>>
  BY <1>1 DEF Open, Replay
<1>3. PICK b \in SpawnMailbox(conn[c].app, m, HeldBoxes) :
        /\ listeners' = listeners \union {[conn |-> c, box |-> b]}
        /\ conn' = [conn EXCEPT ![c].mailboxId = m, ![c].mailbox = b]
  BY DEF Open
<1>4. b.id = m
  <2>1. ASSUME NEW used
        PROVE  \A x \in {[ns |-> conn[c].app, id |-> m, gen |-> g] : g \in LeastUnused(used)} :
                  x.id = m
    OBVIOUS
  <2> QED BY <2>1 DEF SpawnMailbox, Registered
<1>5. /\ \A d \in Conn : conn'[d].side = conn[d].side
      /\ conn'[c].mailbox = b
      /\ \A d \in Conn \ {c} : conn'[d].mailbox = conn[d].mailbox
  BY <1>3 DEF Structured, Typed, TypeOK, ConnTypeOK, ConnState
<1> DEFINE p == W!Entered(a, m, s)
<1>6. /\ Pipes[m] = None \/ Pipes[m].app = a
      /\ Pipes' = [Pipes EXCEPT ![m] = p]
      /\ p.open = SidesIn(m, TRUE)' /\ p.closed = SidesIn(m, FALSE)' /\ p.messages = MessagesOf(a, m)
  <2>1. /\ Pipes[m] = None \/ Pipes[m].app = a
        /\ Pipes' = [Pipes EXCEPT ![m] = p]
        /\ p = [app      |-> a,
                open     |-> SidesIn(m, TRUE)',
                closed   |-> SidesIn(m, FALSE)',
                messages |-> MessagesOf(a, m)]
    BY <1>2, PipeOpened DEF Inside, Delivery
  <2> HIDE DEF p
  <2> QED BY <2>1
<1>8. Cardinality(W!Ends(p)) <= 2
  <2> DEFINE rows == SidesOf(m)'
             sides == {r.side : r \in rows}
  <2>1. rows \in SUBSET MailboxSide /\ \A r1, r2 \in rows : r1.side = r2.side => r1 = r2
    BY DEF Structured, Typed, TypeOK, ChannelTypeOK, UniqueRows, SidesOf
  <2>2. ~(Cardinality(rows) > 2)
    BY <1>2 DEF Crowded, OpenTransaction, SidesOf
  <2>3. Cardinality(sides) <= Cardinality(rows) /\ Cardinality(rows) \in Nat /\ IsFiniteSet(sides)
    <3> HIDE DEF rows
    <3> QED BY <2>1, SidesOfRows
  <2>4. W!Ends(p) \subseteq sides
    <3> SUFFICES ASSUME NEW t \in SidesIn(m, TRUE)' \union SidesIn(m, FALSE)' PROVE t \in sides
      BY <1>6 DEF W!Ends
    <3>1. PICK o \in BOOLEAN : [mailbox |-> m, side |-> t, opened |-> o] \in mailboxSides'
      BY DEF SidesIn
    <3> DEFINE row == [mailbox |-> m, side |-> t, opened |-> o]
    <3>2. row \in mailboxSides' /\ row.mailbox = m /\ row.side = t
      BY <3>1
    <3> HIDE DEF row
    <3> QED BY <3>2 DEF SidesOf
  <2> HIDE DEF rows, sides, p
  <2>5. Cardinality(W!Ends(p)) <= Cardinality(sides)
        /\ Cardinality(W!Ends(p)) \in Nat /\ Cardinality(sides) \in Nat
    BY <2>3, <2>4, FS_Subset, FS_CardinalityType
  <2> QED BY <2>2, <2>3, <2>5
<1>9. Ears[c] = None
  BY <1>2, HoldsNothing DEF Ears, EarOf, Listening, Inside, Structured
<1>10. Ears' = [Ears EXCEPT ![c] = [mailbox |-> m, side |-> s, heard |-> p.messages]]
  <2>1. EarOf(c)' = [mailbox |-> m, side |-> s, heard |-> p.messages]
    <3> HIDE DEF p
    <3>1. Listening(c)'
      <4>1. [conn |-> c, box |-> b] \in listeners'
        BY <1>3
      <4> QED BY <4>1 DEF Listening
    <3>2. delivered'[c] = MessagesOf(a, m)
      BY <1>2 DEF Structured, Typed, TypeOK
    <3> QED BY <1>1, <1>4, <1>5, <1>6, <3>1, <3>2 DEF EarOf
  <2>2. ASSUME NEW d \in Conn \ {c} PROVE EarOf(d)' = EarOf(d)
    <3>1. Listening(d)' <=> Listening(d)
      BY <1>3, <2>2 DEF Listening
    <3>2. delivered'[d] = delivered[d]
      BY <1>2, <2>2 DEF Structured, Typed, TypeOK
    <3> QED BY <1>5, <2>2, <3>1, <3>2 DEF EarOf
  <2> HIDE DEF p
  <2> QED BY <2>1, <2>2 DEF Ears
<1>11. Codes' = Codes
  BY <1>2, SameCodes
<1>12. W!Subscribe(a, m, s, c)
  <2>1. W!Cardinality(W!Ends(p)) <= 2
    <3> HIDE DEF p
    <3> QED BY <1>8 DEF W!Cardinality, Cardinality
  <2> QED BY <1>6, <1>9, <1>10, <1>11, <2>1 DEF W!Subscribe
<1> QED BY <1>12

\* broadcast_message: complete delivery before and after leaves no other choice.
LEMMA SendStep ==
    ASSUME Structured, Inside, Inside', NEW c \in Conn, NEW x \in Msg, Add(c, x)
    PROVE  W!Send(c, x)
<1>1. PICK b : b = conn[c].mailbox
  OBVIOUS
<1>2. PICK m, a : m = b.id /\ a = b.ns.app
  OBVIOUS
<1> DEFINE new == [app |-> a, mailbox |-> m, id |-> x]
<1>3. /\ messages' = messages \union {new}
      /\ UNCHANGED <<mailboxes, mailboxSides, nameplates, listeners, conn>>
      /\ task = Idle /\ b # None
  BY <1>1, <1>2 DEF Add, Handling, registry
<1>4. [conn |-> c, box |-> b] \in listeners
  BY <1>1, <1>3 DEF Inside, Connections, HeldMailbox, Closing, Idle
<1>5. \A l \in listeners : /\ l.conn \in Conn /\ l.box.id \in Mailbox
                           /\ mailboxes[l.box.id] = l.box.ns.app /\ l.box.ns.app # None
  BY NoneAssumption DEF Inside, Delivery, ListenerKnown, Structured, Typed, TypeOK,
     RegistryTypeOK, Listener, Box, Namespace
<1>6. m \in Mailbox /\ mailboxes[m] = a /\ a # None
  <2>1. [conn |-> c, box |-> b].box = b
    OBVIOUS
  <2> QED BY <1>2, <1>4, <1>5, <2>1
<1> HIDE DEF new
<1>7. new.app = a /\ new.mailbox = m /\ new.id = x
  BY DEF new
<1>8. MessagesOf(a, m)' = MessagesOf(a, m) \union {x}
  BY <1>3, <1>7 DEF MessagesOf
<1>9. ASSUME NEW e, NEW k, k # m PROVE MessagesOf(e, k)' = MessagesOf(e, k)
  BY <1>3, <1>7, <1>9 DEF MessagesOf
<1>10. Pipes' = [Pipes EXCEPT ![m].messages = @ \union {x}]
  <2>1. PipeOf(m)' = [app |-> a, open |-> SidesIn(m, TRUE), closed |-> SidesIn(m, FALSE),
                      messages |-> MessagesOf(a, m) \union {x}]
    BY <1>3, <1>6, <1>8 DEF PipeOf, SidesIn, MessagesOf
  <2>2. Pipes[m] = [app |-> a, open |-> SidesIn(m, TRUE), closed |-> SidesIn(m, FALSE),
                    messages |-> MessagesOf(a, m)]
    BY <1>6, PipeRow DEF Structured
  <2>3. ASSUME NEW k \in Mailbox \ {m} PROVE PipeOf(k)' = PipeOf(k)
    <3>1. PICK e : e = mailboxes[k]
      OBVIOUS
    <3>2. MessagesOf(e, k)' = MessagesOf(e, k)
      BY <1>9, <2>3
    <3> QED BY <1>3, <3>1, <3>2 DEF PipeOf, SidesIn, MessagesOf
  <2>4. PipeOf(m)' = [Pipes[m] EXCEPT !.messages = @ \union {x}]
    <3> DEFINE o == SidesIn(m, TRUE)
               k == SidesIn(m, FALSE)
               z == MessagesOf(a, m)
    <3>1. /\ Pipes[m] = [app |-> a, open |-> o, closed |-> k, messages |-> z]
          /\ PipeOf(m)' = [app |-> a, open |-> o, closed |-> k, messages |-> z \union {x}]
      BY <2>1, <2>2
    <3> HIDE DEF o, k, z
    <3> QED BY <3>1
  <2>5. Pipes' = [Pipes EXCEPT ![m] = [Pipes[m] EXCEPT !.messages = @ \union {x}]]
    BY <1>6, <2>3, <2>4, OnePipeChanges
  <2>6. m \in DOMAIN Pipes
    BY <1>6 DEF Pipes
  <2> QED BY ONLY <2>5, <2>6
<1>11. Ears[c] # None /\ Ears[c].mailbox = m
  <2>1. PICK l \in listeners : l.conn = c /\ l.box = b
    BY <1>4
  <2>2. /\ Ears[l.conn] # None
        /\ Ears[l.conn] = [mailbox |-> l.box.id, side |-> conn[l.conn].side,
                            heard |-> delivered[l.conn]]
    BY EarIs DEF Structured
  <2>3. Ears[l.conn].mailbox = l.box.id
    BY <2>2
  <2> QED BY <1>2, <2>1, <2>2, <2>3
<1>12. ASSUME NEW d \in Conn
       PROVE  EarOf(d)' = IF W!Hears(d, m) THEN [Ears[d] EXCEPT !.heard = @ \union {x}]
                                           ELSE Ears[d]
  <2>1. CASE ~Listening(d)
    <3>1. Ears[d] = None /\ EarOf(d)' = None
      BY <1>3, <2>1 DEF Ears, EarOf, Listening
    <3> QED BY <3>1 DEF W!Hears
  <2>2. ASSUME NEW l \in listeners, l.conn = d
        PROVE  EarOf(d)' = IF W!Hears(d, m) THEN [Ears[d] EXCEPT !.heard = @ \union {x}]
                                            ELSE Ears[d]
    <3>1. /\ Ears[d] = [mailbox |-> l.box.id, side |-> conn[d].side, heard |-> delivered[d]]
          /\ Ears[d] # None
      BY <2>2, EarIs DEF Structured
    <3>2. EarOf(d)' = [mailbox |-> l.box.id, side |-> conn[d].side, heard |-> delivered'[d]]
      BY <1>3, <2>2, HeldApart DEF EarOf, Listening, Structured
    <3>3. /\ delivered[d] = MessagesOf(l.box.ns.app, l.box.id)
          /\ delivered'[d] = MessagesOf(l.box.ns.app, l.box.id)'
      BY <1>3, <2>2 DEF Inside, Delivery, CompleteDelivery
    <3>4. CASE l.box.id = m
      <4>1. l.box.ns.app = a
        BY <1>5, <1>6, <3>4
      <4>2. delivered'[d] = delivered[d] \union {x}
        BY <1>8, <3>3, <3>4, <4>1 DEF MessagesOf
      <4> QED BY <3>1, <3>2, <3>4, <4>2 DEF W!Hears
    <3>5. CASE l.box.id # m
      <4>1. delivered'[d] = delivered[d]
        BY <1>9, <3>3, <3>5
      <4> QED BY <3>1, <3>2, <3>5, <4>1 DEF W!Hears
    <3> QED BY <3>4, <3>5
  <2> QED BY <2>1, <2>2 DEF Listening
<1>13. Ears' = [d \in Conn |-> IF W!Hears(d, m) THEN [Ears[d] EXCEPT !.heard = @ \union {x}]
                                               ELSE Ears[d]]
  BY <1>12 DEF Ears
<1>14. Codes' = Codes
  BY <1>3, SameCodes
<1> QED BY <1>10, <1>11, <1>13, <1>14 DEF W!Send

LEMMA UnsubscribeStep ==
    ASSUME NEW cs \in SUBSET Conn, listeners' = {l \in listeners : l.conn \notin cs},
           \A l \in listeners' : EarKept(l.conn), Pipes' = Pipes, Codes' = Codes
    PROVE  W!Unsubscribe(cs)
<1>1. Ears' = [d \in Conn |-> IF d \in cs THEN None ELSE Ears[d]]
  BY FewerEars
<1> QED BY <1>1 DEF W!Unsubscribe

\* onClose, whatever it is called for.
LEMMA DisconnectUnsubscribes ==
    ASSUME Typed, NEW c \in Conn, Disconnect(c),
           UNCHANGED <<mailboxes, mailboxSides, nameplates, messages>>
    PROVE  W!Unsubscribe({c})
<1>1. listeners' = {l \in listeners : l.conn \notin {c}}
  BY DEF Disconnect, WithoutListener
<1>2. ASSUME NEW l \in listeners' PROVE EarKept(l.conn)
  <2>1. l.conn \in Conn /\ l.conn # c
    BY <1>1 DEF Typed, TypeOK, RegistryTypeOK, Listener
  <2> QED BY <2>1 DEF Disconnect, Forget, EarKept, Typed, TypeOK, ConnTypeOK
<1>3. Pipes' = Pipes /\ Codes' = Codes
  BY SamePipes, SameCodes
<1> QED BY <1>1, <1>2, <1>3, UnsubscribeStep

LEMMA LostSteps ==
    ASSUME Typed, NEW c \in Conn,
           Lost(c) \/ AllocateFails(c) \/ \E m \in Mailbox : OpenFails(c, m) \/ CloseHeld(c, m)
    PROVE  W!Unsubscribe({c})
<1>1. CASE Lost(c) \/ AllocateFails(c) \/ \E m \in Mailbox : OpenFails(c, m)
  BY <1>1, DisconnectUnsubscribes DEF Lost, AllocateFails, OpenFails, channelDB
<1>2. ASSUME NEW m \in Mailbox, CloseHeld(c, m) PROVE W!Unsubscribe({c})
  <2>1. /\ listeners' = {l \in listeners : l.conn \notin {c}}
        /\ UNCHANGED <<mailboxes, mailboxSides, nameplates, messages>>
    BY <1>2 DEF CloseHeld, WithoutListener, channelDB
  <2>2. ASSUME NEW l \in listeners' PROVE EarKept(l.conn)
    <3>1. l.conn \in Conn /\ l.conn # c
      BY <2>1 DEF Typed, TypeOK, RegistryTypeOK, Listener
    <3> QED BY <1>2, <3>1 DEF CloseHeld, Forget, EarKept, Typed, TypeOK, ConnTypeOK
  <2>3. Pipes' = Pipes /\ Codes' = Codes
    BY <2>1, SamePipes, SameCodes
  <2> QED BY <2>1, <2>2, <2>3, UnsubscribeStep
<1> QED BY <1>1, <1>2

LEMMA DeleteFailsUnsubscribes ==
    ASSUME Typed, DeleteFails
    PROVE  \E cs \in SUBSET Conn : W!Unsubscribe(cs)
<1>1. task.conn \in Conn
  BY DEF DeleteFails, Typed, TypeOK, Task, Idle
<1>2. W!Unsubscribe({task.conn})
  <2>1. PICK c \in Conn : c = task.conn
    BY <1>1
  <2>2. W!Unsubscribe({c})
    BY <2>1, DisconnectUnsubscribes DEF DeleteFails
  <2> QED BY <2>1, <2>2
<1> QED BY <1>1, <1>2

LEMMA RestartUnsubscribes ==
    ASSUME Typed, Restart
    PROVE  W!Unsubscribe(Conn)
<1>1. listeners' = {l \in listeners : l.conn \notin Conn} /\ \A l \in listeners' : EarKept(l.conn)
  BY DEF Restart, Typed, TypeOK, RegistryTypeOK, Listener
<1>2. Pipes' = Pipes /\ Codes' = Codes
  BY SamePipes, SameCodes DEF Restart, channelDB
<1> QED BY <1>1, <1>2, UnsubscribeStep

\* What claims, nameplates, time and the pruner's first half leave alone.
LEMMA AsideStutters ==
    ASSUME UNCHANGED <<mailboxes, mailboxSides, messages, nameplates, listeners>>,
           \A l \in listeners : EarKept(l.conn)
    PROVE  UNCHANGED W!vars
BY SamePipes, SameCodes, SameEars, Stutter

LEMMA RowUpdate ==
    ASSUME NEW m, NEW s, NEW o, NEW k
    PROVE  [[mailbox |-> m, side |-> s, opened |-> o] EXCEPT !.opened = k]
              = [mailbox |-> m, side |-> s, opened |-> k]
OBVIOUS

\* Mailbox.close, first transaction.
LEMMA LeaveStep ==
    ASSUME Structured, Inside, CloseSide
    PROVE  UNCHANGED W!vars \/ \E m \in Mailbox, s \in Side : W!Leave(m, s)
<1>1. PICK c \in Conn, b \in Box : c = task.conn /\ b = task.box /\ task.op = "close"
  BY DEF CloseSide, Structured, Typed, TypeOK, Task, Idle
<1>2. /\ Bound(c) /\ conn[c].mailbox = b /\ b # None /\ b.ns = conn[c].app
      /\ Closing(c)
  BY <1>1, ObjectAssumption DEF Inside, Connections, CloserHolds, HeldMailbox, Closing
<1>3. PICK s \in Side, m \in Mailbox, a \in App :
        s = conn[c].side /\ m = b.id /\ a = b.ns.app /\ a = conn[c].app.app
  BY <1>2, BoundType DEF Structured, Typed, TypeOK, Box
<1>4. /\ UNCHANGED <<mailboxes, messages, nameplates, listeners, delivered>>
      /\ mailboxSides' = mailboxSides
           \/ (mailboxes[m] = a /\ mailboxSides' = SidesAfterClose(m, s))
      /\ \A d \in Conn \ {c} : conn'[d] = conn[d]
  <2>1. UNCHANGED <<mailboxes, messages, nameplates, listeners, delivered>>
    BY DEF CloseSide, registry
  <2>2. mailboxSides' = IF NothingToClose(b, s) THEN mailboxSides ELSE SidesAfterClose(m, s)
    BY <1>1, <1>3 DEF CloseSide
  <2>3. conn' = conn \/ conn' = [conn EXCEPT ![c].mailbox = None]
    BY <1>1 DEF CloseSide
  <2>4. \A d \in Conn \ {c} : conn'[d] = conn[d]
    BY <2>3 DEF Structured, Typed, TypeOK, ConnTypeOK
  <2>5. mailboxSides' = mailboxSides \/ (mailboxes[m] = a /\ mailboxSides' = SidesAfterClose(m, s))
    <3>1. NothingToClose(b, s) \/ mailboxes[m] = a
      BY <1>3 DEF NothingToClose
    <3> QED BY <2>2, <3>1
  <2> QED BY <2>1, <2>4, <2>5
<1>5. \A l \in listeners : EarKept(l.conn)
  <2>1. \A l \in listeners : l.conn # c /\ l.conn \in Conn
    BY <1>2, HeldApart DEF Inside, Connections, ListenerHolds, Structured
  <2> QED BY <1>4, <2>1 DEF EarKept
<1>6. CASE mailboxSides' = mailboxSides
  BY <1>4, <1>5, <1>6, AsideStutters
<1>7. CASE mailboxSides' # mailboxSides
  <2>1. mailboxes[m] = a /\ mailboxSides' = SidesAfterClose(m, s)
    BY <1>4, <1>7
  <2> DEFINE row == [mailbox |-> m, side |-> s, opened |-> TRUE]
             shut == [mailbox |-> m, side |-> s, opened |-> FALSE]
  <2>2. \A r \in mailboxSides : r.mailbox = m /\ r.side = s => r \in {row, shut}
    BY DEF Structured, Typed, TypeOK, ChannelTypeOK, MailboxSide
  <2>3. /\ row.opened = TRUE /\ shut.opened = FALSE
        /\ row.mailbox = m /\ row.side = s /\ shut.mailbox = m /\ shut.side = s
        /\ [row EXCEPT !.opened = FALSE] = shut /\ [shut EXCEPT !.opened = FALSE] = shut
    <3>1. row.opened = TRUE
      OBVIOUS
    <3>2. shut.opened = FALSE
      OBVIOUS
    <3>3. row.mailbox = m /\ row.side = s /\ shut.mailbox = m /\ shut.side = s
      OBVIOUS
    <3>4. [row EXCEPT !.opened = FALSE] = shut
      BY RowUpdate
    <3>5. [shut EXCEPT !.opened = FALSE] = shut
      BY RowUpdate
    <3> QED BY <3>1, <3>2, <3>3, <3>4, <3>5
  <2>4. row \in mailboxSides
    <3> HIDE DEF row, shut
    <3> SUFFICES ASSUME row \notin mailboxSides PROVE FALSE
      OBVIOUS
    <3>1. \A r \in mailboxSides : r.mailbox = m /\ r.side = s => r = [r EXCEPT !.opened = FALSE]
      BY <2>2, <2>3
    <3>2. SidesAfterClose(m, s) = mailboxSides
      BY <3>1 DEF SidesAfterClose
    <3> QED BY <1>7, <2>1, <3>2
  <2>5. mailboxSides' = (mailboxSides \ {row}) \union {shut}
    <3> HIDE DEF row, shut
    <3>1. \A r \in mailboxSides :
              (IF r.mailbox = m /\ r.side = s THEN [r EXCEPT !.opened = FALSE] ELSE r)
                 = IF r \in {row, shut} THEN shut ELSE r
      BY <2>2, <2>3
    <3>2. row \in mailboxSides /\ mailboxSides' = SidesAfterClose(m, s)
      BY <2>1, <2>4
    <3>3. row # shut
      BY <2>3
    <3>4. mailboxSides' = {IF r \in {row, shut} THEN shut ELSE r : r \in mailboxSides}
      BY <3>1, <3>2 DEF SidesAfterClose
    <3> QED BY <3>1, <3>2, <3>3, <3>4
  <2>6. /\ SidesIn(m, TRUE)' = SidesIn(m, TRUE) \ {s}
        /\ SidesIn(m, FALSE)' = SidesIn(m, FALSE) \union {s}
        /\ s \in SidesIn(m, TRUE)
    BY <2>4, <2>5 DEF SidesIn
  <2>7. a # None
    BY NoneAssumption
  <2>8. PipeOf(m)' = W!WithoutEnd(Pipes[m], s)
    <3> DEFINE o == SidesIn(m, TRUE)
               k == SidesIn(m, FALSE)
               z == MessagesOf(a, m)
    <3>1. Pipes[m] = [app |-> a, open |-> o, closed |-> k, messages |-> z]
      BY <2>1, <2>7, PipeRow DEF Structured
    <3>2. PipeOf(m)' = [app |-> a, open |-> o \ {s}, closed |-> k \union {s}, messages |-> z]
      BY <1>4, <2>1, <2>6, <2>7 DEF PipeOf, MessagesOf
    <3> HIDE DEF o, k, z
    <3>3. Pipes[m].app = a /\ Pipes[m].open = o /\ Pipes[m].closed = k /\ Pipes[m].messages = z
      BY <3>1
    <3> QED BY <3>2, <3>3 DEF W!WithoutEnd
  <2>9. ASSUME NEW k \in Mailbox \ {m} PROVE PipeOf(k)' = PipeOf(k)
    <3>1. ASSUME NEW t, NEW o
          PROVE  [mailbox |-> k, side |-> t, opened |-> o] \notin {row, shut}
      BY <2>9
    <3>2. SidesIn(k, TRUE)' = SidesIn(k, TRUE) /\ SidesIn(k, FALSE)' = SidesIn(k, FALSE)
      <4> HIDE DEF row, shut
      <4> QED BY <2>5, <3>1 DEF SidesIn
    <3> QED BY <1>4, <3>2 DEF PipeOf, MessagesOf
  <2>10. Pipes' = [Pipes EXCEPT ![m] = W!WithoutEnd(Pipes[m], s)]
    BY <2>8, <2>9, OnePipeChanges
  <2>11. Pipes[m] # None /\ s \in Pipes[m].open
    <3>1. /\ Pipes[m] = [app      |-> mailboxes[m],
                         open     |-> SidesIn(m, TRUE),
                         closed   |-> SidesIn(m, FALSE),
                         messages |-> MessagesOf(mailboxes[m], m)]
          /\ Pipes[m] # None
      BY <2>1, <2>7, PipeRow DEF Structured
    <3>2. Pipes[m].open = SidesIn(m, TRUE)
      BY <3>1
    <3> QED BY <2>6, <3>1, <3>2
  <2>12. Codes' = Codes /\ Ears' = Ears
    BY <1>4, <1>5, SameCodes, SameEars
  <2>13. m \in DOMAIN Pipes
    BY DEF Pipes
  <2> QED BY <2>10, <2>11, <2>12, <2>13 DEF W!Leave
<1> QED BY <1>6, <1>7

\* Mailboxes are deleted with all that refers to them.
LEMMA VanishStep ==
    ASSUME Structured, Inside, NEW gone \in SUBSET Mailbox, DeleteMailboxes(gone),
           nameplates' = {n \in nameplates : n.mailbox \notin gone},
           listeners' = listeners, \A l \in listeners : EarKept(l.conn),
           \A l \in listeners : l.box.id \notin gone
    PROVE  W!Vanish(gone)
<1>1. ASSUME NEW d \in Conn, NEW m \in gone PROVE ~W!Hears(d, m)
  <2> SUFFICES ASSUME W!Hears(d, m) PROVE FALSE
    OBVIOUS
  <2>1. PICK l \in listeners : l.conn = d
    BY DEF W!Hears, Ears, EarOf, Listening
  <2>2. Ears[d] = [mailbox |-> l.box.id, side |-> conn[d].side, heard |-> delivered[d]]
    BY <2>1, EarIs DEF Structured
  <2>3. l.box.id = m
    BY <2>2 DEF W!Hears
  <2> QED BY <2>3
<1>2. ASSUME NEW m \in Mailbox PROVE PipeOf(m)' = IF m \in gone THEN None ELSE PipeOf(m)
  <2>1. CASE m \in gone
    BY <2>1 DEF DeleteMailboxes, PipeOf
  <2>2. CASE m \notin gone
    <3>1. mailboxes'[m] = mailboxes[m]
      BY <2>2 DEF DeleteMailboxes
    <3>2. ASSUME NEW o PROVE SidesIn(m, o)' = SidesIn(m, o)
      <4>1. ASSUME NEW t PROVE [mailbox |-> m, side |-> t, opened |-> o].mailbox = m
        OBVIOUS
      <4> QED BY <2>2, <4>1 DEF DeleteMailboxes, SidesIn
    <3>3. ASSUME NEW a PROVE MessagesOf(a, m)' = MessagesOf(a, m)
      BY <2>2 DEF DeleteMailboxes, MessagesOf
    <3>4. PICK a : a = mailboxes[m]
      OBVIOUS
    <3>5. MessagesOf(a, m)' = MessagesOf(a, m)
      BY <3>3
    <3>6. SidesIn(m, TRUE)' = SidesIn(m, TRUE) /\ SidesIn(m, FALSE)' = SidesIn(m, FALSE)
      BY <3>2
    <3> QED BY <2>2, <3>1, <3>4, <3>5, <3>6 DEF PipeOf, MessagesOf
  <2> QED BY <2>1, <2>2
<1>3. Pipes' = [m \in Mailbox |-> IF m \in gone THEN None ELSE Pipes[m]]
  BY <1>2 DEF Pipes
<1>4. Codes' = [p \in App \X Name |-> IF Codes[p] \in gone THEN None ELSE Codes[p]]
  BY CodesGone DEF Structured
<1>5. Ears' = Ears
  BY SameEars
<1> QED BY <1>1, <1>3, <1>4, <1>5 DEF W!Vanish

-----------------------------------------------------------------------------
(* The whole next-state relation. *)

\* A claim of a nameplate that exists, a refused claim, a release.
LEMMA ClaimStutters ==
    ASSUME Typed, NEW c \in Conn, NEW n \in Name,
           \/ Claim(c, n) /\ nameplates' = nameplates /\ mailboxes' = mailboxes
           \/ ClaimRefused(c, n)
           \/ Release(c, n)
    PROVE  UNCHANGED W!vars
<1>1. UNCHANGED <<mailboxes, mailboxSides, messages, nameplates, listeners, delivered>>
  BY DEF Claim, ClaimRefused, Release, channelDB, registry
<1>2. \A d \in Conn : conn'[d].mailbox = conn[d].mailbox /\ conn'[d].side = conn[d].side
  BY DEF Claim, ClaimRefused, Release, Typed, TypeOK, ConnTypeOK, ConnState
<1>3. \A l \in listeners : EarKept(l.conn)
  BY <1>1, <1>2 DEF EarKept, Typed, TypeOK, RegistryTypeOK, Listener
<1> QED BY <1>1, <1>3, AsideStutters

\* A nameplate that did not exist, by allocate or by claim.
LEMMA CreateAssigns ==
    ASSUME Structured, Inside, NEW c \in Conn, NEW n \in Name, NEW m \in Mailbox,
           Handling(c), CreateNameplate(conn[c].app.app, n, conn[c].side, m),
           UNCHANGED <<mailboxSides, messages, listeners, delivered>>,
           \A d \in Conn : conn'[d].mailbox = conn[d].mailbox /\ conn'[d].side = conn[d].side
    PROVE  \E a \in App : W!Assign(a, n, m)
<1>1. PICK a \in App, s \in Side : a = conn[c].app.app /\ s = conn[c].side
  BY BoundType DEF Handling, Structured, Typed, TypeOK
<1>2. \A l \in listeners : EarKept(l.conn)
  BY DEF EarKept, Structured, Typed, TypeOK, RegistryTypeOK, Listener
<1>3. Ears' = Ears
  BY <1>2, SameEars
<1> QED BY <1>1, <1>3, AssignStep

\* open_mailbox where nobody subscribes.
LEMMA OpenedJoins ==
    ASSUME Structured, Inside, NEW c \in Conn, NEW m \in Mailbox, Bound(c),
           OpenTransaction(conn[c].app.app, m, conn[c].side),
           UNCHANGED <<nameplates, messages, listeners, delivered>>,
           \A d \in Conn : conn[d].mailbox # None => conn'[d].mailbox = conn[d].mailbox,
           \A d \in Conn : conn'[d].side = conn[d].side
    PROVE  \E a \in App, s \in Side : W!Join(a, m, s)
<1>1. PICK a \in App, s \in Side : a = conn[c].app.app /\ s = conn[c].side
  BY BoundType DEF Structured, Typed, TypeOK
<1>2. \A l \in listeners : EarKept(l.conn)
  BY HeldApart DEF EarKept, Structured
<1>3. Ears' = Ears
  BY <1>2, SameEars
<1> QED BY <1>1, <1>3, JoinStep DEF Inside, Delivery

WormholeStep == W!Next \/ UNCHANGED W!vars

LEMMA CommandRefines ==
    ASSUME Structured, Inside, IsFiniteSet(Side), Structured', Inside',
           NEW c \in Conn, Command(c)
    PROVE  WormholeStep
<1>1. ASSUME NEW a \in App, NEW s \in Side, Bind(c, a, s) PROVE WormholeStep
  <2>1. \A l \in listeners : l.conn # c /\ l.conn \in Conn
    BY <1>1, HeldApart DEF Bind, Structured
  <2>2. \A d \in Conn \ {c} : conn'[d] = conn[d]
    BY <1>1 DEF Bind, Structured, Typed, TypeOK, ConnTypeOK
  <2>3. UNCHANGED <<mailboxes, mailboxSides, messages, nameplates, listeners, delivered>>
    BY <1>1 DEF Bind, channelDB
  <2>4. \A l \in listeners : EarKept(l.conn)
    BY <2>1, <2>2, <2>3 DEF EarKept
  <2> QED BY <2>3, <2>4, AsideStutters DEF WormholeStep
<1>2. ASSUME Allocate(c) PROVE WormholeStep
  <2>1. PICK n \in Name, m \in Mailbox : CreateNameplate(conn[c].app.app, n, conn[c].side, m)
    BY <1>2 DEF Allocate
  <2>2. \E a \in App : W!Assign(a, n, m)
    BY <1>2, <2>1, CreateAssigns DEF Allocate, registry
  <2> QED BY <2>2 DEF WormholeStep, W!Next
<1>3. ASSUME NEW n \in Name, Claim(c, n) PROVE WormholeStep
  <2>1. CASE nameplates' = nameplates /\ mailboxes' = mailboxes
    BY <1>3, <2>1, ClaimStutters DEF WormholeStep, Structured
  <2>2. ASSUME NEW m \in Mailbox, CreateNameplate(conn[c].app.app, n, conn[c].side, m)
        PROVE  WormholeStep
    <3>1. \A d \in Conn : conn'[d].mailbox = conn[d].mailbox /\ conn'[d].side = conn[d].side
      BY <1>3 DEF Claim, Structured, Typed, TypeOK, ConnTypeOK, ConnState
    <3>2. \E a \in App : W!Assign(a, n, m)
      BY <1>3, <2>2, <3>1, CreateAssigns DEF Claim, registry
    <3> QED BY <3>2 DEF WormholeStep, W!Next
  <2> QED BY <1>3, <2>1, <2>2 DEF Claim, JoinNameplate
<1>4. ASSUME NEW n \in Name, ClaimRefused(c, n) \/ Release(c, n) PROVE WormholeStep
  BY <1>4, ClaimStutters DEF WormholeStep, Structured
<1>5. ASSUME NEW m \in Mailbox, Open(c, m) PROVE WormholeStep
  BY <1>5, SubscribeStep DEF WormholeStep, W!Next
<1>6. ASSUME NEW m \in Mailbox, OpenCrowded(c, m) \/ CloseUnheld(c, m) \/ CloseCrowded(c, m)
      PROVE  WormholeStep
  <2>1. /\ Bound(c)
        /\ OpenTransaction(conn[c].app.app, m, conn[c].side)
        /\ UNCHANGED <<nameplates, messages, listeners, delivered>>
        /\ conn[c].mailbox = None
    BY <1>6 DEF OpenCrowded, CloseUnheld, CloseCrowded, MayClose, Handling
  <2>2. /\ \A d \in Conn : conn[d].mailbox # None => conn'[d].mailbox = conn[d].mailbox
        /\ \A d \in Conn : conn'[d].side = conn[d].side
    BY <1>6, <2>1 DEF OpenCrowded, CloseUnheld, CloseCrowded, Structured, Typed, TypeOK,
       ConnTypeOK, ConnState
  <2>3. \E a \in App, s \in Side : W!Join(a, m, s)
    BY <2>1, <2>2, OpenedJoins
  <2> QED BY <2>3 DEF WormholeStep, W!Next
<1>7. ASSUME NEW x \in Msg, Add(c, x) PROVE WormholeStep
  BY <1>7, SendStep DEF WormholeStep, W!Next
<1>8. ASSUME Lost(c) \/ AllocateFails(c) \/ \E m \in Mailbox : OpenFails(c, m) \/ CloseHeld(c, m)
      PROVE  WormholeStep
  <2>1. W!Unsubscribe({c}) /\ {c} \in SUBSET Conn
    BY <1>8, LostSteps DEF Structured
  <2> QED BY <2>1 DEF WormholeStep, W!Next
<1> QED BY <1>1, <1>2, <1>3, <1>4, <1>5, <1>6, <1>7, <1>8 DEF Command

LEMMA ContinueRefines ==
    ASSUME Structured, HandlerReady, Inside, ObjectsKept', Continue
    PROVE  WormholeStep
<1>1. CASE OpenClaimed
  <2>1. PICK c \in Conn, m \in Mailbox : c = task.conn /\ m = task.mailbox /\ Bound(c)
    BY <1>1 DEF OpenClaimed, Structured, Typed, TypeOK, Task, Idle, HandlerBound
  <2>2. /\ OpenTransaction(conn[c].app.app, m, conn[c].side)
        /\ UNCHANGED <<nameplates, messages, listeners, delivered>>
        /\ conn' = [conn EXCEPT ![c].didAllocate = @ \/ task.op = "allocate"]
    BY <1>1, <2>1 DEF OpenClaimed
  <2>3. /\ \A d \in Conn : conn[d].mailbox # None => conn'[d].mailbox = conn[d].mailbox
        /\ \A d \in Conn : conn'[d].side = conn[d].side
    BY <2>2 DEF Structured, Typed, TypeOK, ConnTypeOK, ConnState
  <2>4. \E a \in App, s \in Side : W!Join(a, m, s)
    BY <2>1, <2>2, <2>3, OpenedJoins
  <2> QED BY <2>4 DEF WormholeStep, W!Next
<1>2. CASE RetireNameplate
  BY <1>2, UnassignStep DEF WormholeStep, W!Next, Structured
<1>3. CASE CloseSide
  BY <1>3, LeaveStep DEF WormholeStep, W!Next
<1>4. CASE DeleteMailbox
  <2>1. PICK c \in Conn, b \in Box : c = task.conn /\ b = task.box /\ task.op = "delete"
    BY <1>4 DEF DeleteMailbox, Structured, Typed, TypeOK, Task, Idle
  <2>2. PICK m \in Mailbox : m = b.id
    BY DEF Box
  <2>3. \A l \in listeners : l.box.id # m /\ l.conn # c /\ l.conn \in Conn
    BY <1>4, <2>1, <2>2, HeldApart, ClosedUnheard
       DEF Inside, Connections, ListenerHolds, Closing, Structured, HandlerReady
  <2>4. ListeningTo(b) = {}
    BY <2>2, <2>3 DEF ListeningTo
  <2>5. /\ DeleteMailboxes({m})
        /\ nameplates' = {n \in nameplates : n.mailbox \notin {m}}
    BY <1>4, <2>1, <2>2 DEF DeleteMailbox, NameplatesOf
  <2>6. listeners' = listeners
    BY <1>4, <2>1, <2>2, <2>3 DEF DeleteMailbox, StopListeners
  <2>7. \A d \in Conn \ {c} : conn'[d] = conn[d] /\ delivered'[d] = delivered[d]
    BY <1>4, <2>1, <2>4 DEF DeleteMailbox, Forget, Structured, Typed, TypeOK, ConnTypeOK
  <2>8. \A l \in listeners : EarKept(l.conn)
    BY <2>3, <2>7 DEF EarKept
  <2>9. W!Vanish({m})
    BY <2>3, <2>5, <2>6, <2>8, VanishStep
  <2> QED BY <2>9 DEF WormholeStep, W!Next
<1>5. CASE DeleteFails
  BY <1>5, DeleteFailsUnsubscribes DEF WormholeStep, W!Next, Structured
<1>6. CASE PruneTouch
  <2>1. UNCHANGED <<mailboxes, mailboxSides, messages, nameplates, listeners, conn, delivered>>
    BY <1>6 DEF PruneTouch
  <2> QED BY <2>1, AsideStutters DEF WormholeStep, EarKept
<1>7. CASE PruneDelete
  <2> DEFINE gone == OldMailboxes(task.ns.app)
  <2>1. /\ DeleteMailboxes(gone)
        /\ UNCHANGED <<listeners, conn, delivered>>
        /\ nameplates' = nameplates \ OldNameplates(task.ns.app)
        /\ task.op = "expire"
    BY <1>7 DEF PruneDelete
  <2>2. OldNameplates(task.ns.app) = {n \in nameplates : n.mailbox \in gone}
    BY DEF OldNameplates, OldMailboxes, Structured, ForeignKeys
  <2>3. nameplates' = {n \in nameplates : n.mailbox \notin gone}
    BY <2>1, <2>2
  <2>4. gone \in SUBSET Mailbox
    BY DEF OldMailboxes
  <2>5. \A l \in listeners : l.box.id \notin gone
    BY <2>1, OldUnheard DEF HandlerReady
  <2>6. \A l \in listeners : EarKept(l.conn)
    BY <2>1 DEF EarKept
  <2> HIDE DEF gone
  <2>7. W!Vanish(gone)
    BY <2>1, <2>3, <2>4, <2>5, <2>6, VanishStep
  <2> QED BY <2>4, <2>7 DEF WormholeStep, W!Next
<1> QED BY <1>1, <1>2, <1>3, <1>4, <1>5, <1>6, <1>7 DEF Continue

LEMMA StepRefines ==
    ASSUME Structured, HandlerReady, Inside, IsFiniteSet(Side), Structured', Inside', [Next]_vars
    PROVE  WormholeStep
<1>1. ASSUME NEW c \in Conn, Command(c) PROVE WormholeStep
  BY <1>1, CommandRefines
<1>2. CASE Continue
  BY <1>2, ContinueRefines DEF Inside, Objects
<1>3. CASE StartPrune \/ Tick \/ UNCHANGED vars
  <2>1. UNCHANGED <<mailboxes, mailboxSides, messages, nameplates, listeners, conn, delivered>>
    BY <1>3 DEF StartPrune, Tick, vars, channelDB, registry
  <2> QED BY <2>1, AsideStutters DEF WormholeStep, EarKept
<1>4. CASE Restart
  <2>1. W!Unsubscribe(Conn)
    BY <1>4, RestartUnsubscribes DEF Structured
  <2> QED BY <2>1 DEF WormholeStep, W!Next
<1> QED BY <1>1, <1>2, <1>3, <1>4 DEF Next

LEMMA InitRefines == Init => W!Init
<1> SUFFICES ASSUME Init PROVE W!Init
  OBVIOUS
<1>1. Pipes = [m \in Mailbox |-> None]
  BY DEF Init, ChannelInit, Pipes, PipeOf
<1>2. Codes = [p \in App \X Name |-> None]
  BY DEF Init, ChannelInit, Codes, CodeOf, NameplateRows
<1>3. Ears = [c \in Conn |-> None]
  BY DEF Init, RegistryInit, Ears, EarOf, Listening
<1> QED BY <1>1, <1>2, <1>3 DEF W!Init

\* No client can tell the server from a wormhole as long as no connection holds an
\* object that its registry dropped: whatever the clients send, lost and overlapping
\* connections, reopenings, pruning and restarts included, a behaviour of the server
\* is one of the abstract specification.
THEOREM ServerIsAWormhole ==
    ASSUME IsFiniteSet(Side)
    PROVE  Spec /\ []ObjectsKept => ImplementsWormhole
<1>1. Structured /\ HandlerReady /\ Inside /\ [Next]_vars /\ Structured' /\ Inside'
        => [W!Next]_(W!vars)
  BY StepRefines DEF WormholeStep
<1> QED BY <1>1, InitRefines, SpecInside, SpecStructured, PTL DEF Spec, W!Spec, ImplementsWormhole

\* Clients that open no second connection and reopen nothing meet a wormhole as long
\* as the timer drops no namespace under a connection bound to it.
THEOREM ProtocolClientsMeetAWormhole ==
    ASSUME Protocol, IsFiniteSet(Side)
    PROVE  Spec /\ []NamespacesKept => ImplementsWormhole
<1> QED BY OnlyTheTimerDrops, ServerIsAWormhole, PTL
=============================================================================
