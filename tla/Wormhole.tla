------------------------------ MODULE Wormhole ------------------------------
(***************************************************************************)
(* What the mailbox server promises to its clients, without databases,     *)
(* objects, tasks or a pruner.  A code names a pipe.  A pipe has at most   *)
(* two ends that hear it; whatever is sent into it is heard by every       *)
(* subscriber, the past included; it does not go while anybody is          *)
(* subscribed, and takes its codes with it.  The server keeps this as long *)
(* as no connection holds an object that its registry dropped.             *)
(***************************************************************************)
EXTENDS Naturals, FiniteSets

CONSTANTS App, Side, Name, Mailbox, Msg, Conn, None

VARIABLES
    pipe,       \* pipe[m]: what the mailbox m is, or None
    code,       \* code[<<a, n>>]: the mailbox that nameplate n of application a names, or None
    ear         \* ear[c]: the subscription of a connection, or None

vars == <<pipe, code, ear>>

Pipe == [app : App, open : SUBSET Side, closed : SUBSET Side, messages : SUBSET Msg]
Ear  == [mailbox : Mailbox, side : Side, heard : SUBSET Msg]

EmptyPipe(a) == [app |-> a, open |-> {}, closed |-> {}, messages |-> {}]

Init ==
    /\ pipe = [m \in Mailbox |-> None]
    /\ code = [p \in App \X Name |-> None]
    /\ ear = [c \in Conn |-> None]

Hears(c, m) == ear[c] # None /\ ear[c].mailbox = m

\* The pipe with side s at one of its ends; a side that left stays away.
WithEnd(p, s) == IF s \in p.closed THEN p ELSE [p EXCEPT !.open = @ \union {s}]

\* A pipe, perhaps a new one, that side s of application a comes to.
Entered(a, m, s) == WithEnd(IF pipe[m] = None THEN EmptyPipe(a) ELSE pipe[m], s)

\* The pipe after side s has left.
WithoutEnd(p, s) ==
    [app |-> p.app, open |-> p.open \ {s}, closed |-> p.closed \union {s}, messages |-> p.messages]

Ends(p) == p.open \union p.closed

-----------------------------------------------------------------------------
\* A nameplate gets a pipe of its own, not used before.
Assign(a, n, m) ==
    /\ code[<<a, n>>] = None
    /\ pipe[m] = None
    /\ code' = [code EXCEPT ![<<a, n>>] = m]
    /\ pipe' = [pipe EXCEPT ![m] = EmptyPipe(a)]
    /\ ear' = ear

\* A nameplate is given up.
Unassign(a, n) ==
    /\ code' = [code EXCEPT ![<<a, n>>] = None]
    /\ UNCHANGED <<pipe, ear>>

\* A side comes to an end of the pipe, without listening.
Join(a, m, s) ==
    /\ pipe[m] = None \/ pipe[m].app = a
    /\ pipe' = [pipe EXCEPT ![m] = Entered(a, m, s)]
    /\ UNCHANGED <<code, ear>>

\* A side comes to an end of the pipe and hears all that was sent.
Subscribe(a, m, s, c) ==
    /\ ear[c] = None
    /\ pipe[m] = None \/ pipe[m].app = a
    /\ Cardinality(Ends(Entered(a, m, s))) <= 2
    /\ pipe' = [pipe EXCEPT ![m] = Entered(a, m, s)]
    /\ ear' = [ear EXCEPT ![c] =
                  [mailbox |-> m, side |-> s, heard |-> Entered(a, m, s).messages]]
    /\ code' = code

\* All subscribers hear what one of them sends.
Send(c, x) ==
    /\ ear[c] # None
    /\ LET m == ear[c].mailbox
       IN /\ pipe' = [pipe EXCEPT ![m].messages = @ \union {x}]
          /\ ear' = [d \in Conn |-> IF Hears(d, m) THEN [ear[d] EXCEPT !.heard = @ \union {x}]
                                                  ELSE ear[d]]
    /\ code' = code

\* Connections are lost.
Unsubscribe(cs) ==
    /\ ear' = [c \in Conn |-> IF c \in cs THEN None ELSE ear[c]]
    /\ UNCHANGED <<pipe, code>>

\* A side leaves for good; connections of it that came in its place may still hear.
Leave(m, s) ==
    /\ pipe[m] # None
    /\ s \in pipe[m].open
    /\ pipe' = [pipe EXCEPT ![m] = WithoutEnd(pipe[m], s)]
    /\ UNCHANGED <<code, ear>>

\* Pipes nobody listens to go, and the codes that name them.
Vanish(gone) ==
    /\ \A c \in Conn, m \in gone : ~Hears(c, m)
    /\ pipe' = [m \in Mailbox |-> IF m \in gone THEN None ELSE pipe[m]]
    /\ code' = [p \in App \X Name |-> IF code[p] \in gone THEN None ELSE code[p]]
    /\ ear' = ear

Next ==
    \/ \E a \in App, n \in Name :
          Unassign(a, n) \/ \E m \in Mailbox : Assign(a, n, m)
    \/ \E a \in App, m \in Mailbox, s \in Side :
          Join(a, m, s) \/ \E c \in Conn : Subscribe(a, m, s, c)
    \/ \E c \in Conn, x \in Msg : Send(c, x)
    \/ \E cs \in SUBSET Conn : Unsubscribe(cs)
    \/ \E m \in Mailbox, s \in Side : Leave(m, s)
    \/ \E gone \in SUBSET Mailbox : Vanish(gone)

Spec == Init /\ [][Next]_vars
=============================================================================
