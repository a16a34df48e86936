---------------------------- MODULE ChannelExpiry ----------------------------
(***************************************************************************)
(* How long a mailbox is kept: one mailbox of a client, the timer of       *)
(* server_tap.py and the time that passes, in minutes.  The rest of the    *)
(* server is MailboxServer; here only what moves the mailbox's "updated"   *)
(* and what looks at it.                                                   *)
(***************************************************************************)
EXTENDS Integers

CONSTANTS
    Expiration,     \* CHANNEL_EXPIRATION_TIME
    Period,         \* EXPIRATION_CHECK_PERIOD
    Forever         \* time stops to be counted here

\* server_tap.py:66 "CHANNEL_EXPIRATION_TIME should be longer than
\* EXPIRATION_CHECK_PERIOD"
ASSUME TimesAssumption ==
    /\ Expiration \in Nat
    /\ Period \in Nat \ {0}
    /\ Period < Expiration
    /\ Forever \in Nat
    /\ Expiration + Period < Forever

VARIABLES
    exists,     \* the mailbox has a row
    idle,       \* time since its "updated"
    subscribed, \* a connection listens to it
    away,       \* history: time since one last did
    up,         \* the server runs
    sinceCheck, \* time since the timer ran expire(), while the server runs
    restarted   \* history: the server was started since a connection last listened

vars == <<exists, idle, subscribed, away, up, sinceCheck, restarted>>

Init ==
    /\ exists = FALSE
    /\ idle = 0
    /\ subscribed = FALSE
    /\ away = 0
    /\ up = FALSE
    /\ sinceCheck = 0
    /\ restarted = FALSE

-----------------------------------------------------------------------------
\* open_mailbox and add_listener; Mailbox.open touches.
Open ==
    /\ up
    /\ exists' = TRUE
    /\ idle' = 0
    /\ subscribed' = TRUE
    /\ away' = 0
    /\ restarted' = FALSE
    /\ UNCHANGED <<up, sinceCheck>>

\* The connection is lost: only the listener goes.
Leave ==
    /\ subscribed
    /\ subscribed' = FALSE
    /\ UNCHANGED <<exists, idle, away, up, sinceCheck, restarted>>

\* add_message, whoever adds.
Add ==
    /\ subscribed
    /\ idle' = 0
    /\ UNCHANGED <<exists, subscribed, away, up, sinceCheck, restarted>>

\* Fault: listeners do not count.
AgeIgnoringListeners == idle

\* prune touches the mailboxes with listeners before it compares.
AgeAtCheck == IF subscribed THEN 0 ELSE idle

\* prune: updated > old keeps it.
Prune ==
    /\ idle' = AgeAtCheck
    /\ exists' = (exists /\ AgeAtCheck < Expiration)

\* expire(), every Period.
Check ==
    /\ up
    /\ sinceCheck = Period
    /\ sinceCheck' = 0
    /\ Prune
    /\ UNCHANGED <<subscribed, away, up, restarted>>

\* Fault: the first check waits for a period.
FirstCheckLater == sinceCheck' = 0 /\ UNCHANGED <<exists, idle>>

\* TimerService runs expire() when it starts.
FirstCheck == sinceCheck' = 0 /\ Prune

\* makeService and startService, before anybody can connect.
Start ==
    /\ ~up
    /\ up' = TRUE
    /\ restarted' = TRUE
    /\ FirstCheck
    /\ UNCHANGED <<subscribed, away>>

\* stopService or a crash: the listeners go, the row stays.
Stop ==
    /\ up
    /\ up' = FALSE
    /\ subscribed' = FALSE
    /\ UNCHANGED <<exists, idle, away, sinceCheck, restarted>>

\* One more minute, as far as it is counted.
Later(t) == IF t < Forever THEN t + 1 ELSE Forever

\* A server that runs is not late with its checks.
Tick ==
    /\ up => sinceCheck < Period
    /\ sinceCheck' = IF up THEN sinceCheck + 1 ELSE sinceCheck
    /\ idle' = Later(idle)
    /\ away' = IF subscribed THEN 0 ELSE Later(away)
    /\ UNCHANGED <<exists, subscribed, up, restarted>>

Next == Open \/ Leave \/ Add \/ Check \/ Start \/ Stop \/ Tick

Spec == Init /\ [][Next]_vars

-----------------------------------------------------------------------------
TypeOK ==
    /\ exists \in BOOLEAN
    /\ idle \in 0..Forever
    /\ subscribed \in BOOLEAN
    /\ away \in 0..Forever
    /\ up \in BOOLEAN
    /\ sinceCheck \in 0..Period
    /\ restarted \in BOOLEAN

\* server.py:466 "The client is allowed to disconnect for up to 9 minutes without
\* losing the channel".  What it can count on, however often the server is
\* restarted: a mailbox is deleted only when nobody has listened for the expiration
\* time less a period, 6 minutes.
KeptWhileAway ==
    [][exists /\ ~exists' => ~subscribed /\ away >= Expiration - Period]_vars

\* And if the server runs all the while: 10 minutes, as the last check that saw
\* the listener is a whole number of periods ago.
KeptWhileRunning ==
    [][exists /\ ~exists' /\ ~restarted' =>
         away >= Period * ((Expiration - 1) \div Period)]_vars

\* docs/operations.md:36 "the claim timed out (which happens after 10 minutes, by
\* default)".  A mailbox nobody uses is gone after the expiration time and one
\* period, however often the server is restarted.
GoneInTime ==
    up /\ exists => idle < Expiration + Period
=============================================================================
