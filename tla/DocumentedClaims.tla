-------------------------- MODULE DocumentedClaims --------------------------
(***************************************************************************)
(* What the repository's documentation and comments say of the server and  *)
(* the code does not do.  Every definition states one sentence; the run    *)
(* that checks it finds the behaviour that contradicts it.                 *)
(***************************************************************************)
EXTENDS MCMailboxServer

\* server.py:157-159 "if the nameplate is still allocated we'll get a foreign-key
\* failure when trying to delete the mailbox, so get rid of those first": the
\* last close of a mailbox does not fail.
LastCloseSucceeds ==
    task.op = "delete" => ~NameplateInTheWay(task.box, conn[task.conn].side)
=============================================================================
