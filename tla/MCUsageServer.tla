---------------------------- MODULE MCUsageServer ----------------------------
EXTENDS UsageServer, TLC

Symmetry == Permutations(Conn) \union Permutations(Side) \union Permutations(Name)
                \union Permutations(Mailbox) \union Permutations(Msg)
MCGen == 1..(Cardinality(Conn) + 1)
=============================================================================
