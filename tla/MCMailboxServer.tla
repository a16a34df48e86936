-------------------------- MODULE MCMailboxServer --------------------------
EXTENDS WormholeRefinement, TLC

\* Interchangeable values.  App and Gen are numbers the specification compares.
Symmetry == Permutations(Conn) \union Permutations(Side) \union Permutations(Name)
                \union Permutations(Mailbox) \union Permutations(Msg)
MCGen == 1..(Cardinality(Conn) + 1)
=============================================================================
