-------------------------- MODULE MCConnectionTable --------------------------
EXTENDS ConnectionTable, TLC

Symmetry == Permutations(Addr) \union Permutations(Conn)
=============================================================================
