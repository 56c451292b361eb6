------------------------------- MODULE MCMemDB -------------------------------
(* Model-checking instance of MemDB: writers, resetters, readers symmetric.*)
EXTENDS MemDB, TLC

WriterSymmetry ==
    Permutations(Writers) \union Permutations(Resetters) \union Permutations(Readers)
=============================================================================
