---------------------------- MODULE MCSession ----------------------------
\* Session for TLC: the writers are interchangeable.
EXTENDS Session, TLC

WriterSymmetry == Permutations(Writers)
=============================================================================
