---------------------------- MODULE MCPersistFile ----------------------------
\* Small instances of PersistFile for TLC.
EXTENDS PersistFile

CONSTANTS p1, p2, k1, k2

MCProcs == {p1, p2}
MCKeys  == {k1, k2}
===============================================================================
