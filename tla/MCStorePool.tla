---------------------------- MODULE MCStorePool ----------------------------
\* Instances of StorePool: a pool whose size is set too low, 1, or 2.
EXTENDS StorePool

CONSTANTS r1, r2, r3

MCReaders == {r1, r2, r3}
MCSizes == {0, 1, 2}
=============================================================================
