--------------------------- MODULE MCCyclicStore ---------------------------
EXTENDS CyclicStore
=============================================================================
