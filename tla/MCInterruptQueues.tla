------------------------- MODULE MCInterruptQueues -------------------------
(* The queues with a storage that wraps within a few ranges.                *)
EXTENDS InterruptQueues
=============================================================================
