-------------------------- MODULE MCEventDispatcher --------------------------
(* EventDispatcher with the dispatcher's own thread and two others.         *)
EXTENDS EventDispatcher

CONSTANTS main, t1, t2, none

TwoWriters == {main, t1, t2}

=============================================================================
