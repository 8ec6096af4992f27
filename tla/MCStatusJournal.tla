-------------------------- MODULE MCStatusJournal --------------------------
(* Instances of StatusJournal for TLC.                                   *)
EXTENDS StatusJournal

\* All units in one sector.
OneSector == [u \in Units |-> 0]

\* Two units per sector.
TwoUnitsPerSector == [u \in Units |-> u \div 2]

=============================================================================
