------------------------------ MODULE MCReplica ------------------------------
EXTENDS Replica
MCGuid == {1, 2}
\* The clock of the replica is behind or ahead.
MCClock == [s \in Side |-> IF s = "master" THEN {1} ELSE {0, 2}]
MCFlags == {"", "seen"}
=============================================================================
