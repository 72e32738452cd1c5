------------------------------ MODULE PlayerIds -----------------------------
(* The players, as the room and the hall registry know them: by their pids.  *)
EXTENDS FiniteSets

CONSTANT Pid

ASSUME PidAssumption == IsFiniteSet(Pid)
=============================================================================
