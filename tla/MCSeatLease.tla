---------------------------- MODULE MCSeatLease -----------------------------
(* SeatLease on small sets of processes, agents and harnesses *)
EXTENDS SeatLease, TLC

Symmetry == Permutations(Pid) \cup Permutations(Agent) \cup Permutations(Harness)
=============================================================================
