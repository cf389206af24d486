--------------------------- MODULE MCTripwireWatcher ---------------------------
(* TripwireWatcher on small sets; the symmetry is for runs without liveness *)
EXTENDS TripwireWatcher, TLC

Symmetry == Permutations(Watcher)
================================================================================
