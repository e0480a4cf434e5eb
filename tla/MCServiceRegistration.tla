---------------------- MODULE MCServiceRegistration ----------------------
(* Small instances of ServiceRegistration. *)
EXTENDS ServiceRegistration

MCTwoThreads == 1..2
Configured == {[enabled |-> TRUE, complete |-> TRUE, beat |-> TRUE]}
=============================================================================
