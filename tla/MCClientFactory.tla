-------------------------- MODULE MCClientFactory --------------------------
(* Small instances of ClientFactory. *)
EXTENDS ClientFactory, TLC

\* The peer moves, then leaves the registry.
MCPeerUrl == <<"old", "new">>
MCPeerUrlLeaves == <<"old", "absent">>
MCSymmetry == Permutations(Callers) \cup Permutations(Refreshers) \cup Permutations(Options)
=============================================================================
