-------------------------- MODULE MCChangeHistory --------------------------
(* Small instances of ChangeHistory. *)
EXTENDS ChangeHistory, TLC

MCFields == {"label", "is_deleted"}

InstanceSymmetry == Permutations(Instances)
=============================================================================
