-------------------------- MODULE MCRequestTimeout --------------------------
(* Small instances of RequestTimeout. *)
EXTENDS RequestTimeout

MCMethods == {"GET", "POST", "OPTIONS"}
MCSafeMethods == {"GET", "OPTIONS"}
MCNeverShed == {"OPTIONS"}
=============================================================================
