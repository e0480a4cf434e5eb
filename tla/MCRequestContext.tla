-------------------------- MODULE MCRequestContext --------------------------
(* A small instance of RequestContext. *)
EXTENDS RequestContext
=============================================================================
