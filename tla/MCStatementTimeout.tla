------------------------- MODULE MCStatementTimeout -------------------------
(* A migration and a service on a pool of two server connections. *)
EXTENDS StatementTimeout
=============================================================================
