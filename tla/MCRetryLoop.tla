---------------------------- MODULE MCRetryLoop ----------------------------
(* Small instances of RetryLoop. *)
EXTENDS RetryLoop

MCModes == {"transport", "deadline", "upload", "download"}
MCDeadlineOnly == {"deadline"}
=============================================================================
