-------------------------- MODULE MCClientSession --------------------------
(* The instance of the session runs: the tabs of one browser as strings. *)
EXTENDS ClientSession
=============================================================================
