----------------------------- MODULE MCStartup -----------------------------
(* Small instances of Startup for TLC; its constants are plain numbers. *)
EXTENDS Startup
=============================================================================
