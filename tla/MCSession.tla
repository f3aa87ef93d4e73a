----------------------------- MODULE MCSession -----------------------------
(* An instance of Session for TLC: its constants are numbers. *)
EXTENDS Session
=============================================================================
