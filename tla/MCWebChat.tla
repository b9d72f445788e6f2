------------------------------- MODULE MCWebChat -------------------------------
(* WebChat on small instances.                                                 *)
EXTENDS WebChat
=============================================================================
