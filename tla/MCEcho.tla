------------------------------- MODULE MCEcho -------------------------------
(* Two proxies, and methods that fit one message or take two.               *)
EXTENDS Echo
=============================================================================
