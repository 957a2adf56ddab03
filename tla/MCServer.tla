------------------------------ MODULE MCServer ------------------------------
(* The server with the terminals and lines of the configurations.          *)
EXTENDS Server
=============================================================================
