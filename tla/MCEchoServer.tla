---------------------------- MODULE MCEchoServer ----------------------------
(* Instances of EchoServer for TLC; the .cfg files give the constants.     *)
EXTENDS EchoServer
=============================================================================
