----------------------------- MODULE MCDatagrams -----------------------------
(* Instances of Datagrams for TLC; the .cfg files give the constants.      *)
EXTENDS Datagrams
=============================================================================
