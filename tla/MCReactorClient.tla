--------------------------- MODULE MCReactorClient ---------------------------
(* Instances of ReactorClient for TLC; the .cfg files give the constants.  *)
EXTENDS ReactorClient
=============================================================================
