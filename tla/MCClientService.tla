--------------------------- MODULE MCClientService ---------------------------
(***************************************************************************)
(* Model of ClientService.tla for TLC.  The constants are in the .cfg      *)
(* files; the README says why they are large enough.                       *)
(***************************************************************************)
EXTENDS ClientService
=============================================================================
