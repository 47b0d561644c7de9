--------------------------- MODULE MCConversation ---------------------------
(* Instances of Conversation for TLC; the .cfg file gives the constants.   *)
EXTENDS Conversation
=============================================================================
