---------------------------- MODULE MCChatClient ----------------------------
(***************************************************************************)
(* ChatClient needs no more than its numbers.                              *)
(***************************************************************************)
EXTENDS ChatClient
=============================================================================
