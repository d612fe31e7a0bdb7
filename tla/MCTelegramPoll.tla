---------------------------- MODULE MCTelegramPoll ----------------------------
(***************************************************************************)
(* TelegramPoll for TLC.                                                   *)
(***************************************************************************)
EXTENDS TelegramPoll
==============================================================================
