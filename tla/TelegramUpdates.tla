---------------------------- MODULE TelegramUpdates ----------------------------
(***************************************************************************)
(* The updates of one bot: the messages its chats send, numbered as         *)
(* Telegram numbers them.                                                   *)
(***************************************************************************)
EXTENDS Naturals

CONSTANT MaxUpdates      \* bound: updates the chats send

Updates == 1 .. MaxUpdates
=============================================================================
