-------------------------- MODULE MCTelegramQueue --------------------------
(* TelegramQueue for TLC. *)
EXTENDS TelegramQueue
============================================================================
