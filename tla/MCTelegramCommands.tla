------------------------ MODULE MCTelegramCommands ------------------------
(* A small instance of TelegramCommands for TLC; the replies lanes are     *)
(* interchangeable.                                                        *)
EXTENDS TelegramCommands, TLC

CONSTANTS l1, l2, o1, o2, c1, c2

LaneSymmetry == Permutations(Lanes)
=============================================================================
