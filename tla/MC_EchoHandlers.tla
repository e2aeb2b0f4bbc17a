---------------------------- MODULE MC_EchoHandlers ----------------------------
(* Texts over two characters, the blank a third model value. *)
EXTENDS EchoHandlers

CONSTANTS x, y, sp

MCChars == {x, y}

MCTimes == -1..3

=============================================================================
