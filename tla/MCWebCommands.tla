--------------------------- MODULE MCWebCommands ---------------------------
(* A small instance of WebCommands: two commands, each queue with room for less. *)
EXTENDS WebCommands

CONSTANTS k1, k2, i1, i2, i3

MCKeys == {k1, k2}
MCIds == {i1, i2, i3}

============================================================================
