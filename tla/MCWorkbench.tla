---- MODULE MCWorkbench ----
(* Two commands at a time over two contents and two strategies. *)
EXTENDS Workbench, TLC

CONSTANTS first, second, x, y
MCCommands == {first, second}
MCContents == {x, y}
Alike == Permutations(MCCommands) \cup Permutations(MCContents)
====
