---- MODULE MCSession ----
(* Two tabs, two folders with their config files, one comment. *)
EXTENDS Session, TLC

CONSTANTS one, two, here, there
MCTabs == {one, two}
MCNames == {here, there}
Alike == {tabs @@ names : tabs \in Permutations(MCTabs), names \in Permutations(MCNames)}
====
