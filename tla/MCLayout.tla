---- MODULE MCLayout ----
(* A new directory, and directories that older versions left after any of their stages. *)
EXTENDS Layout

MCOlderStates == {{}, {Discover}, {Discover, Map}, {Discover, Map, Mocks}, Stages}
====
