---- MODULE MCConversation ----
(* Four calls in up to three turns: two of them may overlap and a later turn asks with more
   history than a prompt shows. *)
EXTENDS Conversation
====
