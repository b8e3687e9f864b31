---------------------------- MODULE MCProtocols ----------------------------
(* Protocols on a small instance: every request of a tool stands for the     *)
(* same call.                                                                *)
EXTENDS Protocols

SameCall == [r \in Tool \cup Permitted |-> CHOOSE c \in Call : TRUE]
=============================================================================
