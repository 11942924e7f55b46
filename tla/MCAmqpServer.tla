---------------------------- MODULE MCAmqpServer ----------------------------
(* AmqpServer for TLC: loops and messages are interchangeable. *)
EXTENDS AmqpServer, TLC

Symmetry == Permutations(Messages) \cup Permutations(Loops)

=============================================================================
