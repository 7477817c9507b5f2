------------------------------ MODULE MCCliClient ------------------------------
(* A small instance of CliClient: one user talks, the other comes and goes. *)
EXTENDS CliClient

CONSTANTS c1, c2
OneTalks ==
  [c \in Conns |-> IF c = c1 THEN <<"BROADCAST", "LOGOUT">> ELSE <<>>]
=============================================================================
