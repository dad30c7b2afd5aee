-------------------------------- MODULE MCBots ------------------------------
(* TLC instances of Bots: one CELO while a group joins, moves and leaves;  *)
(* two CELO of two groups, through epochs; and two CELO that three groups  *)
(* compete for, as when two are to receive votes and one to give them up.  *)
EXTENDS Bots

CONSTANTS g1, g2, g3

Moving == [list |-> <<g1>>, moves |-> {g2}, celo |-> 1, withdrawals |-> TRUE, epochs |-> FALSE]
Voting == [list |-> <<g1, g2>>, moves |-> {}, celo |-> 2, withdrawals |-> TRUE, epochs |-> TRUE]
Sharing ==
  [list |-> <<g1, g2, g3>>, moves |-> {}, celo |-> 2, withdrawals |-> TRUE, epochs |-> FALSE]

MCBounds == {Moving, Voting, Sharing}
============================================================================
