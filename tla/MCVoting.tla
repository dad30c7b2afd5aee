----------------------------- MODULE MCVoting ------------------------------
(* TLC instances of Voting and VoteHistory.                                *)
EXTENDS VoteHistory
============================================================================
