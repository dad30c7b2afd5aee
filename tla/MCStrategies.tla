---------------------------- MODULE MCStrategies ----------------------------
(* TLC instances of Strategies.                                            *)
EXTENDS Strategies
=============================================================================
