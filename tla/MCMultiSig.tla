---------------------------- MODULE MCMultiSig -----------------------------
(* TLC instances of MultiSig.                                              *)
EXTENDS MultiSig

CONSTANTS a, b, c

Pair(x, y) == [first |-> x, second |-> y]

(* Every onlyWallet function, in pairs where one depends on the other, and *)
(* a batch that is always allowed.                                         *)
MCPayloads ==
  {Pair([op |-> "addOwner", owner |-> c], [op |-> "changeRequirement", n |-> 2]),
   Pair([op |-> "removeOwner", owner |-> a], [op |-> "changeDelay", n |-> 2]),
   Pair([op |-> "replaceOwner", owner |-> b, newOwner |-> c],
        [op |-> "changeRequirement", n |-> 1]),
   Pair([op |-> "setPauser", pauser |-> "wallet"], [op |-> "pause"]),
   Pair([op |-> "setPauser", pauser |-> "guardian"], [op |-> "other"])}
============================================================================
