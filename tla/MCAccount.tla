----------------------------- MODULE MCAccount -----------------------------
(* TLC instances of Account.                                               *)
EXTENDS AccountClaims, TLC

F == INSTANCE Functions

(* Total is the community modules' sum.                                    *)
ASSUME TotalIsSum == \A f \in [1 .. 3 -> 0 .. 3] : Total(f) = F!SumFunction(f)

Symmetry == Permutations(Groups) \cup Permutations(Beneficiaries)
============================================================================
