------------------------------ MODULE Amounts ------------------------------
(***************************************************************************)
(* Arithmetic on token amounts shared by the modules of the project.       *)
(*                                                                         *)
(* Total(f) sums a function into Nat as the cardinality of its set of      *)
(* units: one pair <<x, i>> for each of the f[x] units held by x.  The     *)
(* community modules' SumFunction computes the same number (MCAccount      *)
(* assumes so and TLC evaluates it) by a recursive fold; about             *)
(* cardinalities there is a library of theorems to prove facts from        *)
(* (AmountsProofs).                                                        *)
(***************************************************************************)
EXTENDS Integers, FiniteSets

MinOf(a, b) == IF a < b THEN a ELSE b

(* Truncated subtraction: what an "if (a > b) a - b else 0" computes.      *)
Monus(a, b) == IF a > b THEN a - b ELSE 0

Units(f) == UNION {{x} \X (1 .. f[x]) : x \in DOMAIN f}

Total(f) == Cardinality(Units(f))

(* Pointwise sum and difference of two allocations over the same set.      *)
Plus(f, h) == [x \in DOMAIN f |-> f[x] + h[x]]

Minus(f, h) == [x \in DOMAIN f |-> f[x] - h[x]]

(* The allocation that gives n to x and nothing to the rest of S.          *)
Only(S, x, n) == [y \in S |-> IF y = x THEN n ELSE 0]
============================================================================
