--------------------------- MODULE AmountsProofs ---------------------------
(***************************************************************************)
(* Facts about amounts, used by the proofs of all components: how Total    *)
(* changes when a share does, and how it compares; what rounded division   *)
(* and products of variables obey, about which the provers know next to    *)
(* nothing; and that rounding in the system's favour, as deposits and      *)
(* withdrawals do, never lowers what a stCELO is worth.                    *)
(***************************************************************************)
EXTENDS Amounts, FiniteSetTheorems, TLAPS

(* The units of a function over a finite set are finitely many.            *)
LEMMA UnitsFinite ==
  ASSUME NEW S, IsFiniteSet(S), NEW f \in [S -> Nat]
  PROVE  IsFiniteSet(Units(f)) /\ Total(f) \in Nat
<1> DEFINE pieces == {{x} \X (1 .. f[x]) : x \in S}
<1>1. Units(f) = UNION pieces
  BY DEF Units
<1>2. IsFiniteSet(pieces)
  <2> DEFINE h == [x \in S |-> {x} \X (1 .. f[x])]
  <2>1. h \in Surjection(S, pieces)
    BY DEF Surjection
  <2> QED BY <2>1, FS_Surjection
<1>3. \A T \in pieces : IsFiniteSet(T)
  <2> SUFFICES ASSUME NEW x \in S PROVE IsFiniteSet({x} \X (1 .. f[x]))
    OBVIOUS
  <2>1. IsFiniteSet({x}) BY FS_Singleton
  <2>2. f[x] \in Nat OBVIOUS
  <2>3. IsFiniteSet(1 .. f[x]) BY <2>2, FS_Interval
  <2> QED BY <2>1, <2>3, FS_Product
<1>4. IsFiniteSet(Units(f)) BY <1>1, <1>2, <1>3, FS_UNION
<1> QED BY <1>4, FS_CardinalityType DEF Total

(* Adding the shares of h to those of f adds their totals.                 *)
LEMMA TotalPlus ==
  ASSUME NEW S, IsFiniteSet(S), NEW f \in [S -> Nat], NEW h \in [S -> Nat]
  PROVE  Total(Plus(f, h)) = Total(f) + Total(h)
<1> DEFINE sum == Plus(f, h)
           upper == {u \in Units(sum) : u[2] > f[u[1]]}
           shift == [u \in Units(h) |-> <<u[1], f[u[1]] + u[2]>>]
<1>0. sum \in [S -> Nat] /\ \A x \in S : sum[x] = f[x] + h[x]
  BY DEF Plus
<1>1. \A k \in [S -> Nat] : Units(k) = {u \in S \X Nat : 1 <= u[2] /\ u[2] <= k[u[1]]}
  BY DEF Units
<1>2. IsFiniteSet(Units(f)) /\ IsFiniteSet(Units(h)) /\ IsFiniteSet(Units(sum))
  BY <1>0, UnitsFinite
<1>3. Units(sum) = Units(f) \cup upper
  <2> HIDE DEF sum
  <2> QED BY <1>0, <1>1
<1>4. Units(f) \cap upper = {}
  BY <1>1
<1>5. shift \in Bijection(Units(h), upper)
  <2> HIDE DEF sum
  <2>1. ASSUME NEW u \in Units(h) PROVE shift[u] \in upper
    <3>1. /\ u[1] \in S /\ u[2] \in Nat /\ 1 <= u[2] /\ u[2] <= h[u[1]]
      BY <1>1
    <3>2. shift[u] = <<u[1], f[u[1]] + u[2]>> OBVIOUS
    <3>3. shift[u] \in S \X Nat BY <3>1, <3>2
    <3> QED BY <1>0, <1>1, <3>1, <3>2, <3>3
  <2>2. ASSUME NEW u \in Units(h), NEW v \in Units(h), shift[u] = shift[v]
        PROVE  u = v
    <3>1. /\ u \in S \X Nat /\ v \in S \X Nat BY <1>1
    <3>2. /\ u[1] = v[1] /\ f[u[1]] + u[2] = f[v[1]] + v[2] BY <2>2
    <3> QED BY <3>1, <3>2
  <2>3. ASSUME NEW v \in upper PROVE \E u \in Units(h) : shift[u] = v
    <3>1. /\ v \in S \X Nat /\ v[2] <= f[v[1]] + h[v[1]] /\ v[2] > f[v[1]]
      BY <1>0, <1>1
    <3> DEFINE u == <<v[1], v[2] - f[v[1]]>>
    <3>2. u \in S \X Nat /\ u[1] = v[1] /\ 1 <= u[2] /\ u[2] <= h[v[1]]
      BY <3>1
    <3>3. u \in Units(h) BY <1>1, <3>2
    <3>4. shift[u] = v BY <3>1, <3>3
    <3> QED BY <3>3, <3>4
  <2>4. shift \in [Units(h) -> upper] BY <2>1
  <2> HIDE DEF shift, upper
  <2> QED BY <2>2, <2>3, <2>4 DEF Bijection, Injection, Surjection, IsInjective
<1>6. IsFiniteSet(upper) /\ Cardinality(upper) = Cardinality(Units(h))
  BY <1>2, <1>5, FS_Bijection DEF ExistsBijection
<1>7. Cardinality(Units(f) \cap upper) = 0
  BY <1>4, FS_EmptySet
<1> HIDE DEF sum, upper
<1>8. Cardinality(Units(f) \cup upper) =
        Cardinality(Units(f)) + Cardinality(upper) - Cardinality(Units(f) \cap upper)
  BY <1>2, <1>6, FS_Union
<1>9. Total(f) \in Nat /\ Total(h) \in Nat
  BY UnitsFinite
<1>10. Total(sum) = Total(f) + Total(h)
  BY <1>3, <1>6, <1>7, <1>8, <1>9 DEF Total
<1> QED BY <1>10 DEF sum

(* What only x holds is the total.                                         *)
LEMMA TotalOnly ==
  ASSUME NEW S, NEW x \in S, NEW n \in Nat
  PROVE  Only(S, x, n) \in [S -> Nat] /\ Total(Only(S, x, n)) = n
<1>1. Units(Only(S, x, n)) = {x} \X (1 .. n)
  BY DEF Units, Only
<1>2. IsFiniteSet({x}) /\ Cardinality({x}) = 1
  BY FS_Singleton
<1>3. IsFiniteSet(1 .. n) /\ Cardinality(1 .. n) = n
  BY FS_Interval
<1>4. Cardinality({x} \X (1 .. n)) = 1 * n
  BY <1>2, <1>3, FS_Product
<1>5. Only(S, x, n) \in [S -> Nat]
  BY DEF Only
<1>6. Total(Only(S, x, n)) = n
  BY <1>1, <1>4 DEF Total
<1> QED BY <1>5, <1>6

(* Nobody holds anything: the total is 0.                                  *)
LEMMA TotalZero ==
  ASSUME NEW S
  PROVE  Total([x \in S |-> 0]) = 0
<1>1. Units([x \in S |-> 0]) = {} BY DEF Units
<1> QED BY <1>1, FS_EmptySet DEF Total

(* One share changes from f[x] to v.                                       *)
LEMMA TotalExcept ==
  ASSUME NEW S, IsFiniteSet(S), NEW f \in [S -> Nat], NEW x \in S, NEW v \in Nat
  PROVE  Total([f EXCEPT ![x] = v]) = Total(f) - f[x] + v
<1> DEFINE base == [f EXCEPT ![x] = 0]
<1>1. base \in [S -> Nat] /\ f[x] \in Nat OBVIOUS
<1>2. f = Plus(base, Only(S, x, f[x]))
  BY DEF Plus, Only
<1>3. [f EXCEPT ![x] = v] = Plus(base, Only(S, x, v))
  <2>1. Plus(base, Only(S, x, v)) = [y \in S |-> base[y] + (IF y = x THEN v ELSE 0)]
    BY DEF Plus, Only
  <2>2. \A y \in S : [f EXCEPT ![x] = v][y] = base[y] + (IF y = x THEN v ELSE 0)
    OBVIOUS
  <2>3. [f EXCEPT ![x] = v] = [y \in S |-> [f EXCEPT ![x] = v][y]]
    OBVIOUS
  <2> QED BY <2>1, <2>2, <2>3
<1> HIDE DEF base
<1>4. Only(S, x, f[x]) \in [S -> Nat] /\ Total(Only(S, x, f[x])) = f[x]
  BY <1>1, TotalOnly
<1>5. Only(S, x, v) \in [S -> Nat] /\ Total(Only(S, x, v)) = v
  BY TotalOnly
<1>6. Total(f) = Total(base) + f[x]
  BY <1>1, <1>2, <1>4, TotalPlus
<1>7. Total([f EXCEPT ![x] = v]) = Total(base) + v
  BY <1>1, <1>3, <1>5, TotalPlus
<1>8. Total(base) \in Nat BY <1>1, UnitsFinite
<1> QED BY <1>1, <1>6, <1>7, <1>8

(* A total over 1..n+1 is the total over 1..n and the last share.          *)
LEMMA TotalLast ==
  ASSUME NEW n \in Nat, NEW f \in [1 .. n + 1 -> Nat]
  PROVE  Total(f) = Total([i \in 1 .. n |-> f[i]]) + f[n + 1]
<1> DEFINE h == [i \in 1 .. n |-> f[i]]
           last == {n + 1} \X (1 .. f[n + 1])
<1>1. h \in [1 .. n -> Nat] /\ IsFiniteSet(1 .. n) /\ f[n + 1] \in Nat
  <2>1. n + 1 \in 1 .. n + 1 /\ \A i \in 1 .. n : i \in 1 .. n + 1 OBVIOUS
  <2>2. IsFiniteSet(1 .. n) BY FS_Interval
  <2> QED BY <2>1, <2>2
<1>2. IsFiniteSet(Units(h)) BY <1>1, UnitsFinite
<1>3. IsFiniteSet(last) /\ Cardinality(last) = f[n + 1]
  <2>1. IsFiniteSet({n + 1}) /\ Cardinality({n + 1}) = 1 BY FS_Singleton
  <2>2. IsFiniteSet(1 .. f[n + 1]) /\ Cardinality(1 .. f[n + 1]) = f[n + 1]
    BY <1>1, FS_Interval
  <2>3. Cardinality(last) = Cardinality({n + 1}) * Cardinality(1 .. f[n + 1]) /\ IsFiniteSet(last)
    BY <2>1, <2>2, FS_Product
  <2> QED BY <1>1, <2>1, <2>2, <2>3
<1>4. Units(f) = Units(h) \cup last
  <2>1. Units(f) = {u \in (1 .. n + 1) \X Nat : 1 <= u[2] /\ u[2] <= f[u[1]]}
    BY DEF Units
  <2>2. Units(h) = {u \in (1 .. n) \X Nat : 1 <= u[2] /\ u[2] <= h[u[1]]}
    BY DEF Units
  <2>3. last = {u \in {n + 1} \X Nat : 1 <= u[2] /\ u[2] <= f[u[1]]}
    BY <1>1
  <2> QED BY <2>1, <2>2, <2>3
<1>5. Units(h) \cap last = {} BY DEF Units
<1>6. Cardinality(Units(f)) = Cardinality(Units(h)) + Cardinality(last) - Cardinality({})
  BY <1>2, <1>3, <1>4, <1>5, FS_Union
<1>7. Cardinality({}) = 0 /\ Cardinality(Units(h)) \in Nat
  BY <1>2, FS_EmptySet, FS_CardinalityType
<1> QED BY <1>1, <1>3, <1>6, <1>7 DEF Total

(* Taking the shares of h out of those of f lowers the total by theirs.    *)
LEMMA TotalMinus ==
  ASSUME NEW S, IsFiniteSet(S), NEW f \in [S -> Nat], NEW h \in [S -> Nat],
         \A x \in S : h[x] <= f[x]
  PROVE  /\ Minus(f, h) \in [S -> Nat]
         /\ Total(Minus(f, h)) = Total(f) - Total(h)
<1>1. Minus(f, h) \in [S -> Nat]
  BY DEF Minus
<1>2. Plus(Minus(f, h), h) = f
  BY DEF Minus, Plus
<1>3. Total(f) = Total(Minus(f, h)) + Total(h)
  BY <1>1, <1>2, TotalPlus
<1>4. Total(Minus(f, h)) \in Nat /\ Total(h) \in Nat
  BY <1>1, UnitsFinite
<1> QED BY <1>1, <1>3, <1>4

(* No share exceeds the total.                                             *)
LEMMA ShareBound ==
  ASSUME NEW S, IsFiniteSet(S), NEW f \in [S -> Nat], NEW x \in S
  PROVE  f[x] <= Total(f)
<1>1. f[x] \in Nat OBVIOUS
<1>2. [f EXCEPT ![x] = 0] \in [S -> Nat] OBVIOUS
<1>3. Total([f EXCEPT ![x] = 0]) = Total(f) - f[x] + 0
  <2>1. 0 \in Nat OBVIOUS
  <2> QED BY <2>1, TotalExcept, Zenon
<1>4. Total([f EXCEPT ![x] = 0]) \in Nat /\ Total(f) \in Nat
  BY <1>2, UnitsFinite
<1> QED BY <1>1, <1>3, <1>4

(* A bounded set of numbers has a largest member: among the sets of        *)
(* numbers above a member, which are finite, one is least.                 *)
LEMMA MaxExists ==
  ASSUME NEW S, S \subseteq Nat, S # {}, NEW n \in Nat, \A x \in S : x <= n
  PROVE  \E m \in S : \A x \in S : m >= x
<1> DEFINE above == {(x + 1) .. n : x \in S}
<1>1. above # {} /\ above \subseteq SUBSET (1 .. n)
  <2>1. \A x \in S : (x + 1) .. n \in SUBSET (1 .. n) OBVIOUS
  <2>2. PICK x \in S : TRUE OBVIOUS
  <2>3. (x + 1) .. n \in above BY <2>2
  <2>4. above \subseteq SUBSET (1 .. n)
    BY <2>1
  <2> QED BY <2>3, <2>4
<1>2. IsWellFoundedOn(StrictSubsetOrdering(1 .. n), SUBSET (1 .. n))
  <2>1. IsFiniteSet(1 .. n) BY FS_Interval
  <2>2. FiniteSubsetsOf(1 .. n) = SUBSET (1 .. n) BY <2>1, FS_FiniteSubsetsOfFinite
  <2> QED BY <2>2, FS_StrictSubsetOrderingWellFounded, Zenon
<1> HIDE DEF above
<1>3. PICK T \in above : \A U \in above : ~(<<U, T>> \in StrictSubsetOrdering(1 .. n))
  BY <1>1, <1>2, WFMin
<1>4. PICK m \in S : T = (m + 1) .. n
  BY DEF above
<1>5. ASSUME NEW x \in S, x > m PROVE FALSE
  <2>1. (x + 1) .. n \in above BY DEF above
  <2>2. x \in (m + 1) .. n /\ x \notin (x + 1) .. n BY <1>5
  <2>3. (x + 1) .. n \subseteq (m + 1) .. n BY <1>5
  <2>4. <<(x + 1) .. n, T>> \in StrictSubsetOrdering(1 .. n)
    BY <1>1, <1>4, <2>1, <2>2, <2>3 DEF StrictSubsetOrdering
  <2> QED BY <1>3, <2>1, <2>4
<1> QED BY <1>5

(* A set of numbers that is not empty has a least member.                  *)
LEMMA MinExists ==
  ASSUME NEW S, S \subseteq Nat, S # {}
  PROVE  \E m \in S : \A x \in S : m <= x
<1> DEFINE below == {1 .. x : x \in S}
<1>1. below # {} /\ below \subseteq FiniteSubsetsOf(Nat)
  <2>1. \A x \in S : 1 .. x \in FiniteSubsetsOf(Nat)
    BY FS_Interval DEF FiniteSubsetsOf
  <2>2. PICK x \in S : TRUE OBVIOUS
  <2>3. 1 .. x \in below BY <2>2
  <2>4. below \subseteq FiniteSubsetsOf(Nat)
    BY <2>1
  <2> QED BY <2>3, <2>4
<1>2. IsWellFoundedOn(StrictSubsetOrdering(Nat), FiniteSubsetsOf(Nat))
  BY FS_StrictSubsetOrderingWellFounded
<1> HIDE DEF below
<1>3. PICK T \in below : \A U \in below : ~(<<U, T>> \in StrictSubsetOrdering(Nat))
  BY <1>1, <1>2, WFMin
<1>4. PICK m \in S : T = 1 .. m
  BY DEF below
<1>5. ASSUME NEW x \in S, x < m PROVE FALSE
  <2>1. 1 .. x \in below BY DEF below
  <2>2. m \in 1 .. m /\ m \notin 1 .. x BY <1>5
  <2>3. 1 .. x \subseteq 1 .. m /\ 1 .. m \subseteq Nat BY <1>5
  <2>4. <<1 .. x, T>> \in StrictSubsetOrdering(Nat)
    BY <1>4, <2>2, <2>3 DEF StrictSubsetOrdering
  <2> QED BY <1>3, <2>1, <2>4
<1> QED BY <1>5

(* An allocation multiplied.                                               *)
Times(f, n) == [x \in DOMAIN f |-> f[x] * n]

(* The total of a multiple is the multiple of the total.                   *)
LEMMA TotalTimes ==
  ASSUME NEW S, IsFiniteSet(S), NEW f \in [S -> Nat], NEW n \in Nat
  PROVE  Times(f, n) \in [S -> Nat] /\ Total(Times(f, n)) = Total(f) * n
<1>1. \A k \in Nat : Times(f, k) \in [S -> Nat]
  BY DEF Times
<1>2. Total(f) \in Nat BY UnitsFinite
<1> DEFINE wrong == {k \in Nat : Total(Times(f, k)) # Total(f) * k}
<1>3. ASSUME wrong # {} PROVE FALSE
  <2>1. PICK k \in wrong : \A j \in wrong : k <= j
    BY <1>3, MinExists
  <2>2. CASE k = 0
    <3>1. Times(f, 0) = [x \in S |-> 0] BY DEF Times
    <3>2. Total(Times(f, 0)) = 0 BY <3>1, TotalZero
    <3> QED BY <1>2, <2>2, <3>2
  <2>3. CASE k # 0
    <3>1. k - 1 \in Nat /\ k - 1 \notin wrong BY <2>1, <2>3
    <3>2. Total(Times(f, k - 1)) = Total(f) * (k - 1) BY <3>1
    <3>3. Times(f, k) = Plus(Times(f, k - 1), f)
      <4>1. \A x \in S : f[x] * k = f[x] * (k - 1) + f[x] OBVIOUS
      <4> QED BY <4>1 DEF Times, Plus
    <3>4. Total(Times(f, k)) = Total(f) * (k - 1) + Total(f)
      BY <1>1, <3>1, <3>2, <3>3, TotalPlus
    <3> QED BY <1>2, <2>1, <3>4
  <2> QED BY <2>2, <2>3
<1> QED BY <1>1, <1>3

(* What is smaller at each place is smaller in total.                      *)
LEMMA TotalMono ==
  ASSUME NEW S, IsFiniteSet(S), NEW f \in [S -> Nat], NEW h \in [S -> Nat],
         \A x \in S : f[x] <= h[x]
  PROVE  Total(f) <= Total(h)
<1>1. Minus(h, f) \in [S -> Nat] /\ Total(Minus(h, f)) = Total(h) - Total(f)
  BY TotalMinus
<1>2. Total(Minus(h, f)) \in Nat /\ Total(h) \in Nat /\ Total(f) \in Nat
  BY <1>1, UnitsFinite
<1> QED BY <1>1, <1>2

(* The total of ones is the number of places.                              *)
LEMMA TotalOnes ==
  ASSUME NEW S, IsFiniteSet(S)
  PROVE  Total([x \in S |-> 1]) = Cardinality(S)
<1>1. Units([x \in S |-> 1]) = S \X {1}
  BY DEF Units
<1>2. IsFiniteSet({1}) /\ Cardinality({1}) = 1
  BY FS_Singleton
<1>3. Cardinality(S \X {1}) = Cardinality(S) * 1 /\ Cardinality(S) \in Nat
  BY <1>2, FS_Product, FS_CardinalityType
<1>4. Cardinality(S \X {1}) = Cardinality(S)
  BY <1>3
<1> QED BY <1>1, <1>4 DEF Total

(* What the solver knows of division, for a divisor that is not zero.      *)
LEMMA DivFact ==
  ASSUME NEW a \in Nat, NEW b \in Nat, b > 0
  PROVE  /\ a \div b \in Nat
         /\ (a \div b) * b <= a
         /\ a < (a \div b) * b + b
OBVIOUS

(* Products of variables, which the solver does not reason about unaided:  *)
(* they are numbers,                                                       *)
LEMMA ProductNat ==
  ASSUME NEW a \in Nat, NEW b \in Nat
  PROVE  a * b \in Nat
OBVIOUS

(* a factor may be cancelled from a strict inequality,                     *)
LEMMA ProductCancel ==
  ASSUME NEW a \in Nat, NEW b \in Nat, NEW c \in Nat, c > 0, a * c < b * c
  PROVE  a < b
OBVIOUS
(* or from one that is not strict,                                         *)
LEMMA ProductCancelEq ==
  ASSUME NEW a \in Nat, NEW b \in Nat, NEW c \in Nat, c > 0, a * c <= b * c
  PROVE  a <= b
OBVIOUS
(* and a product grows with both of its factors.                           *)
LEMMA ProductMono ==
  ASSUME NEW a \in Nat, NEW b \in Nat, NEW c \in Nat, a <= b
  PROVE  a * c <= b * c
OBVIOUS

(* Rounded parts add up to no more than the rounded whole.                 *)
LEMMA FloorSum ==
  ASSUME NEW a \in Nat, NEW b \in Nat, NEW c \in Nat, c > 0
  PROVE  a \div c + b \div c <= (a + b) \div c
<1> DEFINE p == a \div c
           q == b \div c
           r == (a + b) \div c
<1>1. p \in Nat /\ p * c <= a BY DivFact
<1>2. q \in Nat /\ q * c <= b BY DivFact
<1>3. a + b \in Nat OBVIOUS
<1>4. r \in Nat /\ a + b < r * c + c BY <1>3, DivFact
<1> HIDE DEF p, q, r
<1>5. (p + q) * c = p * c + q * c /\ (r + 1) * c = r * c + c BY <1>1, <1>2, <1>4
<1>6. p * c \in Nat /\ q * c \in Nat /\ r * c \in Nat BY <1>1, <1>2, <1>4, ProductNat
<1>7. (p + q) * c < (r + 1) * c BY <1>1, <1>2, <1>4, <1>5, <1>6
<1>8. p + q < r + 1 BY <1>1, <1>2, <1>4, <1>7, ProductCancel
<1> QED BY <1>1, <1>2, <1>4, <1>8 DEF p, q, r

(* and to no more than one unit less.                                      *)
LEMMA FloorSumLoss ==
  ASSUME NEW a \in Nat, NEW b \in Nat, NEW c \in Nat, c > 0
  PROVE  (a + b) \div c <= a \div c + b \div c + 1
<1> DEFINE p == a \div c
           q == b \div c
           r == (a + b) \div c
<1>1. p \in Nat /\ a < p * c + c BY DivFact
<1>2. q \in Nat /\ b < q * c + c BY DivFact
<1>3. a + b \in Nat OBVIOUS
<1>4. r \in Nat /\ r * c <= a + b BY <1>3, DivFact
<1> HIDE DEF p, q, r
<1>5. (p + q + 2) * c = p * c + q * c + 2 * c BY <1>1, <1>2
<1>6. p * c \in Nat /\ q * c \in Nat /\ r * c \in Nat BY <1>1, <1>2, <1>4, ProductNat
<1>7. r * c < (p + q + 2) * c BY <1>1, <1>2, <1>4, <1>5, <1>6
<1>8. p + q + 2 \in Nat BY <1>1, <1>2
<1>9. r < p + q + 2 BY <1>4, <1>7, <1>8, ProductCancel
<1> QED BY <1>1, <1>2, <1>4, <1>9 DEF p, q, r

(* Converting there and back, rounding down both times, gains nothing.     *)
LEMMA RoundTrip ==
  ASSUME NEW n \in Nat, NEW s \in Nat, NEW c \in Nat, s > 0, c > 0
  PROVE  (((n * c) \div s) * s) \div c <= n
<1> DEFINE q == (n * c) \div s
           t == (q * s) \div c
<1>1. n * c \in Nat BY ProductNat
<1>2. q \in Nat /\ q * s <= n * c BY <1>1, DivFact
<1> HIDE DEF q
<1>3. q * s \in Nat BY <1>2, ProductNat
<1>4. t \in Nat /\ t * c <= q * s BY <1>3, DivFact
<1> HIDE DEF t
<1>5. t * c \in Nat BY <1>4, ProductNat
<1>6. t * c <= n * c BY <1>1, <1>2, <1>3, <1>4, <1>5
<1>7. t <= n BY <1>4, <1>6, ProductCancelEq
<1> QED BY <1>7 DEF t, q

(* and loses at most one unit when CELO is worth less than stCELO.         *)
LEMMA RoundTripLoss ==
  ASSUME NEW n \in Nat, NEW s \in Nat, NEW c \in Nat, s > 0, s <= c
  PROVE  n <= (((n * c) \div s) * s) \div c + 1
<1> DEFINE q == (n * c) \div s
           t == (q * s) \div c
<1>1. n * c \in Nat BY ProductNat
<1>2. q \in Nat /\ n * c < q * s + s BY <1>1, DivFact
<1> HIDE DEF q
<1>3. q * s \in Nat BY <1>2, ProductNat
<1>4. t \in Nat /\ q * s < t * c + c BY <1>3, DivFact
<1> HIDE DEF t
<1>5. t * c \in Nat /\ (t + 2) * c = t * c + c + c BY <1>4, ProductNat
<1>6. n * c < (t + 2) * c BY <1>1, <1>2, <1>3, <1>4, <1>5
<1>7. n < t + 2 BY <1>4, <1>6, ProductCancel
<1> QED BY <1>4, <1>7 DEF t, q

(* A withdrawal leaves no less CELO than stCELO.                           *)
LEMMA WithdrawValue ==
  ASSUME NEW n \in Nat, NEW s \in Nat, NEW c \in Nat, s > 0, s <= c, n <= s
  PROVE  s - n <= c - (n * c) \div s
<1> DEFINE q == (n * c) \div s
           e == c - s
           over == e + n + 1
<1>1. n * c \in Nat BY ProductNat
<1>2. q \in Nat /\ q * s <= n * c BY <1>1, DivFact
<1> HIDE DEF q
<1>3. e \in Nat /\ c = s + e OBVIOUS
<1> HIDE DEF e
<1>4. n * c = n * s + n * e BY <1>3
<1>5. n * e <= s * e BY <1>3, ProductMono
<1>6. over * s = s * e + n * s + s BY <1>3
<1>7. n * e \in Nat /\ s * e \in Nat /\ n * s \in Nat BY <1>3, ProductNat
<1>8. q * s < over * s BY <1>2, <1>4, <1>5, <1>6, <1>7
<1>9. over \in Nat BY <1>3
<1> HIDE DEF over
<1>10. q < over BY <1>2, <1>8, <1>9, ProductCancel
<1>11. q < e + n + 1 BY <1>10 DEF over
<1> QED BY <1>2, <1>3, <1>11 DEF q

(* A number of stCELO that one rate gives for an amount is not above what  *)
(* a rate that values CELO higher gives for it.                            *)
LEMMA RateMono ==
  ASSUME NEW w \in Nat, NEW s \in Nat, NEW c \in Nat, NEW s2 \in Nat, NEW c2 \in Nat,
         c > 0, c2 > 0, s2 * c <= s * c2
  PROVE  (w * s2) \div c2 <= (w * s) \div c
<1> DEFINE q2 == (w * s2) \div c2
           q == (w * s) \div c
<1>1. w * s2 \in Nat /\ w * s \in Nat OBVIOUS
<1>2. q2 \in Nat /\ q2 * c2 <= w * s2 BY <1>1, DivFact
<1>3. q \in Nat /\ w * s < q * c + c BY <1>1, DivFact
<1> HIDE DEF q2, q
<1>4. (q2 * c2) * c <= (w * s2) * c BY <1>1, <1>2, ProductMono
<1>5. (s2 * c) * w <= (s * c2) * w BY ProductMono
<1>6. (w * s2) * c = (s2 * c) * w /\ (w * s) * c2 = (s * c2) * w OBVIOUS
<1>7. (q2 * c) * c2 = (q2 * c2) * c BY <1>2
<1>8. (q2 * c) * c2 <= (w * s) * c2 BY <1>1, <1>2, <1>4, <1>5, <1>6, <1>7
<1>9. q2 * c <= w * s
  <2>1. q2 * c \in Nat BY <1>2
  <2> QED BY <1>1, <1>8, <2>1, ProductCancelEq
<1>10. q2 * c < (q + 1) * c BY <1>1, <1>2, <1>3, <1>9
<1>11. q2 < q + 1 BY <1>2, <1>3, <1>10, ProductCancel
<1> QED BY <1>2, <1>3, <1>11 DEF q, q2

(* Minting stCELO for a deposit, rounded down, does not lower the CELO     *)
(* that a stCELO is worth,                                                 *)
LEMMA DepositRate ==
  ASSUME NEW n \in Nat, NEW s \in Nat, NEW c \in Nat, c > 0
  PROVE  (s + (n * s) \div c) * c <= s * (c + n)
<1> DEFINE q == (n * s) \div c
<1>1. n * s \in Nat OBVIOUS
<1>2. q \in Nat /\ q * c <= n * s BY <1>1, DivFact
<1> HIDE DEF q
<1>3. (s + q) * c = s * c + q * c BY <1>2
<1>4. s * (c + n) = s * c + n * s OBVIOUS
<1> QED BY <1>2, <1>3, <1>4 DEF q

(* and neither does paying out a withdrawal, rounded down.                 *)
LEMMA WithdrawRate ==
  ASSUME NEW n \in Nat, NEW s \in Nat, NEW c \in Nat, c > 0, n < s
  PROVE  /\ (n * c) \div s \in Nat
         /\ (n * c) \div s < c
         /\ (s - n) * c <= s * (c - (n * c) \div s)
<1> DEFINE q == (n * c) \div s
<1>1. n * c \in Nat OBVIOUS
<1>2. q \in Nat /\ q * s <= n * c BY <1>1, DivFact
<1> HIDE DEF q
<1>3. (s - n) * c = s * c - n * c OBVIOUS
<1>4. s * (c - q) = s * c - q * s BY <1>2
<1>5. q * s < c * s
  <2>1. (s - n) * c > 0 OBVIOUS
  <2> QED BY <1>2, <1>3, <2>1
<1>6. q < c BY <1>2, <1>5, ProductCancel
<1> QED BY <1>2, <1>3, <1>4, <1>6 DEF q
=============================================================================
