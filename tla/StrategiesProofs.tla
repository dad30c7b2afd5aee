-------------------------- MODULE StrategiesProofs --------------------------
(***************************************************************************)
(* For any groups, accounts and bounds, and at every exchange rate that    *)
(* can come about: what the strategies book for each group is what its     *)
(* holders have, the default strategy covers what was lent to it, and a    *)
(* group lends no more than it has but for a unit at each rounding.  And   *)
(* when the CELO is where the stCELO is, every holder can withdraw.        *)
(*                                                                         *)
(* The argument goes by what a withdrawal and a deposit do to any books    *)
(* (WithdrawalKeeps, DepositKeeps), because a transfer does one to the     *)
(* books the other leaves, which are not those of any state.               *)
(***************************************************************************)
EXTENDS Strategies, AmountsProofs

Strategy == Groups \cup {Default}

LentBy(b) == [g \in Groups |-> Lent(b, g)]

(* The stCELO that accounts with the given strategies have chosen s with.  *)
ChosenBy(st, bal, s) == Total([a \in Accounts |-> IF st[a] = s THEN bal[a] ELSE 0])

ChoicesBy(st, bal) == [s \in Strategy |-> ChosenBy(st, bal, s)]

(* Books b are right when c is what has been chosen.                       *)
Right(b, c) ==
  /\ b \in Books
  /\ \A g \in Groups : b.total[g] = c[g]
  /\ Total(b.default) >= c[Default] + Total(LentBy(b))

(* No group lends more than it has and the roundings r.                    *)
Within(b, r) == \A g \in Groups : Lent(b, g) <= b.total[g] + r[g]

(* CELO never earns less than the stCELO it stands for.                    *)
Valued == Supply <= TotalCelo

(* The inductive invariant.  Valued is what makes a rounding cost no more  *)
(* than one unit.                                                          *)
IInv ==
  /\ TypeOK
  /\ Right(books, ChoicesBy(strategies, balances))
  /\ Within(books, rounded)
  /\ Valued

----------------------------------------------------------------------------
(* Conversions.                                                            *)

(* The supply and the CELO of all groups are amounts, and no account or    *)
(* group has more.                                                         *)
LEMMA SumsFact ==
  ASSUME TypeOK
  PROVE  /\ Supply \in Nat /\ TotalCelo \in Nat
         /\ \A a \in Accounts : balances[a] <= Supply
         /\ \A g \in Groups : celo[g] <= TotalCelo
BY UnitsFinite, ShareBound, GroupsAssumption, AccountsAssumption
   DEF TypeOK, Supply, TotalCelo

(* Where there is no stCELO or no CELO the rate is one to one.             *)
LEMMA RateExists ==
  ASSUME TypeOK
  PROVE  \E s, c \in Nat \ {0} :
           /\ Valued => s <= c
           /\ \A n \in Nat : /\ toStakedCelo(n) = (n * s) \div c
                             /\ toCelo(n) = (n * c) \div s
<1>1. Supply \in Nat /\ TotalCelo \in Nat BY SumsFact
<1>2. CASE Supply = 0 \/ TotalCelo = 0
  <2>1. \A n \in Nat : (n * 1) \div 1 = n
    <3> SUFFICES ASSUME NEW n \in Nat PROVE (n * 1) \div 1 = n OBVIOUS
    <3>1. n * 1 = n /\ n \div 1 = n OBVIOUS
    <3> QED BY <3>1
  <2>2. \A n \in Nat : toStakedCelo(n) = n /\ toCelo(n) = n
    BY <1>2 DEF toStakedCelo, toCelo
  <2>3. \A n \in Nat : /\ toStakedCelo(n) = (n * 1) \div 1
                       /\ toCelo(n) = (n * 1) \div 1
    BY <2>1, <2>2
  <2>4. 1 \in Nat \ {0} OBVIOUS
  <2> QED BY <2>3, <2>4
<1>3. CASE Supply # 0 /\ TotalCelo # 0
  <2>1. \A n \in Nat : /\ toStakedCelo(n) = (n * Supply) \div TotalCelo
                       /\ toCelo(n) = (n * TotalCelo) \div Supply
    BY <1>3 DEF toStakedCelo, toCelo
  <2>2. Supply \in Nat \ {0} /\ TotalCelo \in Nat \ {0} BY <1>1, <1>3
  <2> QED BY <2>1, <2>2 DEF Valued
<1> QED BY <1>2, <1>3

(* Both conversions yield amounts and are monotone; converting to CELO and *)
(* back yields no more, and at most one unit less once a unit of stCELO is *)
(* worth at least one of CELO.                                             *)
LEMMA ConversionFact ==
  ASSUME TypeOK, NEW n \in Nat
  PROVE  /\ toStakedCelo(n) \in Nat /\ toCelo(n) \in Nat
         /\ toStakedCelo(toCelo(n)) <= n
         /\ Valued => /\ toStakedCelo(n) <= n
                      /\ n <= toStakedCelo(toCelo(n)) + 1
         /\ \A m \in Nat : m <= n => /\ toStakedCelo(m) <= toStakedCelo(n)
                                     /\ toCelo(m) <= toCelo(n)
<1>1. PICK s, c \in Nat \ {0} :
        /\ Valued => s <= c
        /\ \A k \in Nat : /\ toStakedCelo(k) = (k * s) \div c
                          /\ toCelo(k) = (k * c) \div s
  BY RateExists
<1>0. s \in Nat /\ c \in Nat /\ s > 0 /\ c > 0 OBVIOUS
<1>2. n * s \in Nat /\ n * c \in Nat BY <1>0, ProductNat
<1>8. /\ (n * s) \div c \in Nat /\ ((n * s) \div c) * c <= n * s
      /\ (n * c) \div s \in Nat
  BY <1>0, <1>2, DivFact
<1>3. toStakedCelo(n) \in Nat /\ toCelo(n) \in Nat BY <1>1, <1>8
<1>4. toStakedCelo(toCelo(n)) = (((n * c) \div s) * s) \div c BY <1>1, <1>3
<1>5. toStakedCelo(toCelo(n)) <= n BY <1>0, <1>4, RoundTrip
<1>6. ASSUME Valued PROVE toStakedCelo(n) <= n /\ n <= toStakedCelo(toCelo(n)) + 1
  <2>1. s <= c BY <1>1, <1>6
  <2>2. n <= toStakedCelo(toCelo(n)) + 1 BY <1>0, <1>4, <2>1, RoundTripLoss
  <2>3. n * s <= n * c
    <3>1. s * n <= c * n BY <1>0, <2>1, ProductMono
    <3>2. s * n = n * s /\ c * n = n * c BY <1>0
    <3> QED BY <3>1, <3>2
  <2>4. toStakedCelo(n) * c <= n * s BY <1>1, <1>8
  <2>5. toStakedCelo(n) * c \in Nat BY <1>0, <1>3, ProductNat
  <2>6. toStakedCelo(n) * c <= n * c BY <1>2, <2>3, <2>4, <2>5
  <2>7. toStakedCelo(n) <= n BY <1>0, <1>3, <2>6, ProductCancelEq
  <2> QED BY <2>2, <2>7
<1>7. ASSUME NEW m \in Nat, m <= n
      PROVE  toStakedCelo(m) <= toStakedCelo(n) /\ toCelo(m) <= toCelo(n)
  <2>1. n - m \in Nat BY <1>7
  <2>2. /\ m * s \in Nat /\ (n - m) * s \in Nat /\ m * s + (n - m) * s = n * s
        /\ m * c \in Nat /\ (n - m) * c \in Nat /\ m * c + (n - m) * c = n * c
    BY <2>1, ProductNat
  <2>3. /\ (m * s) \div c + ((n - m) * s) \div c <= (n * s) \div c
        /\ (m * c) \div s + ((n - m) * c) \div s <= (n * c) \div s
    BY <2>2, FloorSum
  <2>4. /\ (m * s) \div c \in Nat /\ ((n - m) * s) \div c \in Nat
        /\ (m * c) \div s \in Nat /\ ((n - m) * c) \div s \in Nat
    BY <2>2, DivFact
  <2> QED BY <1>1, <1>2, <2>3, <2>4, DivFact
<1> QED BY <1>3, <1>5, <1>6, <1>7

----------------------------------------------------------------------------
(* What the default strategy does.                                         *)

(* Amounts of the active groups, extended with zero to all groups, have    *)
(* the same sum.                                                           *)
LEMMA OverGroupsFact ==
  ASSUME NEW f \in [ActiveGroups -> Nat]
  PROVE  /\ OverGroups(f) \in [Groups -> Nat]
         /\ Total(OverGroups(f)) = Total(f)
<1>1. OverGroups(f) \in [Groups -> Nat] BY DEF OverGroups
<1>2. Units(OverGroups(f)) = Units(f)
  <2>1. Units(OverGroups(f)) = {u \in Groups \X Nat : 1 <= u[2] /\ u[2] <= OverGroups(f)[u[1]]}
    BY <1>1 DEF Units, OverGroups
  <2>2. Units(f) = {u \in ActiveGroups \X Nat : 1 <= u[2] /\ u[2] <= f[u[1]]}
    BY DEF Units
  <2>3. \A g \in Groups : OverGroups(f)[g] = IF g \in ActiveGroups THEN f[g] ELSE 0
    BY DEF OverGroups
  <2> QED BY <2>1, <2>2, <2>3, GroupsAssumption
<1> QED BY <1>1, <1>2 DEF Total

(* What is spread over the active groups adds up to what there was to      *)
(* spread.                                                                 *)
LEMMA SpreadFact ==
  ASSUME NEW n \in Nat, NEW f \in Spreads(n)
  PROVE  f \in [Groups -> Nat] /\ Total(f) = n
<1>1. PICK h \in [ActiveGroups -> 0 .. n] : f = OverGroups(h) /\ Total(h) = n
  BY DEF Spreads
<1>2. h \in [ActiveGroups -> Nat] OBVIOUS
<1> QED BY <1>1, <1>2, OverGroupsFact

(* The votes of a withdrawal add up to it, and the stCELO taken for them   *)
(* to no more than it is worth.                                            *)
LEMMA TakenFact ==
  ASSUME TypeOK, NEW b \in Books, NEW n \in Nat, NEW w \in DefaultWithdrawals(b, n)
  PROVE  /\ w.votes \in [Groups -> Nat] /\ Total(w.votes) = n
         /\ w.taken \in [Groups -> Nat] /\ \A g \in Groups : w.taken[g] <= b.default[g]
         /\ Total(w.taken) <= toStakedCelo(n)
<1>1. /\ w.votes \in Spreads(n) /\ w.taken \in Takings(b)
      /\ \A g \in Groups : w.taken[g] <= toStakedCelo(w.votes[g])
  BY DEF DefaultWithdrawals
<1>2. w.votes \in [Groups -> Nat] /\ Total(w.votes) = n BY <1>1, SpreadFact
<1>3. w.taken \in [Groups -> Nat] /\ \A g \in Groups : w.taken[g] <= b.default[g]
  <2>1. PICK h \in [ActiveGroups -> 0 .. Total(b.default)] :
          w.taken = OverGroups(h) /\ \A g \in ActiveGroups : h[g] <= b.default[g]
    BY <1>1 DEF Takings
  <2>2. b.default \in [Groups -> Nat] BY DEF Books
  <2>3. h \in [ActiveGroups -> Nat] BY <2>1
  <2> QED BY <2>1, <2>2, <2>3, OverGroupsFact DEF OverGroups
<1>4. PICK s, c \in Nat \ {0} :
        \A k \in Nat : toStakedCelo(k) = (k * s) \div c
  BY RateExists
<1>5. \A g \in Groups : Times(w.taken, c)[g] <= Times(w.votes, s)[g]
  <2> SUFFICES ASSUME NEW g \in Groups PROVE w.taken[g] * c <= w.votes[g] * s
    BY <1>2, <1>3 DEF Times
  <2> DEFINE v == w.votes[g]
             t == w.taken[g]
             q == (v * s) \div c
  <2>1. v \in Nat /\ t \in Nat BY <1>2, <1>3
  <2>2. t <= q BY <1>1, <1>4, <2>1
  <2> HIDE DEF v, t
  <2>3. v * s \in Nat BY <2>1, ProductNat
  <2>4. q \in Nat /\ q * c <= v * s BY <2>3, DivFact
  <2> HIDE DEF q
  <2>5. t * c <= q * c BY <2>1, <2>2, <2>4, ProductMono
  <2>6. t * c \in Nat /\ q * c \in Nat BY <2>1, <2>4, ProductNat
  <2>7. t * c <= v * s BY <2>3, <2>4, <2>5, <2>6
  <2> QED BY <2>7 DEF v, t
<1>6. Total(w.taken) * c <= n * s
  <2>1. /\ Times(w.taken, c) \in [Groups -> Nat]
        /\ Total(Times(w.taken, c)) = Total(w.taken) * c
        /\ Times(w.votes, s) \in [Groups -> Nat]
        /\ Total(Times(w.votes, s)) = Total(w.votes) * s
    BY <1>2, <1>3, TotalTimes, GroupsAssumption
  <2>2. Total(Times(w.taken, c)) <= Total(Times(w.votes, s))
    BY <1>5, <2>1, TotalMono, GroupsAssumption
  <2> QED BY <1>2, <2>1, <2>2
<1>7. Total(w.taken) \in Nat BY <1>3, UnitsFinite, GroupsAssumption
<1>8. Total(w.taken) <= toStakedCelo(n)
  <2> DEFINE t == Total(w.taken)
             q == (n * s) \div c
  <2>1. n * s \in Nat BY ProductNat
  <2>2. q \in Nat /\ n * s < q * c + c BY <2>1, DivFact
  <2>3. toStakedCelo(n) = q BY <1>4
  <2>4. t \in Nat /\ t * c <= n * s BY <1>6, <1>7
  <2> HIDE DEF q, t
  <2>5. t * c \in Nat /\ q * c \in Nat /\ (q + 1) * c = q * c + c BY <2>2, <2>4, ProductNat
  <2>6. t * c < (q + 1) * c BY <2>1, <2>2, <2>4, <2>5
  <2>7. t < q + 1 BY <2>2, <2>4, <2>6, ProductCancel
  <2>8. t <= q BY <2>2, <2>4, <2>7
  <2> QED BY <2>3, <2>8 DEF t
<1> QED BY <1>2, <1>3, <1>8

(* A withdrawal takes from the default strategy's books no more than the   *)
(* stCELO it is for.                                                       *)
LEMMA DefaultWithdrawalFact ==
  ASSUME TypeOK, NEW b \in Books, NEW n \in Nat, NEW w \in DefaultWithdrawals(b, n)
  PROVE  /\ DefaultWithdrawal(b, w) = [b EXCEPT !.default = Minus(b.default, w.taken)]
         /\ DefaultWithdrawal(b, w) \in Books
         /\ \E taken \in 0 .. toStakedCelo(n) :
              Total(DefaultWithdrawal(b, w).default) = Total(b.default) - taken
<1>1. b.default \in [Groups -> Nat] BY DEF Books
<1>2. /\ w.taken \in [Groups -> Nat] /\ \A g \in Groups : w.taken[g] <= b.default[g]
      /\ Total(w.taken) <= toStakedCelo(n)
  BY TakenFact
<1>3. /\ Minus(b.default, w.taken) \in [Groups -> Nat]
      /\ Total(Minus(b.default, w.taken)) = Total(b.default) - Total(w.taken)
  BY <1>1, <1>2, TotalMinus, GroupsAssumption
<1>4. DefaultWithdrawal(b, w) = [b EXCEPT !.default = Minus(b.default, w.taken)]
  BY DEF DefaultWithdrawal
<1>5. DefaultWithdrawal(b, w) \in Books BY <1>3, <1>4 DEF Books
<1>6. DefaultWithdrawal(b, w).default = Minus(b.default, w.taken)
  BY <1>4 DEF Books
<1>7. Total(w.taken) \in 0 .. toStakedCelo(n)
  BY <1>2, UnitsFinite, GroupsAssumption, ConversionFact
<1> QED BY <1>3, <1>4, <1>5, <1>6, <1>7

(* A deposit adds its stCELO to the default strategy's books and its CELO  *)
(* to the votes.                                                           *)
LEMMA DefaultDepositFact ==
  ASSUME NEW b \in Books, NEW n \in Nat, NEW stCelo \in Nat, NEW ignore,
         NEW d \in DefaultDeposits(b, n, stCelo, ignore)
  PROVE  /\ DefaultDeposit(b, d) = [b EXCEPT !.default = Plus(b.default, d.added)]
         /\ DefaultDeposit(b, d) \in Books
         /\ Total(DefaultDeposit(b, d).default) = Total(b.default) + stCelo
         /\ d.votes \in [Groups -> Nat] /\ Total(d.votes) = n
<1>1. b.default \in [Groups -> Nat] BY DEF Books
<1>2. d.votes \in Spreads(n) /\ d.added \in Spreads(stCelo) BY DEF DefaultDeposits
<1>3. /\ d.votes \in [Groups -> Nat] /\ Total(d.votes) = n
      /\ d.added \in [Groups -> Nat] /\ Total(d.added) = stCelo
  BY <1>2, SpreadFact
<1>4. Plus(b.default, d.added) \in [Groups -> Nat] BY <1>1, <1>3 DEF Plus
<1>5. Total(Plus(b.default, d.added)) = Total(b.default) + stCelo
  BY <1>1, <1>3, TotalPlus, GroupsAssumption
<1>6. DefaultDeposit(b, d) = [b EXCEPT !.default = Plus(b.default, d.added)]
  BY DEF DefaultDeposit
<1>7. DefaultDeposit(b, d) \in Books /\ DefaultDeposit(b, d).default = Plus(b.default, d.added)
  BY <1>4, <1>6 DEF Books
<1> QED BY <1>3, <1>5, <1>6, <1>7

----------------------------------------------------------------------------
(* Withdrawals and deposits, on any books.                                 *)

(* n more, and n less, has been chosen with s.                             *)
MoreChosen(c, s, n) == [c EXCEPT ![s] = @ + n]

LessChosen(c, s, n) == [c EXCEPT ![s] = @ - n]

(* The roundings r, with that of a withdrawal from books b if it has one.  *)
Counted(b, s, n, r) == IF Rounds(b, s, n) THEN [r EXCEPT ![s] = @ + 1] ELSE r

(* What a group has lent to the default strategy is part of all that is    *)
(* lent.                                                                   *)
LEMMA LentFact ==
  ASSUME NEW b \in Books
  PROVE  /\ LentBy(b) \in [Groups -> Nat]
         /\ Total(LentBy(b)) \in Nat /\ Total(b.default) \in Nat
         /\ \A g \in Groups : Lent(b, g) \in Nat /\ Lent(b, g) <= Total(LentBy(b))
<1>1. /\ b.overflow \in [Groups -> Nat] /\ b.unhealthy \in [Groups -> Nat]
      /\ b.default \in [Groups -> Nat]
  BY DEF Books
<1>2. LentBy(b) \in [Groups -> Nat] BY <1>1 DEF LentBy, Lent
<1>3. \A g \in Groups : LentBy(b)[g] = Lent(b, g) BY DEF LentBy
<1> QED BY <1>1, <1>2, <1>3, UnitsFinite, ShareBound, GroupsAssumption

(* Books b become b2, where only group s may lend another amount.          *)
LEMMA OneGroupChanges ==
  ASSUME NEW b \in Books, NEW b2 \in Books, NEW s \in Groups,
         \A g \in Groups \ {s} : Lent(b2, g) = Lent(b, g)
  PROVE  Total(LentBy(b2)) = Total(LentBy(b)) - Lent(b, s) + Lent(b2, s)
<1> DEFINE k == LentBy(b)
           l == Lent(b2, s)
<1>1. k \in [Groups -> Nat] /\ k[s] = Lent(b, s) BY LentFact DEF LentBy
<1>2. l \in Nat BY LentFact
<1>3. LentBy(b2) = [k EXCEPT ![s] = l] BY <1>1 DEF LentBy
<1> HIDE DEF k, l
<1>4. Total([k EXCEPT ![s] = l]) = Total(k) - k[s] + l
  BY <1>1, <1>2, TotalExcept, GroupsAssumption
<1> QED BY <1>1, <1>3, <1>4 DEF k, l

(* Withdrawing by a strategy keeps the books right for what is chosen      *)
(* after it, and within what the roundings allow.                          *)
LEMMA WithdrawalKeeps ==
  ASSUME TypeOK, Valued,
         NEW b, NEW c \in [Strategy -> Nat], Right(b, c),
         NEW r \in [Groups -> Nat], Within(b, r),
         NEW s \in Strategy, NEW n \in Nat, n <= c[s], NEW w \in Withdrawals(b, s, n)
  PROVE  /\ Right(DistributeWithdrawals(b, s, n, w), LessChosen(c, s, n))
         /\ Within(DistributeWithdrawals(b, s, n, w), Counted(b, s, n, r))
<1> DEFINE f == FromDefault(b, s, toCelo(n))
           less == DefaultWithdrawal(b, w)
           b2 == DistributeWithdrawals(b, s, n, w)
<1>1. b \in Books /\ Default \notin Groups BY GroupsAssumption DEF Right
<1>2. toCelo(n) \in Nat /\ toStakedCelo(toCelo(n)) <= n BY ConversionFact
<1>3. w \in DefaultWithdrawals(b, f) BY DEF Withdrawals
<1>4. CASE s = Default
  <2>1. f = toCelo(n) /\ b2 = less /\ ~Rounds(b, s, n)
    BY <1>4 DEF FromDefault, DistributeWithdrawals, Rounds
  <2>2. PICK taken \in 0 .. toStakedCelo(f) :
          Total(less.default) = Total(b.default) - taken
    BY <1>1, <1>2, <1>3, <2>1, DefaultWithdrawalFact
  <2>3. less \in Books /\ less = [b EXCEPT !.default = Minus(b.default, w.taken)]
    BY <1>1, <1>2, <1>3, <2>1, DefaultWithdrawalFact
  <2>4. /\ less.total = b.total /\ less.overflow = b.overflow
        /\ less.unhealthy = b.unhealthy
    BY <1>1, <2>3 DEF Books
  <2>5. LentBy(less) = LentBy(b) /\ \A g \in Groups : Lent(less, g) = Lent(b, g)
    BY <2>4 DEF LentBy, Lent
  <2>6. Total(LentBy(b)) \in Nat /\ Total(b.default) \in Nat BY <1>1, LentFact
  <2>7. taken <= n /\ taken \in Nat BY <1>2, <2>1, <2>2, ConversionFact
  <2>8. Total(less.default) >= (c[Default] - n) + Total(LentBy(less))
    BY <1>4, <2>2, <2>5, <2>6, <2>7 DEF Right, Strategy
  <2> HIDE DEF less, b2, f
  <2>9. Right(less, [c EXCEPT ![s] = @ - n])
    BY <1>1, <1>4, <2>3, <2>4, <2>8 DEF Right, Strategy
  <2>10. Within(less, r) BY <2>4, <2>5 DEF Within
  <2> QED BY <2>1, <2>9, <2>10 DEF b2, LessChosen, Counted
<1>5. CASE s \in Groups
  <2> DEFINE l == Lent(b, s)
             moved == toStakedCelo(f)
             back == MinOf(b.overflow[s], moved)
  <2>1. s # Default BY <1>1, <1>5
  <2>2. l \in Nat /\ Total(LentBy(b)) \in Nat /\ Total(b.default) \in Nat
    BY <1>1, <1>5, LentFact
  <2>3. toCelo(l) \in Nat /\ toStakedCelo(toCelo(l)) <= l BY <2>2, ConversionFact
  <2>4. f = MinOf(toCelo(n), toCelo(l)) BY <2>1 DEF FromDefault
  <2>5. f \in Nat /\ f <= toCelo(n) /\ f <= toCelo(l) BY <1>2, <2>3, <2>4 DEF MinOf
  <2>6. moved \in Nat /\ moved <= n /\ moved <= l
    <3>1. moved <= toStakedCelo(toCelo(n)) /\ moved <= toStakedCelo(toCelo(l))
      BY <1>2, <2>3, <2>5, ConversionFact
    <3>2. /\ moved \in Nat /\ toStakedCelo(toCelo(n)) \in Nat
          /\ toStakedCelo(toCelo(l)) \in Nat
      BY <1>2, <2>3, <2>5, ConversionFact
    <3> QED BY <1>2, <2>2, <2>3, <3>1, <3>2
  <2>7. MinOf(n, l) <= moved + 1
    <3>1. CASE n <= l
      <4>1. toCelo(n) <= toCelo(l) BY <2>2, <3>1, ConversionFact
      <4>2. f = toCelo(n) BY <1>2, <2>3, <2>4, <4>1 DEF MinOf
      <4>3. n <= moved + 1 BY <4>2, ConversionFact
      <4> QED BY <2>2, <3>1, <4>3 DEF MinOf
    <3>2. CASE l < n
      <4>1. toCelo(l) <= toCelo(n) BY <2>2, <3>2, ConversionFact
      <4>2. f = toCelo(l) BY <1>2, <2>3, <2>4, <4>1 DEF MinOf
      <4>3. l <= moved + 1 BY <2>2, <4>2, ConversionFact
      <4> QED BY <2>2, <3>2, <4>3 DEF MinOf
    <3> QED BY <2>2, <3>1, <3>2
  <2>8. PICK taken \in 0 .. moved : Total(less.default) = Total(b.default) - taken
    BY <1>1, <1>3, <2>5, DefaultWithdrawalFact
  <2>9. less \in Books /\ less = [b EXCEPT !.default = Minus(b.default, w.taken)]
    BY <1>1, <1>3, <2>5, DefaultWithdrawalFact
  <2>10. b2 = Returned([less EXCEPT !.total[s] = @ - n], s, f)
    BY <2>1 DEF DistributeWithdrawals
  <2>11. Rounds(b, s, n) <=> moved < MinOf(n, l) BY <2>1 DEF Rounds
  <2>12. /\ b.overflow \in [Groups -> Nat] /\ b.unhealthy \in [Groups -> Nat]
         /\ b.total \in [Groups -> Nat] /\ l = b.overflow[s] + b.unhealthy[s]
         /\ b.total[s] = c[s]
    BY <1>1, <1>5 DEF Books, Lent, Right
  <2>13. /\ less.total = b.total /\ less.overflow = b.overflow
         /\ less.unhealthy = b.unhealthy
    BY <1>1, <2>9 DEF Books
  <2> HIDE DEF less, f, moved, l
  <2>14. /\ back \in Nat /\ back <= b.overflow[s] /\ back <= moved
         /\ moved - back <= b.unhealthy[s]
    BY <1>5, <2>6, <2>12 DEF MinOf
  <2>15. b2 = [less EXCEPT !.total = [b.total EXCEPT ![s] = @ - n],
                           !.overflow = [b.overflow EXCEPT ![s] = @ - back],
                           !.unhealthy = [b.unhealthy EXCEPT ![s] = @ - (moved - back)]]
    BY <2>9, <2>10, <2>13 DEF Returned, Books, moved
  <2> HIDE DEF b2, back
  <2>16. /\ b2.total = [b.total EXCEPT ![s] = @ - n]
         /\ b2.overflow = [b.overflow EXCEPT ![s] = @ - back]
         /\ b2.unhealthy = [b.unhealthy EXCEPT ![s] = @ - (moved - back)]
         /\ b2.default = less.default
    BY <2>9, <2>15 DEF Books
  <2>17. b2 \in Books
    <3>1. b2.total \in [Groups -> Nat] BY <1>5, <2>12, <2>16
    <3>2. b2.overflow \in [Groups -> Nat] BY <1>5, <2>12, <2>14, <2>16
    <3>3. b2.unhealthy \in [Groups -> Nat] BY <1>5, <2>6, <2>12, <2>14, <2>16
    <3> QED BY <2>9, <2>15, <2>16, <3>1, <3>2, <3>3 DEF Books
  <2>18. /\ Lent(b2, s) = l - moved /\ b2.total[s] = c[s] - n
         /\ \A g \in Groups \ {s} : Lent(b2, g) = Lent(b, g) /\ b2.total[g] = b.total[g]
    BY <1>5, <2>6, <2>12, <2>14, <2>16 DEF Lent
  <2>19. l - moved \in Nat /\ c[s] - n \in Nat BY <2>2, <2>6
  <2>20. Total(LentBy(b2)) = Total(LentBy(b)) - l + (l - moved)
    <3>1. Total(LentBy(b2)) = Total(LentBy(b)) - Lent(b, s) + Lent(b2, s)
      BY <1>1, <1>5, <2>17, <2>18, OneGroupChanges
    <3> QED BY <2>18, <3>1 DEF l
  <2>21. Total(b2.default) >= c[Default] + Total(LentBy(b2))
    BY <2>2, <2>6, <2>8, <2>16, <2>20 DEF Right, Strategy
  <2>22. Right(b2, [c EXCEPT ![s] = @ - n])
    BY <1>1, <1>5, <2>1, <2>12, <2>17, <2>18, <2>21 DEF Right, Strategy
  <2>23. l - moved <= (c[s] - n) + r[s] + (IF moved < MinOf(n, l) THEN 1 ELSE 0)
    <3>1. l <= c[s] + r[s] BY <1>5, <2>12 DEF Within, l
    <3>2. c[s] \in Nat /\ r[s] \in Nat BY <1>5
    <3> QED BY <2>2, <2>6, <2>7, <3>1, <3>2 DEF MinOf
  <2>24. Within(b2, IF Rounds(b, s, n) THEN [r EXCEPT ![s] = @ + 1] ELSE r)
    BY <1>5, <2>11, <2>18, <2>19, <2>23 DEF Within
  <2> QED BY <2>22, <2>24 DEF b2, LessChosen, Counted
<1> QED BY <1>4, <1>5 DEF Strategy

(* Distributing votes by a strategy keeps the books right for what is      *)
(* chosen after it.                                                        *)
LEMMA DepositKeeps ==
  ASSUME TypeOK,
         NEW b, NEW c \in [Strategy -> Nat], Right(b, c),
         NEW r \in [Groups -> Nat], Within(b, r),
         NEW s \in Strategy, NEW n \in Nat, NEW stCelo \in Nat,
         NEW receivable \in Receivables(s, n),
         NEW d \in Deposits(b, s, n, stCelo, receivable)
  PROVE  /\ Right(DistributeVotes(b, s, n, stCelo, receivable, d), MoreChosen(c, s, stCelo))
         /\ Within(DistributeVotes(b, s, n, stCelo, receivable, d), r)
         /\ DepositVotes(s, n, receivable, d) \in [Groups -> Nat]
         /\ Total(DepositVotes(s, n, receivable, d)) = n
<1> DEFINE placed == Placed(s, n, receivable)
           spilled == Spilled(s, n, stCelo, receivable)
           more == DefaultDeposit(b, d)
           b2 == DistributeVotes(b, s, n, stCelo, receivable, d)
<1>1. b \in Books /\ Default \notin Groups BY GroupsAssumption DEF Right
<1>2. receivable \in Nat BY DEF Receivables
<1>3. placed \in Nat /\ placed <= n /\ n - placed \in Nat BY <1>2 DEF Placed, MinOf
<1>4. spilled \in Nat /\ spilled <= stCelo /\ (s = Default => spilled = stCelo)
  <2>1. toStakedCelo(n - placed) \in Nat BY <1>3, ConversionFact
  <2> QED BY <2>1 DEF Spilled, MinOf
<1>5. d \in DefaultDeposits(b, n - placed, spilled, s) BY DEF Deposits
<1> HIDE DEF placed, spilled, b2
<1>6. /\ more = [b EXCEPT !.default = Plus(b.default, d.added)]
      /\ more \in Books /\ Total(more.default) = Total(b.default) + spilled
      /\ d.votes \in [Groups -> Nat] /\ Total(d.votes) = n - placed
  BY <1>1, <1>3, <1>4, <1>5, DefaultDepositFact
<1>7. /\ more.total = b.total /\ more.overflow = b.overflow
      /\ more.unhealthy = b.unhealthy
  BY <1>1, <1>6 DEF Books
<1>8. Total(LentBy(b)) \in Nat /\ Total(b.default) \in Nat BY <1>1, LentFact
<1> HIDE DEF more
<1>9. CASE s = Default
  <2>1. b2 = more BY <1>9 DEF b2, more, DistributeVotes
  <2>2. LentBy(b2) = LentBy(b) /\ \A g \in Groups : Lent(b2, g) = Lent(b, g)
    BY <1>7, <2>1 DEF LentBy, Lent
  <2>3. Total(b2.default) >= (c[Default] + stCelo) + Total(LentBy(b2))
    BY <1>4, <1>6, <1>8, <1>9, <2>1, <2>2 DEF Right, Strategy
  <2>4. Right(b2, [c EXCEPT ![s] = @ + stCelo])
    BY <1>1, <1>6, <1>7, <1>9, <2>1, <2>3 DEF Right, Strategy
  <2>5. Within(b2, r) BY <1>7, <2>1, <2>2 DEF Within
  <2>6. /\ DepositVotes(s, n, receivable, d) = d.votes /\ placed = 0
    BY <1>9 DEF DepositVotes, placed, Placed
  <2> QED BY <1>6, <2>4, <2>5, <2>6 DEF b2, MoreChosen
<1>10. CASE s \in Groups
  <2>1. s # Default BY <1>1, <1>10
  <2> DEFINE over == IF Eligible(s) THEN spilled ELSE 0
             un == IF Eligible(s) THEN 0 ELSE spilled
  <2>2. /\ b.overflow \in [Groups -> Nat] /\ b.unhealthy \in [Groups -> Nat]
        /\ b.total \in [Groups -> Nat]
    BY <1>1 DEF Books
  <2>3. over \in Nat /\ un \in Nat /\ over + un = spilled BY <1>4
  <2>4. b2 = [more EXCEPT !.total = [b.total EXCEPT ![s] = @ + stCelo],
                          !.overflow = [b.overflow EXCEPT ![s] = @ + over],
                          !.unhealthy = [b.unhealthy EXCEPT ![s] = @ + un]]
    <3>1. CASE Eligible(s)
      <4>1. b2 = [more EXCEPT !.total[s] = @ + stCelo, !.overflow[s] = @ + spilled]
        BY <2>1, <3>1 DEF b2, DistributeVotes, more, spilled
      <4>2. [b.unhealthy EXCEPT ![s] = @ + un] = more.unhealthy
        BY <1>7, <1>10, <2>2, <3>1
      <4> QED BY <1>6, <1>7, <3>1, <4>1, <4>2 DEF Books
    <3>2. CASE ~Eligible(s)
      <4>1. b2 = [more EXCEPT !.total[s] = @ + stCelo, !.unhealthy[s] = @ + spilled]
        BY <2>1, <3>2 DEF b2, DistributeVotes, more, spilled
      <4>2. [b.overflow EXCEPT ![s] = @ + over] = more.overflow
        BY <1>7, <1>10, <2>2, <3>2
      <4> QED BY <1>6, <1>7, <3>2, <4>1, <4>2 DEF Books
    <3> QED BY <3>1, <3>2
  <2> HIDE DEF over, un
  <2>5. /\ b2.total = [b.total EXCEPT ![s] = @ + stCelo]
        /\ b2.overflow = [b.overflow EXCEPT ![s] = @ + over]
        /\ b2.unhealthy = [b.unhealthy EXCEPT ![s] = @ + un]
        /\ b2.default = more.default
    BY <1>6, <2>4 DEF Books
  <2>6. b2 \in Books
    <3>1. b2.total \in [Groups -> Nat] BY <1>10, <2>2, <2>5
    <3>2. b2.overflow \in [Groups -> Nat] BY <1>10, <2>2, <2>3, <2>5
    <3>3. b2.unhealthy \in [Groups -> Nat] BY <1>10, <2>2, <2>3, <2>5
    <3> QED BY <1>6, <2>4, <2>5, <3>1, <3>2, <3>3 DEF Books
  <2>7. /\ Lent(b2, s) = Lent(b, s) + spilled /\ Lent(b, s) \in Nat
        /\ b2.total[s] = b.total[s] + stCelo
        /\ \A g \in Groups \ {s} : Lent(b2, g) = Lent(b, g) /\ b2.total[g] = b.total[g]
    BY <1>10, <2>2, <2>3, <2>5 DEF Lent
  <2>8. Total(LentBy(b2)) = Total(LentBy(b)) + spilled
    <3>1. Total(LentBy(b2)) = Total(LentBy(b)) - Lent(b, s) + Lent(b2, s)
      BY <1>1, <1>10, <2>6, <2>7, OneGroupChanges
    <3> QED BY <1>4, <1>8, <2>7, <3>1
  <2>9. Total(b2.default) >= c[Default] + Total(LentBy(b2))
    BY <1>4, <1>6, <1>8, <2>5, <2>8 DEF Right, Strategy
  <2>10. Right(b2, [c EXCEPT ![s] = @ + stCelo])
    BY <1>10, <2>1, <2>6, <2>7, <2>9 DEF Right, Strategy
  <2>11. Within(b2, r)
    BY <1>4, <1>10, <2>2, <2>7 DEF Within
  <2> DEFINE votes == [d.votes EXCEPT ![s] = d.votes[s] + placed]
  <2>12. DepositVotes(s, n, receivable, d) = votes
    BY <2>1 DEF DepositVotes, placed
  <2>13. d.votes[s] + placed \in Nat BY <1>3, <1>6, <1>10
  <2>14. votes \in [Groups -> Nat] BY <1>6, <1>10, <2>13
  <2>15. Total(votes) = Total(d.votes) - d.votes[s] + (d.votes[s] + placed)
    BY <1>6, <1>10, <2>13, TotalExcept, GroupsAssumption
  <2>16. Total(votes) = n BY <1>3, <1>6, <1>10, <2>15
  <2> QED BY <2>10, <2>11, <2>12, <2>14, <2>16 DEF b2, MoreChosen
<1> QED BY <1>9, <1>10 DEF Strategy

----------------------------------------------------------------------------
(* What has been chosen.                                                   *)

(* n of what has been chosen is chosen differently.                        *)
MoveChoice(c, from, to, n) == MoreChosen(LessChosen(c, from, n), to, n)

(* What is chosen of each strategy is an amount, no less than the balance  *)
(* of any account that chose it.                                           *)
LEMMA ChoicesFact ==
  ASSUME NEW st \in [Accounts -> Strategy], NEW bal \in [Accounts -> Nat]
  PROVE  /\ ChoicesBy(st, bal) \in [Strategy -> Nat]
         /\ \A a \in Accounts : bal[a] <= ChoicesBy(st, bal)[st[a]]
<1> DEFINE part(s) == [a \in Accounts |-> IF st[a] = s THEN bal[a] ELSE 0]
<1>1. \A s \in Strategy : part(s) \in [Accounts -> Nat] OBVIOUS
<1>2. \A s \in Strategy : /\ Total(part(s)) \in Nat
                          /\ \A a \in Accounts : part(s)[a] <= Total(part(s))
  BY <1>1, UnitsFinite, ShareBound, AccountsAssumption
<1>3. \A s \in Strategy : ChoicesBy(st, bal)[s] = Total(part(s))
  BY DEF ChoicesBy, ChosenBy
<1>4. ChoicesBy(st, bal) \in [Strategy -> Nat] BY <1>2 DEF ChoicesBy, ChosenBy
<1>5. \A a \in Accounts : part(st[a])[a] = bal[a] /\ st[a] \in Strategy OBVIOUS
<1> QED BY <1>2, <1>3, <1>4, <1>5

(* When one account's balance changes, what is chosen of its strategy      *)
(* changes as much, and of no other.                                       *)
LEMMA BalanceChanges ==
  ASSUME NEW st \in [Accounts -> Strategy], NEW bal \in [Accounts -> Nat],
         NEW bal2 \in [Accounts -> Nat], NEW a \in Accounts,
         \A x \in Accounts \ {a} : bal2[x] = bal[x]
  PROVE  \A s \in Strategy :
           ChoicesBy(st, bal2)[s]
             = IF s = st[a] THEN ChoicesBy(st, bal)[s] - bal[a] + bal2[a]
               ELSE ChoicesBy(st, bal)[s]
<1> DEFINE part(s) == [x \in Accounts |-> IF st[x] = s THEN bal[x] ELSE 0]
           part2(s) == [x \in Accounts |-> IF st[x] = s THEN bal2[x] ELSE 0]
<1>1. \A s \in Strategy : part(s) \in [Accounts -> Nat] OBVIOUS
<1>2. ASSUME NEW s \in Strategy, s # st[a] PROVE part2(s) = part(s)
  BY <1>2
<1>3. part2(st[a]) = [part(st[a]) EXCEPT ![a] = bal2[a]] OBVIOUS
<1>4. part(st[a])[a] = bal[a] /\ st[a] \in Strategy /\ bal2[a] \in Nat OBVIOUS
<1>5. Total(part2(st[a])) = Total(part(st[a])) - bal[a] + bal2[a]
  <2>1. part(st[a]) \in [Accounts -> Nat] BY <1>1, <1>4
  <2> DEFINE k == part(st[a])
             v == bal2[a]
  <2> HIDE DEF k, v
  <2>2. Total([k EXCEPT ![a] = v]) = Total(k) - k[a] + v
    BY <1>4, <2>1, TotalExcept, AccountsAssumption DEF k, v
  <2> QED BY <1>3, <1>4, <2>2 DEF k, v
<1>6. \A s \in Strategy : ChoicesBy(st, bal)[s] = Total(part(s))
  BY DEF ChoicesBy, ChosenBy
<1>7. \A s \in Strategy : ChoicesBy(st, bal2)[s] = Total(part2(s))
  BY DEF ChoicesBy, ChosenBy
<1> HIDE DEF part, part2
<1> QED BY <1>2, <1>4, <1>5, <1>6, <1>7

(* An account gets or gives n.                                             *)
MoreOf(bal, a, n) == [bal EXCEPT ![a] = @ + n]

LessOf(bal, a, n) == [bal EXCEPT ![a] = @ - n]

(* An account that gets n adds n to the supply and to its strategy.        *)
LEMMA MoreHeld ==
  ASSUME NEW st \in [Accounts -> Strategy], NEW bal \in [Accounts -> Nat],
         NEW a \in Accounts, NEW n \in Nat
  PROVE  /\ MoreOf(bal, a, n) \in [Accounts -> Nat]
         /\ Total(MoreOf(bal, a, n)) = Total(bal) + n
         /\ ChoicesBy(st, MoreOf(bal, a, n)) = MoreChosen(ChoicesBy(st, bal), st[a], n)
<1> DEFINE c == ChoicesBy(st, bal)
           v == bal[a] + n
           bal2 == MoreOf(bal, a, n)
<1>1. v \in Nat /\ bal[a] \in Nat /\ st[a] \in Strategy
  OBVIOUS
<1>2. bal2 = [bal EXCEPT ![a] = v] BY DEF MoreOf
<1> HIDE DEF v, bal2
<1>3. Total([bal EXCEPT ![a] = v]) = Total(bal) - bal[a] + v
  BY <1>1, TotalExcept, AccountsAssumption
<1>4. Total(bal) \in Nat BY UnitsFinite, AccountsAssumption
<1>5. Total(bal2) = Total(bal) + n BY <1>1, <1>2, <1>3, <1>4 DEF v
<1>6. bal2 \in [Accounts -> Nat] /\ bal2[a] = v BY <1>1, <1>2
<1>7. \A x \in Accounts \ {a} : bal2[x] = bal[x] BY <1>2
<1>8. c \in [Strategy -> Nat] /\ ChoicesBy(st, bal2) \in [Strategy -> Nat]
  BY <1>6, ChoicesFact
<1>9. \A x \in Strategy :
        ChoicesBy(st, bal2)[x] = IF x = st[a] THEN c[x] - bal[a] + bal2[a] ELSE c[x]
  BY <1>6, <1>7, BalanceChanges
<1> HIDE DEF c
<1>10. \A x \in Strategy : ChoicesBy(st, bal2)[x] = IF x = st[a] THEN c[x] + n ELSE c[x]
  BY <1>1, <1>6, <1>8, <1>9 DEF v
<1>11. ChoicesBy(st, bal2) = MoreChosen(c, st[a], n)
  BY <1>1, <1>8, <1>10 DEF MoreChosen
<1> QED BY <1>5, <1>6, <1>11 DEF c, bal2

(* An account that gives n takes n from the supply and from its strategy.  *)
LEMMA LessHeld ==
  ASSUME NEW st \in [Accounts -> Strategy], NEW bal \in [Accounts -> Nat],
         NEW a \in Accounts, NEW n \in Nat, n <= bal[a]
  PROVE  /\ LessOf(bal, a, n) \in [Accounts -> Nat]
         /\ Total(LessOf(bal, a, n)) = Total(bal) - n
         /\ ChoicesBy(st, LessOf(bal, a, n)) = LessChosen(ChoicesBy(st, bal), st[a], n)
<1> DEFINE c == ChoicesBy(st, bal)
           v == bal[a] - n
           bal2 == LessOf(bal, a, n)
<1>1. v \in Nat /\ bal[a] \in Nat /\ st[a] \in Strategy
  OBVIOUS
<1>2. bal2 = [bal EXCEPT ![a] = v] BY DEF LessOf
<1> HIDE DEF v, bal2
<1>3. Total([bal EXCEPT ![a] = v]) = Total(bal) - bal[a] + v
  BY <1>1, TotalExcept, AccountsAssumption
<1>4. Total(bal) \in Nat BY UnitsFinite, AccountsAssumption
<1>5. Total(bal2) = Total(bal) - n BY <1>1, <1>2, <1>3, <1>4 DEF v
<1>6. bal2 \in [Accounts -> Nat] /\ bal2[a] = v BY <1>1, <1>2
<1>7. \A x \in Accounts \ {a} : bal2[x] = bal[x] BY <1>2
<1>8. c \in [Strategy -> Nat] /\ ChoicesBy(st, bal2) \in [Strategy -> Nat]
  BY <1>6, ChoicesFact
<1>9. \A x \in Strategy :
        ChoicesBy(st, bal2)[x] = IF x = st[a] THEN c[x] - bal[a] + bal2[a] ELSE c[x]
  BY <1>6, <1>7, BalanceChanges
<1> HIDE DEF c
<1>10. \A x \in Strategy : ChoicesBy(st, bal2)[x] = IF x = st[a] THEN c[x] - n ELSE c[x]
  BY <1>1, <1>6, <1>8, <1>9 DEF v
<1>11. ChoicesBy(st, bal2) = LessChosen(c, st[a], n)
  BY <1>1, <1>8, <1>10 DEF LessChosen
<1> QED BY <1>5, <1>6, <1>11 DEF c, bal2

(* When an account changes its strategy, its balance moves from the one to *)
(* the other.                                                              *)
LEMMA StrategyChanges ==
  ASSUME NEW st \in [Accounts -> Strategy], NEW bal \in [Accounts -> Nat],
         NEW a \in Accounts, NEW s \in Strategy
  PROVE  ChoicesBy([st EXCEPT ![a] = s], bal)
           = MoveChoice(ChoicesBy(st, bal), st[a], s, bal[a])
<1> DEFINE none == [bal EXCEPT ![a] = 0]
           st2 == [st EXCEPT ![a] = s]
           n == bal[a]
<1>1. none \in [Accounts -> Nat] /\ st2 \in [Accounts -> Strategy] OBVIOUS
<1>2. ChoicesBy(st2, none) = ChoicesBy(st, none)
  <2>1. ASSUME NEW x \in Strategy PROVE ChosenBy(st2, none, x) = ChosenBy(st, none, x)
    <3>1. \A y \in Accounts : (IF st2[y] = x THEN none[y] ELSE 0)
                                = (IF st[y] = x THEN none[y] ELSE 0)
      OBVIOUS
    <3>2. [y \in Accounts |-> IF st2[y] = x THEN none[y] ELSE 0]
            = [y \in Accounts |-> IF st[y] = x THEN none[y] ELSE 0]
      BY <3>1
    <3> QED BY <3>2 DEF ChosenBy
  <2> QED BY <2>1 DEF ChoicesBy
<1>3. n \in Nat /\ none[a] = 0 /\ st2[a] = s /\ bal = [none EXCEPT ![a] = n]
  OBVIOUS
<1> HIDE DEF none, st2, n
<1>4. \A x \in Strategy :
        ChoicesBy(st, none)[x]
          = IF x = st[a] THEN ChoicesBy(st, bal)[x] - bal[a] + none[a]
            ELSE ChoicesBy(st, bal)[x]
  <2>1. \A x \in Accounts \ {a} : none[x] = bal[x] BY DEF none
  <2>2. /\ st \in [Accounts -> Strategy] /\ bal \in [Accounts -> Nat]
        /\ none \in [Accounts -> Nat] /\ a \in Accounts
    BY <1>1
  <2> QED BY <2>1, <2>2, BalanceChanges, SMTT(60)
<1>5. \A x \in Strategy :
        ChoicesBy(st2, bal)[x]
          = IF x = st2[a] THEN ChoicesBy(st2, none)[x] - none[a] + bal[a]
            ELSE ChoicesBy(st2, none)[x]
  <2>1. \A x \in Accounts \ {a} : bal[x] = none[x] BY DEF none
  <2> QED BY <1>1, <2>1, BalanceChanges
<1>6. ChoicesBy(st, bal) \in [Strategy -> Nat] /\ st[a] \in Strategy BY ChoicesFact
<1>7. ChoicesBy(st2, bal) \in [Strategy -> Nat] BY <1>1, ChoicesFact
<1>9. ASSUME NEW x \in Strategy
      PROVE  ChoicesBy(st2, bal)[x] = MoveChoice(ChoicesBy(st, bal), st[a], s, n)[x]
  <2> DEFINE c == ChoicesBy(st, bal)
  <2>1. c \in [Strategy -> Nat] BY <1>6
  <2>2. ChoicesBy(st2, bal)[x]
          = IF x = s THEN ChoicesBy(st, none)[x] + n ELSE ChoicesBy(st, none)[x]
    <3>1. ChoicesBy(st, none) \in [Strategy -> Nat] BY <1>1, ChoicesFact
    <3> QED BY <1>2, <1>3, <1>5, <3>1 DEF n
  <2>3. ChoicesBy(st, none)[x] = IF x = st[a] THEN c[x] - n ELSE c[x]
    BY <1>3, <1>4, <2>1 DEF n
  <2> HIDE DEF c
  <2>4. MoveChoice(c, st[a], s, n)[x]
          = (IF x = st[a] THEN c[x] - n ELSE c[x]) + (IF x = s THEN n ELSE 0)
    BY <1>3, <1>6, <2>1 DEF MoveChoice, MoreChosen, LessChosen
  <2>5. c[x] \in Nat BY <2>1
  <2> QED BY <1>3, <2>2, <2>3, <2>4, <2>5 DEF c
<1> DEFINE moved == MoveChoice(ChoicesBy(st, bal), st[a], s, n)
<1>10. moved = [x \in Strategy |-> moved[x]] BY <1>6 DEF MoveChoice, MoreChosen, LessChosen
<1>11. ChoicesBy(st2, bal) = [x \in Strategy |-> ChoicesBy(st2, bal)[x]] BY <1>7
<1> HIDE DEF moved
<1>12. \A x \in Strategy : ChoicesBy(st2, bal)[x] = moved[x] BY <1>9 DEF moved
<1>13. ChoicesBy(st2, bal) = moved BY <1>10, <1>11, <1>12
<1> QED BY <1>13 DEF moved, n, st2

----------------------------------------------------------------------------
(* The actions.                                                            *)

(* What the type invariant says of choices and balances.                   *)
LEMMA StateFact ==
  ASSUME TypeOK
  PROVE  /\ strategies \in [Accounts -> Strategy]
         /\ balances \in [Accounts -> Nat]
         /\ ChoicesBy(strategies, balances) \in [Strategy -> Nat]
         /\ \A a \in Accounts :
              balances[a] <= ChoicesBy(strategies, balances)[strategies[a]]
BY ChoicesFact DEF TypeOK, Strategy

(* The invariant holds at first.                                           *)
LEMMA InitInv == Init => IInv
<1> SUFFICES ASSUME Init PROVE IInv OBVIOUS
<1>1. TypeOK BY DEF Init, TypeOK, Books, NoVotes
<1>2. balances = [a \in Accounts |-> 0] /\ celo = [g \in Groups |-> 0]
  BY DEF Init, NoVotes
<1>3. Valued BY <1>2, TotalZero DEF Valued, Supply, TotalCelo
<1>4. /\ books.total = [g \in Groups |-> 0] /\ books.overflow = [g \in Groups |-> 0]
      /\ books.unhealthy = [g \in Groups |-> 0] /\ books.default = [g \in Groups |-> 0]
  BY DEF Init, NoVotes
<1>5. \A s \in Strategy : ChoicesBy(strategies, balances)[s] = 0
  <2> SUFFICES ASSUME NEW s \in Strategy PROVE ChosenBy(strategies, balances, s) = 0
    BY DEF ChoicesBy
  <2>1. [a \in Accounts |-> IF strategies[a] = s THEN balances[a] ELSE 0]
          = [a \in Accounts |-> 0]
    BY <1>2
  <2> QED BY <2>1, TotalZero DEF ChosenBy
<1>6. Total(books.default) = 0 /\ Total(LentBy(books)) = 0
  <2>1. LentBy(books) = [g \in Groups |-> 0] BY <1>4 DEF LentBy, Lent
  <2> QED BY <1>4, <2>1, TotalZero
<1>7. Right(books, ChoicesBy(strategies, balances))
  BY <1>1, <1>4, <1>5, <1>6 DEF Right, Strategy, TypeOK
<1>8. Within(books, rounded)
  <2>1. rounded = [g \in Groups |-> 0] BY DEF Init, NoVotes
  <2> QED BY <1>4, <2>1 DEF Within, Lent
<1> QED BY <1>1, <1>3, <1>7, <1>8 DEF IInv

(* Counting a rounding, as the invariant of the books does.                *)
LEMMA CountFact ==
  ASSUME TypeOK, NEW s \in Strategy, NEW n \in Nat, CountRounding(s, n)
  PROVE  /\ rounded' \in [Groups -> Nat]
         /\ rounded' = Counted(books, s, n, rounded)
BY DEF TypeOK, CountRounding, Counted, Rounds, Strategy

(* deposit preserves the invariant.                                        *)
LEMMA DepositInv ==
  ASSUME IInv, NEW a \in Accounts, NEW n \in Nat,
         NEW receivable \in Receivables(strategies[a], n), Deposit(a, n, receivable)
  PROVE  IInv'
<1> DEFINE stCelo == toStakedCelo(n)
           s == strategies[a]
           c == ChoicesBy(strategies, balances)
           bal2 == MoreOf(balances, a, stCelo)
<1>1. TypeOK /\ Valued BY DEF IInv
<1>2. /\ strategies \in [Accounts -> Strategy] /\ balances \in [Accounts -> Nat]
      /\ c \in [Strategy -> Nat] /\ s \in Strategy
  BY <1>1, StateFact
<1>3. stCelo \in Nat /\ stCelo <= n BY <1>1, ConversionFact
<1>4. PICK d \in Deposits(books, s, n, stCelo, receivable) :
        /\ books' = DistributeVotes(books, s, n, stCelo, receivable, d)
        /\ celo' = Plus(celo, DepositVotes(s, n, receivable, d))
  BY DEF Deposit
<1>5. /\ balances' = bal2
      /\ UNCHANGED <<strategies, blockedGroups, healthy, rounded>>
  BY DEF Deposit, verdicts, MoreOf
<1>6. rounded \in [Groups -> Nat] /\ celo \in [Groups -> Nat] BY <1>1 DEF TypeOK
<1> HIDE DEF stCelo, s
<1>7. /\ Right(books', MoreChosen(c, s, stCelo))
      /\ Within(books', rounded)
      /\ DepositVotes(s, n, receivable, d) \in [Groups -> Nat]
      /\ Total(DepositVotes(s, n, receivable, d)) = n
  <2>1. receivable \in Receivables(s, n) BY DEF s
  <2>2. Right(books, c) /\ Within(books, rounded) BY DEF IInv
  <2> HIDE DEF c
  <2>3. /\ Right(DistributeVotes(books, s, n, stCelo, receivable, d),
                 MoreChosen(c, s, stCelo))
        /\ Within(DistributeVotes(books, s, n, stCelo, receivable, d), rounded)
        /\ DepositVotes(s, n, receivable, d) \in [Groups -> Nat]
        /\ Total(DepositVotes(s, n, receivable, d)) = n
    BY <1>1, <1>2, <1>3, <1>6, <2>1, <2>2, DepositKeeps
  <2> QED BY <1>4, <2>3
<1>8. /\ bal2 \in [Accounts -> Nat] /\ Total(bal2) = Total(balances) + stCelo
      /\ ChoicesBy(strategies, bal2) = MoreChosen(c, s, stCelo)
  BY <1>2, <1>3, MoreHeld DEF s
<1>10. Right(books', ChoicesBy(strategies', balances'))
  BY <1>5, <1>7, <1>8
<1>11. Within(books', rounded') BY <1>5, <1>7
<1>12. celo' \in [Groups -> Nat] /\ Total(celo') = Total(celo) + n
  <2>1. Plus(celo, DepositVotes(s, n, receivable, d)) \in [Groups -> Nat]
    BY <1>6, <1>7 DEF Plus
  <2> QED BY <1>4, <1>6, <1>7, <2>1, TotalPlus, GroupsAssumption DEF s, stCelo
<1>13. TypeOK'
  BY <1>1, <1>5, <1>8, <1>10, <1>12 DEF TypeOK, Right
<1>15. Valued'
  <2>1. Total(balances) \in Nat /\ Total(celo) \in Nat
    BY <1>2, <1>6, UnitsFinite, AccountsAssumption, GroupsAssumption
  <2> QED BY <1>1, <1>3, <1>5, <1>8, <1>12, <2>1 DEF Valued, Supply, TotalCelo
<1> QED BY <1>10, <1>11, <1>13, <1>15 DEF IInv

(* withdraw preserves the invariant.                                       *)
LEMMA WithdrawInv ==
  ASSUME IInv, NEW a \in Accounts, NEW n \in Nat, Withdraw(a, n)
  PROVE  IInv'
<1> DEFINE s == strategies[a]
           c == ChoicesBy(strategies, balances)
           v == toCelo(n)
           f == FromDefault(books, s, v)
           bal2 == LessOf(balances, a, n)
<1>1. TypeOK /\ Valued BY DEF IInv
<1>2. /\ strategies \in [Accounts -> Strategy] /\ balances \in [Accounts -> Nat]
      /\ c \in [Strategy -> Nat] /\ s \in Strategy /\ balances[a] <= c[s]
  BY <1>1, StateFact
<1>3. n <= balances[a] /\ CountRounding(s, n) BY DEF Withdraw
<1>4. PICK w \in Withdrawals(books, s, n) :
        /\ \A g \in Groups : WithdrawalVotes(books, s, n, w)[g] <= celo[g]
        /\ books' = DistributeWithdrawals(books, s, n, w)
        /\ celo' = Minus(celo, WithdrawalVotes(books, s, n, w))
  BY DEF Withdraw
<1>5. /\ balances' = bal2
      /\ UNCHANGED <<strategies, blockedGroups, healthy>>
  BY DEF Withdraw, verdicts, LessOf
<1>6. rounded \in [Groups -> Nat] /\ celo \in [Groups -> Nat] /\ books \in Books
  BY <1>1 DEF TypeOK
<1>7. n <= c[s]
  <2>1. balances[a] \in Nat /\ c[s] \in Nat BY <1>2
  <2> QED BY <1>2, <1>3, <2>1
<1> HIDE DEF s
<1>8. /\ Right(books', LessChosen(c, s, n))
      /\ Within(books', Counted(books, s, n, rounded))
  <2>1. Right(books, c) /\ Within(books, rounded) BY DEF IInv
  <2> HIDE DEF c
  <2>2. /\ Right(DistributeWithdrawals(books, s, n, w), LessChosen(c, s, n))
        /\ Within(DistributeWithdrawals(books, s, n, w), Counted(books, s, n, rounded))
    BY <1>1, <1>2, <1>6, <1>7, <2>1, WithdrawalKeeps
  <2> QED BY <1>4, <2>2
<1>9. /\ rounded' \in [Groups -> Nat] /\ rounded' = Counted(books, s, n, rounded)
  BY <1>1, <1>2, <1>3, CountFact
<1>10. /\ bal2 \in [Accounts -> Nat] /\ Total(bal2) = Total(balances) - n
       /\ ChoicesBy(strategies, bal2) = LessChosen(c, s, n)
  BY <1>2, <1>3, LessHeld DEF s
<1>12. Right(books', ChoicesBy(strategies', balances'))
  BY <1>5, <1>8, <1>10
<1>13. Within(books', rounded') BY <1>8, <1>9
<1>14. v \in Nat BY <1>1, ConversionFact
<1>15. f \in Nat /\ f <= v
  <2>1. CASE s = Default BY <1>14, <2>1 DEF FromDefault
  <2>2. CASE s \in Groups
    <3>1. toCelo(Lent(books, s)) \in Nat BY <1>1, <1>6, <2>2, LentFact, ConversionFact
    <3> HIDE DEF v
    <3> QED BY <1>14, <2>2, <3>1, GroupsAssumption DEF FromDefault, MinOf
  <2> QED BY <1>2, <2>1, <2>2 DEF Strategy
<1>16. w \in DefaultWithdrawals(books, f) BY DEF Withdrawals
<1>17. w.votes \in [Groups -> Nat] /\ Total(w.votes) = f
  <2> HIDE DEF f
  <2> QED BY <1>1, <1>6, <1>15, <1>16, TakenFact
<1> DEFINE votes == WithdrawalVotes(books, s, n, w)
<1>18. votes \in [Groups -> Nat] /\ Total(votes) = v
  <2>1. CASE s = Default
    <3>1. votes = w.votes /\ f = v BY <2>1 DEF WithdrawalVotes, FromDefault
    <3> QED BY <1>17, <3>1
  <2>2. CASE s \in Groups
    <3>1. votes = [w.votes EXCEPT ![s] = w.votes[s] + v - f]
      BY <2>2, GroupsAssumption DEF WithdrawalVotes
    <3> HIDE DEF votes, f, v
    <3> DEFINE k == w.votes[s] + v - f
    <3>2. k \in Nat BY <1>14, <1>15, <1>17, <2>2
    <3>3. votes = [w.votes EXCEPT ![s] = k] BY <3>1
    <3> HIDE DEF k
    <3>4. Total([w.votes EXCEPT ![s] = k]) = Total(w.votes) - w.votes[s] + k
      BY <1>17, <2>2, <3>2, TotalExcept, GroupsAssumption
    <3>5. w.votes[s] \in Nat BY <1>17, <2>2
    <3>6. Total(votes) = v BY <1>14, <1>15, <1>17, <3>3, <3>4, <3>5 DEF k
    <3> QED BY <1>17, <2>2, <3>2, <3>3, <3>6
  <2> QED BY <1>2, <2>1, <2>2 DEF Strategy
<1> HIDE DEF votes, f
<1>19. celo' \in [Groups -> Nat] /\ Total(celo') = Total(celo) - v
  <2>1. celo' = Minus(celo, votes) /\ \A g \in Groups : votes[g] <= celo[g]
    BY <1>4 DEF votes
  <2> QED BY <1>6, <1>18, <2>1, TotalMinus, GroupsAssumption
<1>20. TypeOK'
  BY <1>1, <1>5, <1>9, <1>10, <1>12, <1>19 DEF TypeOK, Right
<1>22. Valued'
  <2> DEFINE sup == Supply
             tot == TotalCelo
  <2>1. sup \in Nat /\ tot \in Nat /\ n <= sup /\ sup <= tot
    <3>1. Supply \in Nat /\ TotalCelo \in Nat /\ balances[a] <= Supply BY <1>1, SumsFact
    <3> QED BY <1>1, <1>2, <1>3, <3>1 DEF Valued
  <2>2. v = IF sup = 0 \/ tot = 0 THEN n ELSE (n * tot) \div sup BY DEF toCelo
  <2> HIDE DEF sup, tot, v
  <2>3. sup - n <= tot - v
    <3>1. CASE sup = 0 BY <2>1, <2>2, <3>1
    <3>2. CASE sup # 0
      <4>1. sup > 0 /\ tot # 0 BY <2>1, <3>2
      <4>2. sup - n <= tot - (n * tot) \div sup BY <2>1, <4>1, WithdrawValue
      <4> QED BY <2>2, <4>1, <4>2
    <3> QED BY <3>1, <3>2
  <2>4. Total(balances') = sup - n /\ Total(celo') = tot - v
    BY <1>5, <1>10, <1>19 DEF sup, tot, Supply, TotalCelo
  <2> QED BY <2>3, <2>4 DEF Valued, Supply, TotalCelo
<1> QED BY <1>12, <1>13, <1>20, <1>22 DEF IInv

(* stCELO changes strategy.                                                *)
LEMMA MoveStCeloKeeps ==
  ASSUME IInv, NEW from \in Strategy, NEW to \in Strategy, NEW n \in Nat,
         n <= ChoicesBy(strategies, balances)[from],
         MoveStCelo(from, to, n)
  PROVE  /\ Right(books', MoveChoice(ChoicesBy(strategies, balances), from, to, n))
         /\ Within(books', rounded')
         /\ rounded' \in [Groups -> Nat]
<1> DEFINE c == ChoicesBy(strategies, balances)
           c1 == LessChosen(c, from, n)
           c2 == MoreChosen(c1, to, n)
<1>1. TypeOK /\ Valued /\ Right(books, c) /\ Within(books, rounded)
  BY DEF IInv
<1>2. c \in [Strategy -> Nat] /\ rounded \in [Groups -> Nat]
  BY <1>1, StateFact DEF TypeOK
<1>3. c2 = MoveChoice(c, from, to, n) BY DEF MoveChoice
<1>4. CASE from = to \/ n = 0
  <2>1. UNCHANGED <<books, rounded>> BY <1>4 DEF MoveStCelo
  <2> HIDE DEF c
  <2>2. c2 = c
    <3>1. \A s \in Strategy : c[s] \in Nat BY <1>2
    <3>2. \A s \in Strategy : c2[s] = c[s]
      BY <1>2, <1>4, <3>1 DEF LessChosen, MoreChosen
    <3>3. c2 = [s \in Strategy |-> c2[s]] /\ c = [s \in Strategy |-> c[s]]
      BY <1>2 DEF LessChosen, MoreChosen
    <3> HIDE DEF c2
    <3> QED BY <3>2, <3>3
  <2> QED BY <1>1, <1>2, <1>3, <2>1, <2>2 DEF c
<1>5. CASE ~(from = to \/ n = 0)
  <2>1. TransferWithoutChecks(from, to, n) /\ CountRounding(from, n)
    BY <1>5 DEF MoveStCelo
  <2>2. PICK w \in Withdrawals(books, from, n), receivable \in Receivables(to, toCelo(n)) :
          \E d \in Deposits(DistributeWithdrawals(books, from, n, w), to, toCelo(n), n,
                            receivable) :
            books' = DistributeVotes(DistributeWithdrawals(books, from, n, w), to,
                                     toCelo(n), n, receivable, d)
    BY <2>1 DEF TransferWithoutChecks
  <2> DEFINE less == DistributeWithdrawals(books, from, n, w)
             v == toCelo(n)
  <2>3. PICK d \in Deposits(less, to, v, n, receivable) :
          books' = DistributeVotes(less, to, v, n, receivable, d)
    BY <2>2
  <2>4. rounded' \in [Groups -> Nat] /\ rounded' = Counted(books, from, n, rounded)
    BY <1>1, <2>1, CountFact
  <2>5. v \in Nat /\ receivable \in Receivables(to, v) BY <1>1, ConversionFact
  <2>6. n <= c[from] OBVIOUS
  <2>7. c1 \in [Strategy -> Nat]
    <3> HIDE DEF c
    <3> QED BY <1>2, <2>6 DEF LessChosen
  <2> HIDE DEF c, v
  <2>8. Right(less, c1) /\ Within(less, rounded')
    BY <1>1, <1>2, <2>4, <2>6, WithdrawalKeeps
  <2> HIDE DEF less, c1
  <2> DEFINE b2 == DistributeVotes(less, to, v, n, receivable, d)
  <2>9. Right(b2, c2) /\ Within(b2, rounded')
    BY <1>1, <2>4, <2>5, <2>7, <2>8, DepositKeeps
  <2>10. books' = b2 BY <2>3
  <2> HIDE DEF b2, c2
  <2>11. Right(books', c2) /\ Within(books', rounded') BY <2>9, <2>10
  <2> QED BY <1>3, <2>4, <2>11 DEF c
<1> QED BY <1>4, <1>5

(* What both ways of moving stCELO to another strategy keep.               *)
LEMMA MovedInv ==
  ASSUME IInv, NEW from \in Strategy, NEW to \in Strategy, NEW n \in Nat,
         n <= ChoicesBy(strategies, balances)[from],
         MoveStCelo(from, to, n),
         strategies' \in [Accounts -> Strategy], balances' \in [Accounts -> Nat],
         ChoicesBy(strategies', balances')
           = MoveChoice(ChoicesBy(strategies, balances), from, to, n),
         Total(balances') = Total(balances),
         UNCHANGED <<blockedGroups, healthy, celo>>
  PROVE  IInv'
<1>1. /\ Right(books', ChoicesBy(strategies', balances'))
      /\ Within(books', rounded') /\ rounded' \in [Groups -> Nat]
  BY MoveStCeloKeeps
<1>2. TypeOK /\ Valued BY DEF IInv
<1>3. TypeOK' BY <1>1, <1>2 DEF TypeOK, Right, Strategy
<1>4. Valued' BY <1>2 DEF Valued, Supply, TotalCelo
<1> QED BY <1>1, <1>3, <1>4 DEF IInv

(* A transfer of stCELO, which moves it between the strategies of its two  *)
(* ends, preserves the invariant.                                          *)
LEMMA TransferInv ==
  ASSUME IInv, NEW a \in Accounts, NEW b \in Accounts, NEW n \in Nat, Transfer(a, b, n)
  PROVE  IInv'
<1> DEFINE from == strategies[a]
           to == strategies[b]
           c == ChoicesBy(strategies, balances)
           mid == LessOf(balances, a, n)
           bal2 == MoreOf(mid, b, n)
<1>1. /\ strategies \in [Accounts -> Strategy] /\ balances \in [Accounts -> Nat]
      /\ c \in [Strategy -> Nat] /\ from \in Strategy /\ to \in Strategy
      /\ balances[a] <= c[from]
  BY StateFact DEF IInv
<1>2. /\ a # b /\ n <= balances[a] /\ MoveStCelo(from, to, n)
      /\ UNCHANGED <<strategies, blockedGroups, healthy, celo>>
  BY DEF Transfer, verdicts
<1>3. balances' = bal2 BY <1>1, <1>2 DEF Transfer, MoreOf, LessOf
<1>4. n <= c[from]
  <2>1. balances[a] \in Nat /\ c[from] \in Nat BY <1>1
  <2> QED BY <1>1, <1>2, <2>1
<1>5. /\ mid \in [Accounts -> Nat] /\ Total(mid) = Total(balances) - n
      /\ ChoicesBy(strategies, mid) = LessChosen(c, from, n)
  BY <1>1, <1>2, LessHeld
<1> HIDE DEF mid
<1>6. /\ bal2 \in [Accounts -> Nat] /\ Total(bal2) = Total(mid) + n
      /\ ChoicesBy(strategies, bal2) = MoreChosen(ChoicesBy(strategies, mid), to, n)
  BY <1>1, <1>5, MoreHeld
<1>7. Total(balances') = Total(balances)
  <2>1. Total(balances) \in Nat BY <1>1, UnitsFinite, AccountsAssumption
  <2> QED BY <1>3, <1>5, <1>6, <2>1
<1>8. ChoicesBy(strategies', balances') = MoveChoice(c, from, to, n)
  BY <1>2, <1>3, <1>5, <1>6 DEF MoveChoice
<1>9. strategies' \in [Accounts -> Strategy] /\ balances' \in [Accounts -> Nat]
  BY <1>1, <1>2, <1>3, <1>6
<1> HIDE DEF from, to
<1> QED BY <1>1, <1>2, <1>4, <1>7, <1>8, <1>9, MovedInv

(* changeStrategy preserves the invariant.                                 *)
LEMMA ChangeStrategyInv ==
  ASSUME IInv, NEW a \in Accounts, NEW s \in Strategy, NEW forced,
         ChangeStrategy(a, s, forced)
  PROVE  IInv'
<1> DEFINE from == strategies[a]
           n == balances[a]
           c == ChoicesBy(strategies, balances)
<1>1. /\ strategies \in [Accounts -> Strategy] /\ balances \in [Accounts -> Nat]
      /\ from \in Strategy /\ n \in Nat /\ n <= c[from]
  BY StateFact DEF IInv
<1>2. /\ MoveStCelo(from, s, n) /\ strategies' = [strategies EXCEPT ![a] = s]
      /\ UNCHANGED <<balances, blockedGroups, healthy, celo>>
  BY DEF ChangeStrategy, verdicts
<1>3. ChoicesBy(strategies', balances') = MoveChoice(c, from, s, n)
  BY <1>1, <1>2, StrategyChanges
<1>4. strategies' \in [Accounts -> Strategy] /\ balances' \in [Accounts -> Nat]
  BY <1>1, <1>2
<1>5. Total(balances') = Total(balances) BY <1>2
<1> HIDE DEF from, n
<1> QED BY <1>1, <1>2, <1>3, <1>4, <1>5, MovedInv

----------------------------------------------------------------------------
(* Rebalancing: a group lends l more or less, and CELO moves.              *)
LEMMA LendingInv ==
  ASSUME IInv, NEW g \in Groups,
         books' \in Books, books'.total = books.total,
         Lent(books', g) <= books.total[g] + rounded[g],
         \A x \in Groups \ {g} : Lent(books', x) = Lent(books, x),
         Total(books'.default) - Lent(books', g) >= Total(books.default) - Lent(books, g),
         celo' \in [Groups -> Nat], Total(celo') = Total(celo),
         UNCHANGED <<strategies, balances, blockedGroups, healthy, rounded>>
  PROVE  IInv'
<1> DEFINE c == ChoicesBy(strategies, balances)
<1>1. TypeOK /\ Valued /\ Right(books, c) /\ Within(books, rounded) BY DEF IInv
<1>2. books \in Books BY <1>1 DEF TypeOK
<1>3. Total(LentBy(books')) = Total(LentBy(books)) - Lent(books, g) + Lent(books', g)
  BY <1>2, OneGroupChanges
<1>4. /\ Total(LentBy(books')) \in Nat /\ Total(LentBy(books)) \in Nat
      /\ Lent(books, g) \in Nat /\ Lent(books', g) \in Nat
      /\ Total(books.default) \in Nat /\ Total(books'.default) \in Nat
  BY <1>2, LentFact
<1>5. c[Default] \in Nat BY <1>1, StateFact DEF Strategy
<1>6. Total(books'.default) >= c[Default] + Total(LentBy(books'))
  <2>1. Total(books.default) >= c[Default] + Total(LentBy(books)) BY <1>1 DEF Right
  <2> QED BY <1>3, <1>4, <1>5, <2>1
<1>7. Right(books', c) BY <1>1, <1>6 DEF Right
<1>8. Within(books', rounded) BY <1>1 DEF Within
<1>9. TypeOK' BY <1>1 DEF TypeOK
<1>10. Valued' BY <1>1 DEF Valued, Supply, TotalCelo
<1> QED BY <1>7, <1>8, <1>9, <1>10 DEF IInv

(* CELO that moves is as much where it arrives.                            *)
LEMMA MoveCeloFact ==
  ASSUME NEW have \in [Groups -> Nat], NEW from \in [Groups -> Nat],
         NEW to \in [Groups -> Nat], Total(from) = Total(to),
         \A g \in Groups : from[g] <= have[g],
         NEW celo2, celo2 = Plus(Minus(have, from), to)
  PROVE  celo2 \in [Groups -> Nat] /\ Total(celo2) = Total(have)
<1> DEFINE rest == Minus(have, from)
<1>1. rest \in [Groups -> Nat] /\ Total(rest) = Total(have) - Total(from)
  BY TotalMinus, GroupsAssumption
<1> HIDE DEF rest
<1>2. Total(Plus(rest, to)) = Total(rest) + Total(to)
  BY <1>1, TotalPlus, GroupsAssumption
<1>3. Plus(rest, to) \in [Groups -> Nat] BY <1>1 DEF Plus
<1>4. Total(have) \in Nat /\ Total(from) \in Nat BY UnitsFinite, GroupsAssumption
<1> QED BY <1>1, <1>2, <1>3, <1>4 DEF rest

(* A withdrawal from the default strategy for stCELO, made on the books.   *)
LEMMA TakeBackFact ==
  ASSUME TypeOK, NEW stCelo \in Nat, NEW w \in DefaultWithdrawals(books, toCelo(stCelo))
  PROVE  /\ DefaultWithdrawal(books, w) \in Books
         /\ DefaultWithdrawal(books, w).total = books.total
         /\ DefaultWithdrawal(books, w).overflow = books.overflow
         /\ DefaultWithdrawal(books, w).unhealthy = books.unhealthy
         /\ Total(DefaultWithdrawal(books, w).default) \in Nat
         /\ Total(books.default) <= Total(DefaultWithdrawal(books, w).default) + stCelo
<1> DEFINE v == toCelo(stCelo)
           less == DefaultWithdrawal(books, w)
<1>1. books \in Books BY DEF TypeOK
<1>2. v \in Nat /\ toStakedCelo(v) <= stCelo BY ConversionFact
<1> HIDE DEF v
<1>3. w \in DefaultWithdrawals(books, v) BY DEF v
<1>4. /\ less = [books EXCEPT !.default = Minus(books.default, w.taken)]
      /\ less \in Books
      /\ \E taken \in 0 .. toStakedCelo(v) :
           Total(less.default) = Total(books.default) - taken
  BY <1>1, <1>2, <1>3, DefaultWithdrawalFact
<1>5. /\ less.total = books.total /\ less.overflow = books.overflow
      /\ less.unhealthy = books.unhealthy
  BY <1>1, <1>4 DEF Books
<1> HIDE DEF less
<1>6. Total(less.default) \in Nat /\ Total(books.default) \in Nat
  BY <1>1, <1>4, LentFact
<1>7. Total(books.default) <= Total(less.default) + stCelo
  <2>1. PICK taken \in 0 .. toStakedCelo(v) :
          Total(less.default) = Total(books.default) - taken
    BY <1>4
  <2>2. taken <= stCelo /\ taken \in Nat BY <1>2, <2>1, ConversionFact
  <2> QED BY <1>6, <2>1, <2>2
<1> QED BY <1>4, <1>5, <1>6, <1>7 DEF less

(* Votes taken from the default strategy for a group leave the CELO of all *)
(* groups what it was.                                                     *)
LEMMA FromDefaultStrategyFact ==
  ASSUME TypeOK, NEW g \in Groups, NEW stCelo \in Nat,
         NEW w \in DefaultWithdrawals(books, toCelo(stCelo)),
         FromDefaultStrategy(g, stCelo, w)
  PROVE  celo' \in [Groups -> Nat] /\ Total(celo') = Total(celo)
<1> DEFINE v == toCelo(stCelo)
           to == Only(Groups, g, v)
<1>1. books \in Books /\ celo \in [Groups -> Nat] BY DEF TypeOK
<1>2. v \in Nat BY ConversionFact
<1>3. /\ w \in DefaultWithdrawals(books, v)
      /\ \A x \in Groups : w.votes[x] <= celo[x]
      /\ celo' = Plus(Minus(celo, w.votes), to)
  BY DEF FromDefaultStrategy, MoveCelo
<1> HIDE DEF v
<1>4. w.votes \in [Groups -> Nat] /\ Total(w.votes) = v BY <1>1, <1>2, <1>3, TakenFact
<1>5. to \in [Groups -> Nat] /\ Total(to) = v BY <1>2, TotalOnly
<1> HIDE DEF to
<1> QED BY <1>1, <1>3, <1>4, <1>5, MoveCeloFact

(* Returning what an unhealthy group had lent preserves the invariant.     *)
LEMMA ReturnUnhealthyInv ==
  ASSUME IInv, NEW g \in Groups,
         ReturnUnhealthy(g, DefaultWithdrawals(books, toCelo(books.unhealthy[g])))
  PROVE  IInv'
<1> DEFINE u == books.unhealthy[g]
<1>1. TypeOK /\ Within(books, rounded) BY DEF IInv
<1>2. /\ books.overflow \in [Groups -> Nat] /\ books.unhealthy \in [Groups -> Nat]
      /\ books.total \in [Groups -> Nat] /\ rounded \in [Groups -> Nat]
      /\ u \in Nat
  BY <1>1 DEF TypeOK, Books
<1>3. PICK w \in DefaultWithdrawals(books, toCelo(u)) :
        /\ FromDefaultStrategy(g, u, w)
        /\ books' = [DefaultWithdrawal(books, w) EXCEPT !.unhealthy[g] = 0]
  BY DEF ReturnUnhealthy
<1>4. UNCHANGED <<strategies, balances, blockedGroups, healthy, rounded>>
  BY DEF ReturnUnhealthy, verdicts
<1> DEFINE less == DefaultWithdrawal(books, w)
<1> HIDE DEF u
<1>5. /\ less \in Books /\ less.total = books.total /\ less.overflow = books.overflow
      /\ less.unhealthy = books.unhealthy /\ Total(less.default) \in Nat
      /\ Total(books.default) <= Total(less.default) + u
  BY <1>1, <1>2, <1>3, TakeBackFact
<1>6. celo' \in [Groups -> Nat] /\ Total(celo') = Total(celo)
  BY <1>1, <1>2, <1>3, FromDefaultStrategyFact
<1> HIDE DEF less
<1>7. books' = [less EXCEPT !.unhealthy = [books.unhealthy EXCEPT ![g] = 0]]
  BY <1>3, <1>5 DEF less, Books
<1>8. /\ books'.total = books.total /\ books'.overflow = books.overflow
      /\ books'.unhealthy = [books.unhealthy EXCEPT ![g] = 0]
      /\ books'.default = less.default
  BY <1>5, <1>7 DEF Books
<1>9. books' \in Books
  <2>1. books'.unhealthy \in [Groups -> Nat] BY <1>2, <1>8
  <2> QED BY <1>5, <1>7, <1>8, <2>1 DEF Books
<1>10. /\ Lent(books', g) = books.overflow[g] /\ Lent(books, g) = books.overflow[g] + u
       /\ \A x \in Groups \ {g} : Lent(books', x) = Lent(books, x)
  BY <1>2, <1>8 DEF Lent, u
<1>11. Lent(books', g) <= books.total[g] + rounded[g]
  <2>1. Lent(books, g) <= books.total[g] + rounded[g] BY <1>1 DEF Within
  <2>2. /\ books.overflow[g] \in Nat /\ books.total[g] \in Nat /\ rounded[g] \in Nat
    BY <1>2
  <2> QED BY <1>2, <1>10, <2>1, <2>2
<1>12. Total(books'.default) - Lent(books', g) >= Total(books.default) - Lent(books, g)
  <2>1. Total(books.default) \in Nat BY <1>1, LentFact DEF TypeOK
  <2>2. books.overflow[g] \in Nat BY <1>2
  <2> QED BY <1>2, <1>5, <1>8, <1>10, <2>1, <2>2
<1> QED BY <1>4, <1>6, <1>8, <1>9, <1>10, <1>11, <1>12, LendingInv

(* rebalanceOverflowedGroup preserves the invariant.                       *)
LEMMA RebalanceOverflowedGroupInv ==
  ASSUME IInv, NEW g \in Groups, NEW receivable \in Nat,
         RebalanceOverflowedGroup(g, receivable,
           DefaultWithdrawals(books, toCelo(OverflowToMove(g, receivable))))
  PROVE  IInv'
<1> DEFINE u == OverflowToMove(g, receivable)
<1>1. TypeOK /\ Within(books, rounded) BY DEF IInv
<1>2. /\ books.overflow \in [Groups -> Nat] /\ books.unhealthy \in [Groups -> Nat]
      /\ books.total \in [Groups -> Nat] /\ rounded \in [Groups -> Nat]
  BY <1>1 DEF TypeOK, Books
<1>3. u \in Nat /\ u <= books.overflow[g] /\ books.overflow[g] \in Nat
  <2>1. toStakedCelo(receivable) \in Nat BY <1>1, ConversionFact
  <2> QED BY <1>2, <2>1 DEF MinOf, OverflowToMove
<1>4. PICK w \in DefaultWithdrawals(books, toCelo(u)) :
        /\ FromDefaultStrategy(g, u, w)
        /\ books' = [DefaultWithdrawal(books, w) EXCEPT !.overflow[g] = @ - u]
  BY DEF RebalanceOverflowedGroup
<1>5. UNCHANGED <<strategies, balances, blockedGroups, healthy, rounded>>
  BY DEF RebalanceOverflowedGroup, verdicts
<1> DEFINE less == DefaultWithdrawal(books, w)
<1> HIDE DEF u
<1>6. /\ less \in Books /\ less.total = books.total /\ less.overflow = books.overflow
      /\ less.unhealthy = books.unhealthy /\ Total(less.default) \in Nat
      /\ Total(books.default) <= Total(less.default) + u
  BY <1>1, <1>3, <1>4, TakeBackFact
<1>7. celo' \in [Groups -> Nat] /\ Total(celo') = Total(celo)
  BY <1>1, <1>3, <1>4, FromDefaultStrategyFact
<1> HIDE DEF less
<1>8. books' = [less EXCEPT !.overflow = [books.overflow EXCEPT ![g] = @ - u]]
  BY <1>4, <1>6 DEF less, Books
<1>9. /\ books'.total = books.total /\ books'.unhealthy = books.unhealthy
      /\ books'.overflow = [books.overflow EXCEPT ![g] = @ - u]
      /\ books'.default = less.default
  BY <1>6, <1>8 DEF Books
<1>10. books' \in Books
  <2>1. books'.overflow \in [Groups -> Nat] BY <1>2, <1>3, <1>9
  <2> QED BY <1>6, <1>8, <1>9, <2>1 DEF Books
<1>11. /\ Lent(books', g) = Lent(books, g) - u /\ Lent(books, g) \in Nat
       /\ \A x \in Groups \ {g} : Lent(books', x) = Lent(books, x)
  BY <1>2, <1>3, <1>9 DEF Lent
<1>12. Lent(books', g) <= books.total[g] + rounded[g]
  <2>1. Lent(books, g) <= books.total[g] + rounded[g] BY <1>1 DEF Within
  <2>2. books.total[g] \in Nat /\ rounded[g] \in Nat BY <1>2
  <2> QED BY <1>3, <1>11, <2>1, <2>2
<1>13. Total(books'.default) - Lent(books', g) >= Total(books.default) - Lent(books, g)
  <2>1. Total(books.default) \in Nat BY <1>1, LentFact DEF TypeOK
  <2> QED BY <1>3, <1>6, <1>9, <1>11, <2>1
<1> QED BY <1>5, <1>7, <1>9, <1>10, <1>11, <1>12, <1>13, LendingInv

(* Lending the stCELO of an unhealthy group to the default strategy        *)
(* preserves the invariant.                                                *)
LEMMA LendUnhealthyInv ==
  ASSUME IInv, NEW g \in Groups, LendUnhealthy(g)
  PROVE  IInv'
<1> DEFINE u == books.total[g] - Lent(books, g)
           v == MinOf(celo[g], toCelo(u))
<1>1. TypeOK /\ Within(books, rounded) BY DEF IInv
<1>2. /\ books \in Books /\ celo \in [Groups -> Nat]
      /\ books.overflow \in [Groups -> Nat] /\ books.unhealthy \in [Groups -> Nat]
      /\ books.total \in [Groups -> Nat] /\ rounded \in [Groups -> Nat]
  BY <1>1 DEF TypeOK, Books
<1>3. u \in Nat /\ Lent(books, g) \in Nat
  <2>1. Lent(books, g) \in Nat /\ books.total[g] \in Nat BY <1>2 DEF Lent
  <2>2. u >= 0 BY DEF LendUnhealthy
  <2> QED BY <2>1, <2>2
<1>4. PICK d \in DefaultDeposits(books, v, u, Default) :
        /\ ToDefaultStrategy(g, u, d)
        /\ books' = [DefaultDeposit(books, d) EXCEPT !.unhealthy[g] = @ + u]
  BY DEF LendUnhealthy
<1>5. UNCHANGED <<strategies, balances, blockedGroups, healthy, rounded>>
  BY DEF LendUnhealthy, verdicts
<1>6. celo' = Plus(Minus(celo, Only(Groups, g, v)), d.votes)
  BY <1>4 DEF ToDefaultStrategy, MoveCelo
<1> DEFINE more == DefaultDeposit(books, d)
<1> HIDE DEF u
<1>7. v \in Nat /\ v <= celo[g]
  <2>1. toCelo(u) \in Nat /\ celo[g] \in Nat BY <1>1, <1>2, <1>3, ConversionFact
  <2> QED BY <2>1 DEF MinOf
<1> HIDE DEF v
<1>8. /\ more = [books EXCEPT !.default = Plus(books.default, d.added)]
      /\ more \in Books /\ Total(more.default) = Total(books.default) + u
      /\ d.votes \in [Groups -> Nat] /\ Total(d.votes) = v
  BY <1>2, <1>3, <1>4, <1>7, DefaultDepositFact
<1>9. /\ more.total = books.total /\ more.overflow = books.overflow
      /\ more.unhealthy = books.unhealthy
  BY <1>2, <1>8 DEF Books
<1>10. celo' \in [Groups -> Nat] /\ Total(celo') = Total(celo)
  <2> DEFINE from == Only(Groups, g, v)
  <2>1. from \in [Groups -> Nat] /\ Total(from) = v BY <1>7, TotalOnly
  <2>2. \A x \in Groups : from[x] <= celo[x] BY <1>2, <1>7 DEF Only
  <2> HIDE DEF from
  <2>3. celo' = Plus(Minus(celo, from), d.votes) BY <1>6 DEF from
  <2> QED BY <1>2, <1>8, <2>1, <2>2, <2>3, MoveCeloFact
<1> HIDE DEF more
<1>11. books' = [more EXCEPT !.unhealthy = [books.unhealthy EXCEPT ![g] = @ + u]]
  BY <1>4, <1>8, <1>9 DEF more, Books
<1>12. /\ books'.total = books.total /\ books'.overflow = books.overflow
       /\ books'.unhealthy = [books.unhealthy EXCEPT ![g] = @ + u]
       /\ books'.default = more.default
  BY <1>8, <1>9, <1>11 DEF Books
<1>13. books' \in Books
  <2>1. books'.unhealthy \in [Groups -> Nat] BY <1>2, <1>3, <1>12
  <2> QED BY <1>8, <1>11, <1>12, <2>1 DEF Books
<1>14. /\ Lent(books', g) = Lent(books, g) + u
       /\ \A x \in Groups \ {g} : Lent(books', x) = Lent(books, x)
  BY <1>2, <1>3, <1>12 DEF Lent
<1>15. Lent(books', g) <= books.total[g] + rounded[g]
  <2>1. books.total[g] \in Nat /\ rounded[g] \in Nat BY <1>2
  <2> QED BY <1>3, <1>14, <2>1 DEF u
<1>16. Total(books'.default) - Lent(books', g) >= Total(books.default) - Lent(books, g)
  <2>1. Total(books.default) \in Nat BY <1>2, LentFact
  <2> QED BY <1>3, <1>8, <1>12, <1>14, <2>1
<1> QED BY <1>5, <1>10, <1>12, <1>13, <1>14, <1>15, <1>16, LendingInv

(* Only CELO changes.                                                      *)
LEMMA CeloInv ==
  ASSUME IInv, UNCHANGED <<strategies, balances, books, blockedGroups, healthy, rounded>>,
         celo' \in [Groups -> Nat], Total(celo') >= Total(celo)
  PROVE  IInv'
<1>1. TypeOK /\ Valued BY DEF IInv
<1>2. TypeOK' BY <1>1 DEF TypeOK
<1>3. Valued'
  <2>1. /\ Total(celo) \in Nat /\ Total(celo') \in Nat /\ Total(balances) \in Nat
    BY <1>1, UnitsFinite, GroupsAssumption, AccountsAssumption DEF TypeOK
  <2> QED BY <1>1, <2>1 DEF Valued, Supply, TotalCelo
<1> QED BY <1>2, <1>3 DEF IInv

(* Moving CELO from one group to another preserves the invariant.          *)
LEMMA ShiftInv ==
  ASSUME IInv, NEW from \in Groups, NEW to \in Groups, NEW n \in Nat, n <= celo[from],
         UNCHANGED <<strategies, balances, books, blockedGroups, healthy, rounded>>,
         celo' = Plus(Minus(celo, Only(Groups, from, n)), Only(Groups, to, n))
  PROVE  IInv'
<1> DEFINE f == Only(Groups, from, n)
           h == Only(Groups, to, n)
<1>1. celo \in [Groups -> Nat] BY DEF IInv, TypeOK
<1>2. /\ f \in [Groups -> Nat] /\ Total(f) = n
      /\ h \in [Groups -> Nat] /\ Total(h) = n
  BY TotalOnly
<1>3. \A x \in Groups : f[x] <= celo[x] BY <1>1 DEF Only
<1> HIDE DEF f, h
<1>4. celo' = Plus(Minus(celo, f), h) BY DEF f, h
<1>5. celo' \in [Groups -> Nat] /\ Total(celo') = Total(celo)
  BY <1>1, <1>2, <1>3, <1>4, MoveCeloFact
<1>6. Total(celo') >= Total(celo)
  <2>1. Total(celo) \in Nat BY <1>1, UnitsFinite, GroupsAssumption
  <2> QED BY <1>5, <2>1
<1> QED BY <1>5, <1>6, CeloInv

(* rebalance preserves the invariant.                                      *)
LEMMA RebalanceInv ==
  ASSUME IInv, NEW from \in Groups, NEW to \in Groups, Rebalance(from, to)
  PROVE  IInv'
<1> DEFINE k == ExpectedCelo(from)
           l == ExpectedCelo(to)
<1>1. TypeOK BY DEF IInv
<1>2. /\ books.total \in [Groups -> Nat] /\ books.default \in [Groups -> Nat]
      /\ celo \in [Groups -> Nat] /\ books \in Books
  BY <1>1 DEF TypeOK, Books
<1>3. k \in Nat /\ l \in Nat
  <2> SUFFICES ASSUME NEW g \in Groups PROVE ExpectedCelo(g) \in Nat OBVIOUS
  <2>1. books.total[g] \in Nat /\ Lent(books, g) \in Nat /\ books.default[g] \in Nat
    BY <1>2, LentFact
  <2> DEFINE m == (IF g \in blockedGroups THEN 0 ELSE Monus(books.total[g], Lent(books, g)))
                    + IF g \in ActiveGroups THEN books.default[g] ELSE 0
  <2>2. m \in Nat BY <2>1 DEF Monus
  <2>3. ExpectedCelo(g) = toCelo(m) BY DEF ExpectedCelo
  <2> HIDE DEF m
  <2> QED BY <1>1, <2>2, <2>3, ConversionFact
<1>4. /\ UNCHANGED <<strategies, balances, books, blockedGroups, healthy, rounded>>
      /\ \E receivable \in 1 .. MinOf(celo[from] - k, l - celo[to]) :
           celo' = Plus(Minus(celo, Only(Groups, from, receivable)),
                        Only(Groups, to, receivable))
  BY DEF Rebalance, verdicts
<1> HIDE DEF k, l
<1>5. PICK receivable \in 1 .. MinOf(celo[from] - k, l - celo[to]) :
        celo' = Plus(Minus(celo, Only(Groups, from, receivable)),
                     Only(Groups, to, receivable))
  BY <1>4
<1>6. receivable \in Nat /\ receivable <= celo[from] BY <1>2, <1>3 DEF MinOf
<1> QED BY <1>4, <1>5, <1>6, ShiftInv

(* rebalanceOverflow preserves the invariant.                              *)
LEMMA RebalanceOverflowInv ==
  ASSUME IInv, NEW from \in Groups, NEW to \in Groups, NEW n \in Nat,
         RebalanceOverflow(from, to, n)
  PROVE  IInv'
<1>1. /\ n <= celo[from]
      /\ UNCHANGED <<strategies, balances, books, blockedGroups, healthy, rounded>>
      /\ celo' = Plus(Minus(celo, Only(Groups, from, n)), Only(Groups, to, n))
  BY DEF RebalanceOverflow, verdicts
<1> QED BY <1>1, ShiftInv

(* Rewards, which only add CELO, preserve the invariant.                   *)
LEMMA RewardsInv ==
  ASSUME IInv, NEW g \in Groups, Rewards(g)
  PROVE  IInv'
<1> DEFINE n == celo[g] + 1
<1>1. celo \in [Groups -> Nat] BY DEF IInv, TypeOK
<1>2. /\ celo' = [celo EXCEPT ![g] = n]
      /\ UNCHANGED <<strategies, balances, books, blockedGroups, healthy, rounded>>
  BY DEF Rewards, verdicts
<1>3. n \in Nat /\ celo[g] \in Nat BY <1>1
<1> HIDE DEF n
<1>4. Total([celo EXCEPT ![g] = n]) = Total(celo) - celo[g] + n
  BY <1>1, <1>3, TotalExcept, GroupsAssumption
<1>5. Total(celo) \in Nat BY <1>1, UnitsFinite, GroupsAssumption
<1>6. Total(celo') >= Total(celo) BY <1>2, <1>3, <1>4, <1>5 DEF n
<1>7. celo' \in [Groups -> Nat] BY <1>1, <1>2, <1>3
<1> QED BY <1>2, <1>6, <1>7, CeloInv

(* Verdicts on groups change none of the amounts.                          *)
LEMMA VerdictInv ==
  ASSUME IInv, VerdictStep
  PROVE  IInv'
<1>1. PICK g \in Groups : UpdateGroupHealth(g) \/ BlockGroup(g) \/ UnblockGroup(g)
  BY GroupsAssumption DEF VerdictStep
<1>2. UNCHANGED <<strategies, balances, books, celo, rounded>>
  BY <1>1 DEF UpdateGroupHealth, BlockGroup, UnblockGroup
<1>3. TypeOK'
  <2>1. TypeOK BY DEF IInv
  <2> QED BY <1>1, <1>2, <2>1 DEF TypeOK, UpdateGroupHealth, BlockGroup, UnblockGroup
<1> QED BY <1>2, <1>3 DEF IInv, Valued, Supply, TotalCelo

(* Every step preserves the invariant.                                     *)
LEMMA NextInv == IInv /\ [Next]_vars => IInv'
<1> SUFFICES ASSUME IInv, [Next]_vars PROVE IInv' OBVIOUS
<1>1. TypeOK BY DEF IInv
<1>2. CASE UserStep
  <2>1. PICK a \in Accounts :
          \/ \E n \in 1 .. MaxCelo : \E receivable \in Receivables(strategies[a], n) :
               Deposit(a, n, receivable)
          \/ \E stCelo \in 1 .. balances[a] :
               Withdraw(a, stCelo) \/ \E b \in Accounts : Transfer(a, b, stCelo)
          \/ \E s \in SpecificGroups \cup {Default}, forced \in BOOLEAN :
               ChangeStrategy(a, s, forced)
    BY <1>2 DEF UserStep
  <2>2. balances[a] \in Nat /\ MaxCelo \in Nat BY <1>1, BoundsAssumption DEF TypeOK
  <2>3. \A n \in 1 .. MaxCelo : n \in Nat BY <2>2
  <2>4. \A n \in 1 .. balances[a] : n \in Nat BY <2>2
  <2>5. ASSUME NEW n \in 1 .. MaxCelo, NEW receivable \in Receivables(strategies[a], n),
               Deposit(a, n, receivable)
        PROVE  IInv'
    BY <2>3, <2>5, DepositInv
  <2>6. ASSUME NEW n \in 1 .. balances[a], Withdraw(a, n) PROVE IInv'
    BY <2>4, <2>6, WithdrawInv
  <2>7. ASSUME NEW n \in 1 .. balances[a], NEW b \in Accounts, Transfer(a, b, n)
        PROVE  IInv'
    BY <2>4, <2>7, TransferInv
  <2>8. ASSUME NEW s \in SpecificGroups \cup {Default}, NEW forced \in BOOLEAN,
               ChangeStrategy(a, s, forced)
        PROVE  IInv'
    BY <2>8, ChangeStrategyInv, GroupsAssumption DEF Strategy
  <2> QED BY <2>1, <2>5, <2>6, <2>7, <2>8
<1>3. CASE VerdictStep BY <1>3, VerdictInv
<1>4. CASE RebalanceStep
  <2>1. MaxCelo \in Nat BY BoundsAssumption
  <2>2. \A n \in 1 .. MaxCelo : n \in Nat BY <2>1
  <2> QED BY <1>4, <2>2, ReturnUnhealthyInv, LendUnhealthyInv, RebalanceOverflowedGroupInv,
             RebalanceInv DEF RebalanceStep
<1>5. CASE OtherStep
  <2>1. MaxCelo \in Nat BY BoundsAssumption
  <2>2. \A n \in 1 .. MaxCelo : n \in Nat BY <2>1
  <2> QED BY <1>5, <2>2, RewardsInv, RebalanceOverflowInv DEF OtherStep
<1>6. CASE UNCHANGED vars
  BY <1>6 DEF vars, IInv, TypeOK, Right, Within, LentBy, Lent, Books, ChoicesBy, ChosenBy,
              Valued, Supply, TotalCelo
<1> QED BY <1>2, <1>3, <1>4, <1>5, <1>6 DEF Next

(* The invariant holds throughout.                                         *)
LEMMA Invariant == Spec => []IInv
BY InitInv, NextInv, PTL DEF Spec

----------------------------------------------------------------------------
(* Every variable has its type: no amount that Manager or                  *)
(* SpecificGroupStrategy subtracts from goes below zero.                   *)
THEOREM TypeCorrect == Spec => []TypeOK
<1>1. IInv => TypeOK BY DEF IInv
<1> QED BY <1>1, Invariant, PTL

(* What is chosen, as the invariant and as the properties say it.          *)
LEMMA ChosenFact ==
  ASSUME NEW s \in Strategy
  PROVE  ChoicesBy(strategies, balances)[s] = Chosen(s)
BY DEF ChoicesBy, ChosenBy, Chosen

(* SpecificGroupStrategy books for each group the stCELO of those who      *)
(* chose it.                                                               *)
THEOREM HoldersAlwaysBooked == Spec => []HoldersBooked
<1>1. IInv => HoldersBooked
  BY ChosenFact DEF IInv, Right, HoldersBooked, Strategy
<1> QED BY <1>1, Invariant, PTL

(* The default strategy accounts for all the stCELO that it votes for.     *)
THEOREM LentAlwaysCovered == Spec => []LentCovered
<1>1. IInv => LentCovered
  BY ChosenFact DEF IInv, Right, LentCovered, LentBy, Strategy
<1> QED BY <1>1, Invariant, PTL

(* A group lends more than it has by no more than a unit for each          *)
(* withdrawal that was rounded.                                            *)
THEOREM LentAlwaysWithinTotal == Spec => []LentWithinTotal
<1>1. IInv => LentWithinTotal
  BY DEF IInv, Within, LentWithinTotal
<1> QED BY <1>1, Invariant, PTL

----------------------------------------------------------------------------
(* Where the default strategy books.                                       *)

(* The default strategy books stCELO for its active groups only.           *)
Apart(b) == \A g \in Groups \ ActiveGroups : b.default[g] = 0

(* Nothing is shared out to other groups.                                  *)
LEMMA OutsideFact ==
  ASSUME NEW f, NEW g \in Groups \ ActiveGroups
  PROVE  OverGroups(f)[g] = 0
BY DEF OverGroups

(* A withdrawal from the default strategy takes from active groups,        *)
LEMMA WithdrawalApart ==
  ASSUME TypeOK, NEW b \in Books, Apart(b), NEW n \in Nat, NEW w \in DefaultWithdrawals(b, n)
  PROVE  Apart(DefaultWithdrawal(b, w))
<1>1. w.taken \in Takings(b) BY DEF DefaultWithdrawals
<1>2. PICK h : w.taken = OverGroups(h) BY <1>1 DEF Takings
<1>3. \A g \in Groups \ ActiveGroups : w.taken[g] = 0 BY <1>2, OutsideFact
<1>4. DefaultWithdrawal(b, w) = [b EXCEPT !.default = Minus(b.default, w.taken)]
  BY DefaultWithdrawalFact
<1>5. DefaultWithdrawal(b, w).default = Minus(b.default, w.taken) BY <1>4 DEF Books
<1>6. b.default \in [Groups -> Nat] BY DEF Books
<1> QED BY <1>3, <1>5, <1>6 DEF Apart, Minus

(* and a deposit gives to active groups.                                   *)
LEMMA DepositApart ==
  ASSUME NEW b \in Books, Apart(b), NEW n \in Nat, NEW stCelo \in Nat, NEW ignore,
         NEW d \in DefaultDeposits(b, n, stCelo, ignore)
  PROVE  Apart(DefaultDeposit(b, d))
<1>1. d.added \in Spreads(stCelo) BY DEF DefaultDeposits
<1>2. PICK h : d.added = OverGroups(h) BY <1>1 DEF Spreads
<1>3. \A g \in Groups \ ActiveGroups : d.added[g] = 0 BY <1>2, OutsideFact
<1>4. DefaultDeposit(b, d) = [b EXCEPT !.default = Plus(b.default, d.added)]
  BY DefaultDepositFact
<1>5. DefaultDeposit(b, d).default = Plus(b.default, d.added) BY <1>4 DEF Books
<1>6. b.default \in [Groups -> Nat] BY DEF Books
<1> QED BY <1>3, <1>5, <1>6 DEF Apart, Plus

(* So do withdrawals                                                       *)
LEMMA WithdrawalsApart ==
  ASSUME TypeOK, NEW b \in Books, Apart(b), NEW s \in Strategy, NEW n \in Nat,
         NEW w \in Withdrawals(b, s, n)
  PROVE  Apart(DistributeWithdrawals(b, s, n, w))
<1> DEFINE f == FromDefault(b, s, toCelo(n))
           less == DefaultWithdrawal(b, w)
<1>1. f \in Nat
  <2>1. toCelo(n) \in Nat BY ConversionFact
  <2>2. s # Default => Lent(b, s) \in Nat BY LentFact DEF Strategy
  <2>3. s # Default => toCelo(Lent(b, s)) \in Nat BY <2>2, ConversionFact
  <2> QED BY <2>1, <2>3 DEF FromDefault, MinOf
<1>2. w \in DefaultWithdrawals(b, f) BY DEF Withdrawals
<1> HIDE DEF f
<1>3. Apart(less) /\ less \in Books BY <1>1, <1>2, WithdrawalApart, DefaultWithdrawalFact
<1> HIDE DEF less
<1>4. DistributeWithdrawals(b, s, n, w).default = less.default
  BY <1>3 DEF DistributeWithdrawals, Returned, Books, less
<1> QED BY <1>3, <1>4 DEF Apart

(* and deposits by any strategy.                                           *)
LEMMA DepositsApart ==
  ASSUME TypeOK, NEW b \in Books, Apart(b), NEW s \in Strategy, NEW n \in Nat,
         NEW stCelo \in Nat, NEW receivable \in Receivables(s, n),
         NEW d \in Deposits(b, s, n, stCelo, receivable)
  PROVE  Apart(DistributeVotes(b, s, n, stCelo, receivable, d))
<1> DEFINE rest == n - Placed(s, n, receivable)
           spilled == Spilled(s, n, stCelo, receivable)
           more == DefaultDeposit(b, d)
<1>1. rest \in Nat /\ spilled \in Nat
  <2>1. receivable \in Nat BY DEF Receivables
  <2>2. rest \in Nat BY <2>1 DEF Placed, MinOf
  <2> HIDE DEF rest
  <2>3. toStakedCelo(rest) \in Nat BY <2>2, ConversionFact
  <2> QED BY <2>2, <2>3 DEF Spilled, MinOf, rest
<1>2. d \in DefaultDeposits(b, rest, spilled, s) BY DEF Deposits
<1> HIDE DEF rest, spilled
<1>3. Apart(more) /\ more \in Books BY <1>1, <1>2, DepositApart, DefaultDepositFact
<1> HIDE DEF more
<1>4. DistributeVotes(b, s, n, stCelo, receivable, d).default = more.default
  BY <1>3 DEF DistributeVotes, Books, more
<1> QED BY <1>3, <1>4 DEF Apart

(* Nobody's stCELO moves to an inactive group of the default strategy.     *)
LEMMA MoveApart ==
  ASSUME IInv, Apart(books), NEW from \in Strategy, NEW to \in Strategy, NEW n \in Nat,
         n <= ChoicesBy(strategies, balances)[from],
         MoveStCelo(from, to, n)
  PROVE  Apart(books')
<1> DEFINE c == ChoicesBy(strategies, balances)
<1>1. /\ TypeOK /\ Valued /\ Right(books, c) /\ Within(books, rounded)
      /\ c \in [Strategy -> Nat] /\ rounded \in [Groups -> Nat] /\ books \in Books
  BY StateFact DEF IInv, TypeOK
<1>2. CASE from = to \/ n = 0 BY <1>2 DEF MoveStCelo, Apart
<1>3. CASE ~(from = to \/ n = 0)
  <2>1. TransferWithoutChecks(from, to, n) BY <1>3 DEF MoveStCelo
  <2>2. PICK w \in Withdrawals(books, from, n), receivable \in Receivables(to, toCelo(n)) :
          \E d \in Deposits(DistributeWithdrawals(books, from, n, w), to, toCelo(n), n,
                            receivable) :
            books' = DistributeVotes(DistributeWithdrawals(books, from, n, w), to,
                                     toCelo(n), n, receivable, d)
    BY <2>1 DEF TransferWithoutChecks
  <2> DEFINE less == DistributeWithdrawals(books, from, n, w)
             v == toCelo(n)
  <2>3. PICK d \in Deposits(less, to, v, n, receivable) :
          books' = DistributeVotes(less, to, v, n, receivable, d)
    BY <2>2
  <2>4. v \in Nat /\ receivable \in Receivables(to, v) BY <1>1, ConversionFact
  <2>5. n <= c[from] OBVIOUS
  <2> HIDE DEF c, v
  <2>6. Right(less, LessChosen(c, from, n)) BY <1>1, <2>5, WithdrawalKeeps
  <2>7. less \in Books BY <2>6 DEF Right
  <2>8. Apart(less) BY <1>1, WithdrawalsApart
  <2> HIDE DEF less
  <2> QED BY <1>1, <2>3, <2>4, <2>7, <2>8, DepositsApart
<1> QED BY <1>2, <1>3

(* What users do.                                                          *)
LEMMA UserApart == IInv /\ Apart(books) /\ UserStep => Apart(books')
<1> SUFFICES ASSUME IInv, Apart(books), UserStep PROVE Apart(books') OBVIOUS
<1>1. TypeOK /\ books \in Books BY DEF IInv, TypeOK
<1>2. PICK a \in Accounts :
        \/ \E n \in 1 .. MaxCelo : \E receivable \in Receivables(strategies[a], n) :
             Deposit(a, n, receivable)
        \/ \E n \in 1 .. balances[a] :
             Withdraw(a, n) \/ \E b \in Accounts : Transfer(a, b, n)
        \/ \E s \in SpecificGroups \cup {Default}, forced \in BOOLEAN :
             ChangeStrategy(a, s, forced)
  BY DEF UserStep
<1> DEFINE s == strategies[a]
<1>3. /\ balances[a] \in Nat /\ MaxCelo \in Nat /\ s \in Strategy
      /\ balances[a] <= ChoicesBy(strategies, balances)[s]
      /\ ChoicesBy(strategies, balances)[s] \in Nat
  BY <1>1, StateFact, BoundsAssumption DEF TypeOK
<1>4. ASSUME NEW n \in 1 .. MaxCelo, NEW receivable \in Receivables(s, n),
             Deposit(a, n, receivable)
      PROVE  Apart(books')
  <2> DEFINE stCelo == toStakedCelo(n)
  <2>1. n \in Nat BY <1>3
  <2>2. stCelo \in Nat BY <1>1, <2>1, ConversionFact
  <2>3. PICK d \in Deposits(books, s, n, stCelo, receivable) :
          books' = DistributeVotes(books, s, n, stCelo, receivable, d)
    BY <1>4 DEF Deposit
  <2> HIDE DEF stCelo, s
  <2> QED BY <1>1, <1>3, <1>4, <2>1, <2>2, <2>3, DepositsApart
<1>5. ASSUME NEW n \in 1 .. balances[a], Withdraw(a, n) PROVE Apart(books')
  <2>1. n \in Nat BY <1>3
  <2>2. PICK w \in Withdrawals(books, s, n) :
          books' = DistributeWithdrawals(books, s, n, w)
    BY <1>5 DEF Withdraw
  <2> HIDE DEF s
  <2> QED BY <1>1, <1>3, <2>1, <2>2, WithdrawalsApart
<1>6. ASSUME NEW n \in 1 .. balances[a], NEW b \in Accounts, Transfer(a, b, n)
      PROVE  Apart(books')
  <2> DEFINE to == strategies[b]
             held == ChoicesBy(strategies, balances)[s]
  <2>1. n \in Nat /\ n <= balances[a] BY <1>3
  <2>2. to \in Strategy /\ MoveStCelo(s, to, n) BY <1>1, <1>6, StateFact DEF Transfer
  <2>3. n <= held
    <3> HIDE DEF held, s
    <3> QED BY <1>3, <2>1 DEF held
  <2> HIDE DEF s, to
  <2> QED BY <1>3, <2>1, <2>2, <2>3, MoveApart
<1>7. ASSUME NEW to \in SpecificGroups \cup {Default}, NEW forced \in BOOLEAN,
             ChangeStrategy(a, to, forced)
      PROVE  Apart(books')
  <2>1. to \in Strategy /\ MoveStCelo(s, to, balances[a])
    BY <1>7, GroupsAssumption DEF ChangeStrategy, Strategy
  <2> HIDE DEF s
  <2> QED BY <1>3, <2>1, MoveApart
<1> QED BY <1>2, <1>4, <1>5, <1>6, <1>7

(* What anyone does to make the CELO follow.                               *)
LEMMA RebalanceApart == IInv /\ Apart(books) /\ RebalanceStep => Apart(books')
<1> SUFFICES ASSUME IInv, Apart(books), RebalanceStep PROVE Apart(books') OBVIOUS
<1>1. TypeOK /\ books \in Books /\ celo \in [Groups -> Nat] /\ MaxCelo \in Nat
  BY BoundsAssumption DEF IInv, TypeOK
<1>2. ASSUME NEW n \in Nat, NEW w \in DefaultWithdrawals(books, toCelo(n)), NEW b,
             b.default = DefaultWithdrawal(books, w).default
      PROVE  Apart(b)
  <2>1. toCelo(n) \in Nat BY <1>1, ConversionFact
  <2>2. Apart(DefaultWithdrawal(books, w)) BY <1>1, <2>1, WithdrawalApart
  <2> QED BY <1>2, <2>2 DEF Apart
<1>3. ASSUME NEW g \in Groups,
             ReturnUnhealthy(g, DefaultWithdrawals(books, toCelo(books.unhealthy[g])))
      PROVE  Apart(books')
  <2>1. PICK w \in DefaultWithdrawals(books, toCelo(books.unhealthy[g])) :
          books' = [DefaultWithdrawal(books, w) EXCEPT !.unhealthy[g] = 0]
    BY <1>3 DEF ReturnUnhealthy
  <2>2. books.unhealthy[g] \in Nat BY <1>1 DEF Books
  <2>3. DefaultWithdrawal(books, w) \in Books
    BY <1>1, <2>2, ConversionFact, DefaultWithdrawalFact
  <2>4. books'.default = DefaultWithdrawal(books, w).default BY <2>1, <2>3 DEF Books
  <2> QED BY <1>2, <2>2, <2>4
<1>4. ASSUME NEW g \in Groups, NEW n \in 1 .. MaxCelo,
             RebalanceOverflowedGroup(g, n,
               DefaultWithdrawals(books, toCelo(OverflowToMove(g, n))))
      PROVE  Apart(books')
  <2> DEFINE u == OverflowToMove(g, n)
  <2>1. PICK w \in DefaultWithdrawals(books, toCelo(u)) :
          books' = [DefaultWithdrawal(books, w) EXCEPT !.overflow[g] = @ - u]
    BY <1>4 DEF RebalanceOverflowedGroup
  <2>2. u \in Nat
    <3>1. n \in Nat /\ books.overflow[g] \in Nat BY <1>1 DEF Books
    <3>2. toStakedCelo(n) \in Nat BY <1>1, <3>1, ConversionFact
    <3> QED BY <3>1, <3>2 DEF MinOf, OverflowToMove
  <2> HIDE DEF u
  <2>3. DefaultWithdrawal(books, w) \in Books
    BY <1>1, <2>2, ConversionFact, DefaultWithdrawalFact
  <2>4. books'.default = DefaultWithdrawal(books, w).default BY <2>1, <2>3 DEF Books
  <2> QED BY <1>2, <2>2, <2>4
<1>5. ASSUME NEW g \in Groups, LendUnhealthy(g) PROVE Apart(books')
  <2> DEFINE u == books.total[g] - Lent(books, g)
             v == MinOf(celo[g], toCelo(u))
  <2>1. u >= 0 /\ \E d \in DefaultDeposits(books, v, u, Default) :
          books' = [DefaultDeposit(books, d) EXCEPT !.unhealthy[g] = @ + u]
    BY <1>5 DEF LendUnhealthy
  <2>2. u \in Nat
    <3>1. books.total[g] \in Nat /\ Lent(books, g) \in Nat BY <1>1, LentFact DEF Books
    <3> QED BY <2>1, <3>1
  <2> HIDE DEF u
  <2>3. v \in Nat
    <3>1. celo[g] \in Nat /\ toCelo(u) \in Nat BY <1>1, <2>2, ConversionFact
    <3> QED BY <3>1 DEF MinOf
  <2> HIDE DEF v
  <2>4. PICK d \in DefaultDeposits(books, v, u, Default) :
          books' = [DefaultDeposit(books, d) EXCEPT !.unhealthy[g] = @ + u]
    BY <2>1
  <2>5. DefaultDeposit(books, d) \in Books BY <1>1, <2>2, <2>3, DefaultDepositFact
  <2>6. Apart(DefaultDeposit(books, d)) BY <1>1, <2>2, <2>3, DepositApart
  <2>7. books'.default = DefaultDeposit(books, d).default BY <2>4, <2>5 DEF Books
  <2> QED BY <2>6, <2>7 DEF Apart
<1>6. ASSUME NEW from \in Groups, NEW to \in Groups, Rebalance(from, to)
      PROVE  Apart(books')
  BY <1>6 DEF Rebalance, Apart
<1> QED BY <1>3, <1>4, <1>5, <1>6 DEF RebalanceStep

(* Every step.                                                             *)
LEMMA NextApart == IInv /\ Apart(books) /\ [Next]_vars => Apart(books')
<1> SUFFICES ASSUME IInv, Apart(books), [Next]_vars PROVE Apart(books') OBVIOUS
<1>1. CASE VerdictStep \/ OtherStep \/ UNCHANGED vars
  <2>1. books' = books
    BY <1>1 DEF VerdictStep, OtherStep, UpdateGroupHealth, BlockGroup, UnblockGroup, Rewards,
                RebalanceOverflow, vars
  <2> QED BY <2>1 DEF Apart
<1> QED BY <1>1, UserApart, RebalanceApart DEF Next

(* The two together.                                                       *)
ApartInv == IInv /\ Apart(books)

(* The default strategy never books anything for a group not its own.      *)
LEMMA AlwaysApart == Spec => []ApartInv
<1>1. Init => ApartInv BY InitInv DEF Init, Apart, NoVotes, ApartInv
<1>2. ApartInv /\ [Next]_vars => ApartInv'
  <2>1. Apart(books') <=> Apart(books)' BY DEF Apart
  <2> QED BY <2>1, NextInv, NextApart DEF ApartInv
<1> QED BY <1>1, <1>2, PTL DEF Spec

----------------------------------------------------------------------------
(* The loop of a withdrawal, turn by turn.                                 *)

(* At par a unit is worth a unit.                                          *)
LEMMA ParFact ==
  ASSUME TypeOK, AtPar
  PROVE  \A n \in Nat : toCelo(n) = n /\ toStakedCelo(n) = n
<1>1. Supply \in Nat /\ TotalCelo = Supply BY SumsFact DEF AtPar
<1>2. ASSUME NEW n \in Nat, NEW s \in Nat, s # 0 PROVE (n * s) \div s = n
  <2> DEFINE p == n * s
             q == p \div s
  <2>1. p \in Nat BY <1>2, ProductNat
  <2>2. q \in Nat /\ q * s <= p /\ p < q * s + s BY <1>2, <2>1, DivFact
  <2> HIDE DEF q
  <2>3. q <= n BY <1>2, <2>2, ProductCancelEq DEF p
  <2>4. n < q + 1
    <3>1. (q + 1) * s = q * s + s BY <1>2, <2>2
    <3>2. n * s < (q + 1) * s BY <2>2, <3>1 DEF p
    <3> QED BY <1>2, <2>2, <3>2, ProductCancel
  <2>5. q = n BY <2>2, <2>3, <2>4
  <2> QED BY <2>5 DEF q
<1> SUFFICES ASSUME NEW n \in Nat PROVE toCelo(n) = n /\ toStakedCelo(n) = n OBVIOUS
<1>3. Supply # 0 => (n * Supply) \div Supply = n BY <1>1, <1>2
<1> QED BY <1>1, <1>3 DEF toCelo, toStakedCelo

(* Where the loop starts.                                                  *)
LoopStart(b, n) == [default |-> b.default, votes |-> NoVotes, left |-> n]

(* f gives what the loop may have come to after each of m turns.           *)
LoopRun(f, b, n, m) ==
  f = [k \in 0 .. m |-> IF k = 0 THEN {LoopStart(b, n)}
                        ELSE UNION {Turns(r) : r \in f[k - 1]}]

(* There is such a function for every number of turns.                     *)
LEMMA LoopRunExists ==
  ASSUME NEW b, NEW n, NEW m \in Nat
  PROVE  \E f : LoopRun(f, b, n, m)
<1> DEFINE bad == {k \in Nat : ~\E f : LoopRun(f, b, n, k)}
<1>1. SUFFICES ASSUME bad # {} PROVE FALSE OBVIOUS
<1>2. PICK k \in bad : \A i \in bad : k <= i
  <2>1. bad \subseteq Nat OBVIOUS
  <2> HIDE DEF bad
  <2> QED BY <1>1, <2>1, MinExists
<1>3. k # 0
  <2> SUFFICES \E f : LoopRun(f, b, n, 0) OBVIOUS
  <2> DEFINE f == [i \in 0 .. 0 |-> {LoopStart(b, n)}]
  <2>1. f = [i \in 0 .. 0 |-> IF i = 0 THEN {LoopStart(b, n)}
                              ELSE UNION {Turns(r) : r \in f[i - 1]}]
    OBVIOUS
  <2> HIDE DEF f
  <2> QED BY <2>1 DEF LoopRun
<1>4. k - 1 \in Nat /\ k - 1 \notin bad BY <1>2, <1>3
<1>5. PICK f : LoopRun(f, b, n, k - 1) BY <1>4
<1> DEFINE h == [i \in 0 .. k |-> IF i = k THEN UNION {Turns(r) : r \in f[k - 1]} ELSE f[i]]
<1>6. \A i \in 0 .. k - 1 : f[i] = IF i = 0 THEN {LoopStart(b, n)}
                                   ELSE UNION {Turns(r) : r \in f[i - 1]}
  BY <1>5, Zenon DEF LoopRun
<1>7. \A i \in 0 .. k : h[i] = IF i = 0 THEN {LoopStart(b, n)}
                               ELSE UNION {Turns(r) : r \in h[i - 1]}
  <2> SUFFICES ASSUME NEW i \in 0 .. k
               PROVE  h[i] = IF i = 0 THEN {LoopStart(b, n)}
                             ELSE UNION {Turns(r) : r \in h[i - 1]}
    OBVIOUS
  <2>1. i # 0 => h[i - 1] = f[i - 1] BY <1>2
  <2>2. CASE i = k
    <3>1. h[i] = UNION {Turns(r) : r \in f[i - 1]} BY <2>2
    <3> HIDE DEF h
    <3> QED BY <1>3, <2>1, <2>2, <3>1
  <2>3. CASE i # k
    <3>1. h[i] = f[i] /\ i \in 0 .. k - 1 BY <1>2, <2>3
    <3> HIDE DEF h
    <3> QED BY <1>6, <2>1, <3>1
  <2> QED BY <2>2, <2>3
<1>8. h = [i \in 0 .. k |-> h[i]] OBVIOUS
<1> HIDE DEF h
<1>9. LoopRun(h, b, n, k) BY <1>7, <1>8 DEF LoopRun
<1> QED BY <1>2, <1>9

(* What holds at the start, and from turn to turn, holds at the end.       *)
LEMMA LoopKeeps ==
  ASSUME NEW b, NEW n, NEW good, MaxTurns \in Nat,
         LoopStart(b, n) \in good[0],
         \A k \in 1 .. MaxTurns : \A r \in good[k - 1] : Turns(r) \subseteq good[k]
  PROVE  LoopEnds(b, n) \subseteq good[MaxTurns]
<1> DEFINE m == MaxTurns
           run == CHOOSE f : LoopRun(f, b, n, m)
<1>1. LoopRun(run, b, n, m) BY LoopRunExists
<1>2. LoopEnds(b, n) = run[m] BY DEF LoopEnds, LoopRun, LoopStart
<1> HIDE DEF run, m
<1>3. \A i \in 0 .. m : run[i] = IF i = 0 THEN {LoopStart(b, n)}
                                 ELSE UNION {Turns(r) : r \in run[i - 1]}
  BY <1>1, Zenon DEF LoopRun
<1> DEFINE bad == {k \in 0 .. m : ~(run[k] \subseteq good[k])}
<1>4. m \in Nat BY DEF m
<1>5. bad = {}
  <2> SUFFICES ASSUME bad # {} PROVE FALSE OBVIOUS
  <2>1. bad \subseteq Nat OBVIOUS
  <2>2. PICK k \in bad : \A i \in bad : k <= i
    <3> HIDE DEF bad
    <3> QED BY <2>1, MinExists
  <2>3. k # 0
    <3>1. 0 \in 0 .. m BY <1>4
    <3>2. run[0] = IF 0 = 0 THEN {LoopStart(b, n)}
                   ELSE UNION {Turns(r) : r \in run[0 - 1]}
      BY <1>3, <3>1, Zenon
    <3>3. run[0] = {LoopStart(b, n)} BY <3>2
    <3> QED BY <2>2, <3>3
  <2>4. k \in 1 .. m /\ k - 1 \in 0 .. m /\ k - 1 \notin bad BY <1>4, <2>2, <2>3
  <2>5. run[k - 1] \subseteq good[k - 1] BY <2>4
  <2>6. run[k] = UNION {Turns(r) : r \in run[k - 1]} BY <1>3, <2>3, <2>4
  <2>7. run[k] \subseteq good[k] BY <2>4, <2>5, <2>6 DEF m
  <2> QED BY <2>2, <2>7
<1> QED BY <1>2, <1>4, <1>5 DEF m

(* The active groups are finitely many, and the loop has no more turns.    *)
LEMMA ActiveFact ==
  /\ IsFiniteSet(ActiveGroups) /\ Cardinality(ActiveGroups) \in Nat
  /\ Cardinality(ActiveGroups) # 0 /\ ActiveGroups \subseteq Groups
  /\ MaxTurns \in Nat /\ MaxTurns <= Cardinality(ActiveGroups)
  /\ AllInReach => MaxTurns = Cardinality(ActiveGroups)
<1>1. /\ IsFiniteSet(Groups) /\ ActiveGroups \in SUBSET Groups /\ ActiveGroups # {}
  BY GroupsAssumption
<1>2. IsFiniteSet(ActiveGroups) BY <1>1, FS_Subset
<1>3. Cardinality(ActiveGroups) \in Nat /\ Cardinality(ActiveGroups) # 0
  BY <1>1, <1>2, FS_EmptySet, FS_CardinalityType
<1> QED BY <1>1, <1>2, <1>3, LimitAssumption DEF MaxTurns, MinOf, AllInReach

(* Nothing is worth nothing, and converting an amount in two parts loses   *)
(* at most one unit.                                                       *)
LEMMA PartsFact ==
  ASSUME TypeOK, NEW m \in Nat, NEW n \in Nat
  PROVE  /\ toStakedCelo(0) = 0 /\ toCelo(0) = 0
         /\ toStakedCelo(m) + toStakedCelo(n) <= toStakedCelo(m + n)
         /\ toStakedCelo(m + n) <= toStakedCelo(m) + toStakedCelo(n) + 1
<1>1. PICK s, c \in Nat \ {0} :
        \A k \in Nat : /\ toStakedCelo(k) = (k * s) \div c
                       /\ toCelo(k) = (k * c) \div s
  BY RateExists
<1>2. s \in Nat /\ c \in Nat /\ s > 0 /\ c > 0 OBVIOUS
<1>3. toStakedCelo(0) = 0 /\ toCelo(0) = 0
  <2>1. 0 * s = 0 /\ 0 * c = 0 /\ 0 \div c = 0 /\ 0 \div s = 0 BY <1>2
  <2> QED BY <1>1, <2>1
<1>4. m * s \in Nat /\ n * s \in Nat /\ (m + n) * s = m * s + n * s
  BY <1>2, ProductNat
<1>5. /\ (m * s) \div c + (n * s) \div c <= (m * s + n * s) \div c
      /\ (m * s + n * s) \div c <= (m * s) \div c + (n * s) \div c + 1
  BY <1>2, <1>4, FloorSum, FloorSumLoss
<1>6. m + n \in Nat OBVIOUS
<1> QED BY <1>1, <1>3, <1>4, <1>5, <1>6

(* What the loop may have come to.                                         *)
LoopStates == [default : [Groups -> Nat], votes : [Groups -> Nat], left : Nat]

Gone(b, r, g) == b.default[g] - r.default[g]

(* After k turns, with which of n is left; of each group as much stCELO is *)
(* gone as its votes are worth, but for less than a unit a turn.           *)
LoopInv(b, n, r, k) ==
  /\ r \in LoopStates
  /\ Total(r.votes) + r.left = n
  /\ \A g \in Groups :
       /\ r.default[g] <= b.default[g]
       /\ g \notin ActiveGroups => r.votes[g] = 0
       /\ r.votes[g] = 0 => r.default[g] = b.default[g]
       /\ r.votes[g] > 0 => /\ celo[g] > 0 /\ b.default[g] > 0
                            /\ toStakedCelo(r.votes[g]) < Gone(b, r, g) + k
       /\ Gone(b, r, g) <= toStakedCelo(r.votes[g])
       /\ AtPar => Gone(b, r, g) = r.votes[g]

(* What a turn takes from a group.                                         *)
TurnVotes(r, g) == MinOf(MinOf(celo[g], toCelo(r.default[g])), r.left)

(* A turn takes no more than there is, in CELO or in stCELO.               *)
LEMMA TurnFact ==
  ASSUME TypeOK, NEW r \in LoopStates, NEW g \in Groups
  PROVE  /\ TurnVotes(r, g) \in Nat /\ TurnVotes(r, g) <= r.left
         /\ toStakedCelo(TurnVotes(r, g)) \in Nat
         /\ toStakedCelo(TurnVotes(r, g)) <= r.default[g]
         /\ TurnVotes(r, g) > 0 => celo[g] > 0 /\ r.default[g] > 0
         /\ TurnAt(r, g) =
              [default |-> [r.default EXCEPT ![g] = @ - toStakedCelo(TurnVotes(r, g))],
               votes |-> [r.votes EXCEPT ![g] = @ + TurnVotes(r, g)],
               left |-> r.left - TurnVotes(r, g)]
         /\ TurnAt(r, g) \in LoopStates
         /\ Total(TurnAt(r, g).votes) = Total(r.votes) + TurnVotes(r, g)
<1> DEFINE v == TurnVotes(r, g)
           p == toCelo(r.default[g])
<1>1. /\ r.default \in [Groups -> Nat] /\ r.votes \in [Groups -> Nat] /\ r.left \in Nat
      /\ r.default[g] \in Nat /\ r.votes[g] \in Nat /\ celo[g] \in Nat
  BY DEF LoopStates, TypeOK
<1>2. p \in Nat /\ toStakedCelo(p) <= r.default[g] BY <1>1, ConversionFact
<1>3. r.default[g] = 0 => p = 0 BY PartsFact
<1>4. v = MinOf(MinOf(celo[g], p), r.left) BY DEF TurnVotes
<1> HIDE DEF p
<1>5. v \in Nat /\ v <= r.left /\ v <= p /\ v <= celo[g] BY <1>1, <1>2, <1>4 DEF MinOf
<1> HIDE DEF v
<1>6. toStakedCelo(v) \in Nat /\ toStakedCelo(v) <= r.default[g]
  <2>1. toStakedCelo(v) \in Nat /\ toStakedCelo(p) \in Nat
        /\ toStakedCelo(v) <= toStakedCelo(p)
    BY <1>2, <1>5, ConversionFact
  <2> QED BY <1>1, <1>2, <2>1
<1>7. v > 0 => celo[g] > 0 /\ r.default[g] > 0 BY <1>1, <1>2, <1>3, <1>5
<1>8. TurnAt(r, g) = [default |-> [r.default EXCEPT ![g] = @ - toStakedCelo(v)],
                      votes |-> [r.votes EXCEPT ![g] = @ + v],
                      left |-> r.left - v]
  BY DEF TurnAt, TurnVotes, v
<1>9. /\ [r.default EXCEPT ![g] = @ - toStakedCelo(v)] \in [Groups -> Nat]
      /\ [r.votes EXCEPT ![g] = @ + v] \in [Groups -> Nat]
      /\ r.left - v \in Nat
  BY <1>1, <1>5, <1>6
<1>10. TurnAt(r, g) \in LoopStates BY <1>8, <1>9 DEF LoopStates
<1>11. Total([r.votes EXCEPT ![g] = r.votes[g] + v]) = Total(r.votes) + v
  <2> DEFINE k == r.votes[g] + v
  <2>1. k \in Nat BY <1>1, <1>5
  <2>2. Total(r.votes) \in Nat BY <1>1, UnitsFinite, GroupsAssumption
  <2> HIDE DEF k
  <2>3. Total([r.votes EXCEPT ![g] = k]) = Total(r.votes) - r.votes[g] + k
    BY <1>1, <2>1, TotalExcept, GroupsAssumption
  <2> QED BY <1>1, <1>5, <2>2, <2>3 DEF k
<1>12. Total(TurnAt(r, g).votes) = Total(r.votes) + v BY <1>8, <1>11
<1> QED BY <1>5, <1>6, <1>7, <1>8, <1>10, <1>12 DEF v

(* A turn keeps the invariant of the loop.                                 *)
LEMMA TurnKeeps ==
  ASSUME TypeOK, NEW b \in Books, NEW n \in Nat, NEW k \in Nat,
         NEW r, LoopInv(b, n, r, k), NEW e \in Turns(r)
  PROVE  LoopInv(b, n, e, k + 1)
<1>1. r \in LoopStates /\ b.default \in [Groups -> Nat] BY DEF LoopInv, Books
<1>2. /\ r.default \in [Groups -> Nat] /\ r.votes \in [Groups -> Nat] /\ r.left \in Nat
      /\ Total(r.votes) \in Nat
  BY <1>1, UnitsFinite, GroupsAssumption DEF LoopStates
<1>3. CASE r.left = 0
  <2>1. e = r BY <1>3 DEF Turns
  <2>2. \A g \in Groups : r.votes[g] \in Nat /\ Gone(b, r, g) \in Int
    BY <1>1, <1>2 DEF Gone
  <2>3. \A g \in Groups : toStakedCelo(r.votes[g]) \in Nat BY <2>2, ConversionFact
  <2> QED BY <2>1, <2>2, <2>3 DEF LoopInv
<1>4. CASE r.left # 0
  <2>1. PICK h \in Heads(r.default) : e = TurnAt(r, h) BY <1>4 DEF Turns
  <2>2. h \in ActiveGroups /\ h \in Groups BY <2>1, GroupsAssumption DEF Heads
  <2> DEFINE v == TurnVotes(r, h)
             t == toStakedCelo(v)
  <2>3. /\ v \in Nat /\ v <= r.left /\ t \in Nat /\ t <= r.default[h]
        /\ v > 0 => celo[h] > 0 /\ r.default[h] > 0
        /\ e = [default |-> [r.default EXCEPT ![h] = @ - t],
                votes |-> [r.votes EXCEPT ![h] = @ + v],
                left |-> r.left - v]
        /\ e \in LoopStates /\ Total(e.votes) = Total(r.votes) + v
    BY <1>1, <2>1, <2>2, TurnFact
  <2>4. AtPar => t = v BY <2>3, ParFact
  <2>5. v = 0 => t = 0 BY PartsFact
  <2>6. \A m \in Nat : /\ toStakedCelo(m) \in Nat
                       /\ toStakedCelo(m) + t <= toStakedCelo(m + v)
                       /\ toStakedCelo(m + v) <= toStakedCelo(m) + t + 1
    BY <2>3, ConversionFact, PartsFact
  <2>7. toStakedCelo(0) = 0 BY PartsFact
  <2> HIDE DEF v, t
  <2>8. Total(e.votes) + e.left = n BY <1>2, <2>3 DEF LoopInv
  <2>9. ASSUME NEW g \in Groups
        PROVE  /\ e.default[g] <= b.default[g]
               /\ g \notin ActiveGroups => e.votes[g] = 0
               /\ e.votes[g] = 0 => e.default[g] = b.default[g]
               /\ e.votes[g] > 0 => /\ celo[g] > 0 /\ b.default[g] > 0
                                    /\ toStakedCelo(e.votes[g]) < Gone(b, e, g) + (k + 1)
               /\ Gone(b, e, g) <= toStakedCelo(e.votes[g])
               /\ AtPar => Gone(b, e, g) = e.votes[g]
    <3> DEFINE x == r.votes[g]
               d == r.default[g]
               have == b.default[g]
    <3>1. x \in Nat /\ d \in Nat /\ have \in Nat /\ Gone(b, r, g) = have - d
      BY <1>1, <1>2 DEF Gone
    <3>2. /\ d <= have /\ (g \notin ActiveGroups => x = 0) /\ (x = 0 => d = have)
          /\ x > 0 => celo[g] > 0 /\ have > 0 /\ toStakedCelo(x) < have - d + k
          /\ have - d <= toStakedCelo(x)
          /\ AtPar => have - d = x
      BY <3>1 DEF LoopInv
    <3>3. Gone(b, e, g) = have - e.default[g] BY DEF Gone
    <3>4. CASE g = h
      <4>1. e.votes[g] = x + v /\ e.default[g] = d - t BY <1>2, <2>3, <3>4
      <4> HIDE DEF x, d, have
      <4>2. /\ toStakedCelo(x) \in Nat /\ toStakedCelo(x) + t <= toStakedCelo(x + v)
            /\ toStakedCelo(x + v) <= toStakedCelo(x) + t + 1
            /\ toStakedCelo(x + v) \in Nat
        BY <2>3, <2>6, <3>1
      <4>3. v > 0 => celo[g] > 0 /\ have > 0 BY <2>3, <3>1, <3>2, <3>4 DEF d
      <4>4. t <= d BY <2>3, <3>4 DEF d
      <4>5. x + v > 0 => /\ celo[g] > 0 /\ have > 0
                         /\ toStakedCelo(x + v) < have - (d - t) + (k + 1)
        <5>1. CASE x = 0
          <6>1. toStakedCelo(x + v) = t BY <2>3, <5>1 DEF t
          <6> QED BY <2>3, <3>1, <3>2, <4>3, <5>1, <6>1
        <5>2. CASE v = 0
          <6>1. t = 0 /\ x + v = x BY <2>5, <3>1, <5>2
          <6> QED BY <3>1, <3>2, <4>2, <5>2, <6>1
        <5>3. CASE x > 0 /\ v > 0
          BY <2>3, <3>1, <3>2, <4>2, <4>3, <5>3
        <5> QED BY <2>3, <3>1, <5>1, <5>2, <5>3
      <4>6. x + v = 0 => d - t = have BY <2>3, <2>5, <3>1, <3>2
      <4>7. have - (d - t) <= toStakedCelo(x + v) BY <2>3, <3>1, <3>2, <4>2
      <4>8. AtPar => have - (d - t) = x + v BY <2>3, <2>4, <3>1, <3>2
      <4>9. d - t <= have BY <2>3, <3>1, <3>2, <4>4
      <4> QED BY <2>2, <3>3, <3>4, <4>1, <4>5, <4>6, <4>7, <4>8, <4>9 DEF have
    <3>5. CASE g # h
      <4>1. e.votes[g] = x /\ e.default[g] = d BY <1>2, <2>3, <3>5
      <4>2. toStakedCelo(x) \in Nat BY <2>6, <3>1
      <4> HIDE DEF x, d, have
      <4>3. x > 0 => toStakedCelo(x) < have - d + (k + 1) BY <3>1, <3>2, <4>2
      <4> QED BY <3>2, <3>3, <4>1, <4>3 DEF have
    <3> QED BY <3>4, <3>5
  <2> QED BY <2>3, <2>8, <2>9 DEF LoopInv
<1> QED BY <1>2, <1>3, <1>4

(* The invariant holds at the start.                                       *)
LEMMA StartFact ==
  ASSUME TypeOK, NEW b \in Books, NEW n \in Nat
  PROVE  LoopInv(b, n, LoopStart(b, n), 0)
<1> DEFINE x == LoopStart(b, n)
<1>1. x.default = b.default /\ x.votes = NoVotes /\ x.left = n BY DEF LoopStart
<1>2. b.default \in [Groups -> Nat] /\ NoVotes \in [Groups -> Nat] BY DEF Books, NoVotes
<1>3. x \in LoopStates BY <1>2 DEF LoopStart, LoopStates
<1>4. Total(NoVotes) = 0 BY TotalZero DEF NoVotes
<1>5. Total(x.votes) + x.left = n BY <1>1, <1>4
<1> HIDE DEF x
<1>6. ASSUME NEW g \in Groups
      PROVE  /\ x.default[g] = b.default[g] /\ b.default[g] \in Nat
             /\ x.votes[g] = 0 /\ Gone(b, x, g) = 0 /\ toStakedCelo(x.votes[g]) = 0
  <2>1. x.default[g] = b.default[g] /\ b.default[g] \in Nat BY <1>1, <1>2
  <2>2. x.votes[g] = 0 BY <1>1 DEF NoVotes
  <2>3. Gone(b, x, g) = 0 BY <2>1 DEF Gone
  <2> QED BY <2>1, <2>2, <2>3, PartsFact
<1>7. LoopInv(b, n, x, 0) BY <1>3, <1>5, <1>6 DEF LoopInv
<1> QED BY <1>7 DEF x

(* So it holds of whatever the loop comes to.                              *)
LEMMA LoopEndsFact ==
  ASSUME TypeOK, NEW b \in Books, NEW n \in Nat, NEW r \in LoopEnds(b, n)
  PROVE  LoopInv(b, n, r, MaxTurns)
<1> DEFINE good == [k \in 0 .. MaxTurns |-> {x \in LoopStates : LoopInv(b, n, x, k)}]
<1>1. MaxTurns \in Nat BY ActiveFact
<1>2. LoopStart(b, n) \in good[0]
  <2>1. LoopInv(b, n, LoopStart(b, n), 0) /\ LoopStart(b, n) \in LoopStates
    BY StartFact DEF LoopInv
  <2> QED BY <1>1, <2>1
<1>3. \A k \in 1 .. MaxTurns : \A x \in good[k - 1] : Turns(x) \subseteq good[k]
  <2> SUFFICES ASSUME NEW k \in 1 .. MaxTurns, NEW x \in good[k - 1], NEW e \in Turns(x)
               PROVE  e \in good[k]
    OBVIOUS
  <2>1. k - 1 \in 0 .. MaxTurns /\ k - 1 \in Nat /\ (k - 1) + 1 = k /\ k \in 0 .. MaxTurns
    BY <1>1
  <2>2. LoopInv(b, n, x, k - 1) BY <2>1
  <2>3. LoopInv(b, n, e, (k - 1) + 1) BY <2>1, <2>2, TurnKeeps
  <2>4. LoopInv(b, n, e, k) BY <2>1, <2>3
  <2> QED BY <2>1, <2>4 DEF LoopInv
<1> HIDE DEF good
<1>4. r \in good[MaxTurns] BY <1>1, <1>2, <1>3, LoopKeeps
<1>5. MaxTurns \in 0 .. MaxTurns BY <1>1
<1> QED BY <1>4, <1>5 DEF good

(* A run of the loop that goes through is one of the withdrawals there are *)
(* whatever the order of the list.                                         *)
LEMMA HeadFirstFact ==
  ASSUME TypeOK, NEW b \in Books, NEW n \in Nat
  PROVE  HeadFirst(b, n) \subseteq DefaultWithdrawals(b, n)
<1> SUFFICES ASSUME NEW w \in HeadFirst(b, n) PROVE w \in DefaultWithdrawals(b, n)
  OBVIOUS
<1>1. PICK r \in LoopEnds(b, n) :
        r.left = 0 /\ w = [votes |-> r.votes, taken |-> Minus(b.default, r.default)]
  BY DEF HeadFirst
<1>2. LoopInv(b, n, r, MaxTurns) BY LoopEndsFact
<1>3. /\ r.default \in [Groups -> Nat] /\ r.votes \in [Groups -> Nat]
      /\ b.default \in [Groups -> Nat] /\ Total(r.votes) = n
  <2>1. r \in LoopStates /\ Total(r.votes) + r.left = n BY <1>2 DEF LoopInv
  <2>2. r.default \in [Groups -> Nat] /\ r.votes \in [Groups -> Nat] BY <2>1 DEF LoopStates
  <2>3. Total(r.votes) \in Nat BY <2>2, UnitsFinite, GroupsAssumption
  <2> QED BY <1>1, <2>1, <2>2, <2>3 DEF Books
<1>4. w.votes = r.votes /\ w.taken = Minus(b.default, r.default) BY <1>1
<1>5. /\ \A g \in Groups : w.taken[g] = Gone(b, r, g) /\ w.taken[g] \in Nat
                           /\ w.taken[g] <= b.default[g]
      /\ w.taken \in [Groups -> Nat]
  <2>1. \A g \in Groups : w.taken[g] = Gone(b, r, g) BY <1>3, <1>4 DEF Minus, Gone
  <2>2. \A g \in Groups : /\ r.default[g] <= b.default[g] /\ r.default[g] \in Nat
                          /\ b.default[g] \in Nat
    BY <1>2, <1>3 DEF LoopInv
  <2>3. \A g \in Groups : Gone(b, r, g) \in Nat /\ Gone(b, r, g) <= b.default[g]
    BY <2>2 DEF Gone
  <2>4. w.taken = [g \in Groups |-> w.taken[g]] BY <1>3, <1>4 DEF Minus
  <2> QED BY <2>1, <2>3, <2>4
<1>6. \A g \in Groups \ ActiveGroups : w.votes[g] = 0 /\ w.taken[g] = 0
  <2> SUFFICES ASSUME NEW g \in Groups \ ActiveGroups PROVE w.votes[g] = 0 /\ w.taken[g] = 0
    OBVIOUS
  <2>1. r.votes[g] = 0 /\ r.default[g] = b.default[g] BY <1>2 DEF LoopInv
  <2>2. b.default[g] \in Nat BY <1>3
  <2> QED BY <1>4, <1>5, <2>1, <2>2 DEF Gone
<1> HIDE DEF Minus
<1>7. w.votes \in Spreads(n)
  <2> DEFINE h == [g \in ActiveGroups |-> w.votes[g]]
  <2>1. h \in [ActiveGroups -> Nat] BY <1>3, <1>4, GroupsAssumption
  <2>2. OverGroups(h) = w.votes
    <3>1. \A g \in Groups : OverGroups(h)[g] = w.votes[g] BY <1>6 DEF OverGroups
    <3>2. OverGroups(h) = [g \in Groups |-> OverGroups(h)[g]] BY DEF OverGroups
    <3>3. w.votes = [g \in Groups |-> w.votes[g]] BY <1>3, <1>4
    <3> QED BY <3>1, <3>2, <3>3
  <2> HIDE DEF h
  <2>3. Total(h) = n BY <1>3, <1>4, <2>1, <2>2, OverGroupsFact
  <2>4. \A g \in ActiveGroups : h[g] <= n BY <2>1, <2>3, ShareBound, ActiveFact
  <2>5. h \in [ActiveGroups -> 0 .. n]
    <3>1. \A g \in ActiveGroups : h[g] \in 0 .. n BY <2>1, <2>4
    <3> QED BY <2>1, <3>1
  <2> QED BY <2>2, <2>3, <2>5 DEF Spreads
<1>8. w.taken \in Takings(b)
  <2> DEFINE h == [g \in ActiveGroups |-> w.taken[g]]
  <2>1. h \in [ActiveGroups -> Nat] /\ \A g \in ActiveGroups : h[g] <= b.default[g]
    BY <1>5, GroupsAssumption
  <2>2. OverGroups(h) = w.taken
    <3>1. \A g \in Groups : OverGroups(h)[g] = w.taken[g] BY <1>6 DEF OverGroups
    <3>2. OverGroups(h) = [g \in Groups |-> OverGroups(h)[g]] BY DEF OverGroups
    <3>3. w.taken = [g \in Groups |-> w.taken[g]] BY <1>5
    <3> QED BY <3>1, <3>2, <3>3
  <2>3. \A g \in ActiveGroups : b.default[g] <= Total(b.default) /\ b.default[g] \in Nat
    BY <1>3, ShareBound, GroupsAssumption
  <2>4. Total(b.default) \in Nat BY LentFact
  <2> HIDE DEF h
  <2>5. \A g \in ActiveGroups : h[g] \in 0 .. Total(b.default) BY <2>1, <2>3, <2>4
  <2>6. h \in [ActiveGroups -> 0 .. Total(b.default)] BY <2>1, <2>5
  <2> QED BY <2>1, <2>2, <2>6 DEF Takings
<1>9. ASSUME NEW g \in Groups
      PROVE  /\ w.votes[g] > 0 => celo[g] > 0 /\ b.default[g] > 0
             /\ w.taken[g] <= toStakedCelo(w.votes[g])
             /\ toStakedCelo(w.votes[g]) < w.taken[g] + Cardinality(ActiveGroups)
             /\ AtPar => w.taken[g] = w.votes[g]
  <2> DEFINE x == r.votes[g]
  <2>1. /\ x > 0 => /\ celo[g] > 0 /\ b.default[g] > 0
                    /\ toStakedCelo(x) < Gone(b, r, g) + MaxTurns
        /\ Gone(b, r, g) <= toStakedCelo(x)
        /\ AtPar => Gone(b, r, g) = x
    BY <1>2 DEF LoopInv
  <2>2. x \in Nat /\ w.taken[g] = Gone(b, r, g) /\ w.taken[g] \in Nat /\ w.votes[g] = x
    BY <1>3, <1>4, <1>5
  <2> HIDE DEF x
  <2>3. /\ MaxTurns \in Nat /\ Cardinality(ActiveGroups) \in Nat /\ Cardinality(ActiveGroups) # 0
        /\ MaxTurns <= Cardinality(ActiveGroups)
    BY ActiveFact
  <2>4. toStakedCelo(x) \in Nat /\ toStakedCelo(0) = 0 BY <2>2, ConversionFact, PartsFact
  <2>5. toStakedCelo(x) < w.taken[g] + Cardinality(ActiveGroups)
    <3>1. CASE x = 0 BY <2>2, <2>3, <2>4, <3>1
    <3>2. CASE x # 0 BY <2>1, <2>2, <2>3, <2>4, <3>2
    <3> QED BY <3>1, <3>2
  <2> QED BY <2>1, <2>2, <2>5
<1>10. w \in [votes : Spreads(n), taken : Takings(b)] BY <1>1, <1>4, <1>7, <1>8
<1> QED BY <1>9, <1>10 DEF DefaultWithdrawals

(* Whatever is shown for the withdrawals whose order is left open is shown *)
(* for those that the loop makes over a sorted list, at any exchange rate  *)
(* and any limit.                                                          *)
THEOREM LoopsAlwaysCovered == Spec => []LoopsCovered
<1>1. IInv => LoopsCovered
  <2> SUFFICES ASSUME IInv, NEW n \in 0 .. MaxCelo
               PROVE  HeadFirst(books, n) \subseteq DefaultWithdrawals(books, n)
    BY DEF LoopsCovered
  <2>1. TypeOK /\ books \in Books /\ n \in Nat BY BoundsAssumption DEF IInv, TypeOK
  <2> QED BY <2>1, HeadFirstFact
<1> QED BY <1>1, Invariant, PTL

(* What anyone may call while the list is sorted is among what he may call *)
(* at all, so that the fairness of FairSpec asks for steps that exist.     *)
THEOREM SortedStepsAllowed == IInv /\ SortedRebalanceStep => RebalanceStep
<1> SUFFICES ASSUME IInv, SortedRebalanceStep PROVE RebalanceStep OBVIOUS
<1>1. TypeOK /\ books \in Books /\ MaxCelo \in Nat BY BoundsAssumption DEF IInv, TypeOK
<1>2. ASSUME NEW g \in Groups, ReturnUnhealthy(g, HeadFirst(books, toCelo(books.unhealthy[g])))
      PROVE  ReturnUnhealthy(g, DefaultWithdrawals(books, toCelo(books.unhealthy[g])))
  <2>1. books.unhealthy[g] \in Nat BY <1>1 DEF Books
  <2>2. toCelo(books.unhealthy[g]) \in Nat BY <1>1, <2>1, ConversionFact
  <2>3. HeadFirst(books, toCelo(books.unhealthy[g]))
          \subseteq DefaultWithdrawals(books, toCelo(books.unhealthy[g]))
    BY <1>1, <2>2, HeadFirstFact
  <2> QED BY <1>2, <2>3 DEF ReturnUnhealthy
<1>3. ASSUME NEW g \in Groups, NEW k \in 1 .. MaxCelo,
             RebalanceOverflowedGroup(g, k,
               HeadFirst(books, toCelo(OverflowToMove(g, k))))
      PROVE  RebalanceOverflowedGroup(g, k,
               DefaultWithdrawals(books, toCelo(OverflowToMove(g, k))))
  <2>1. books.overflow[g] \in Nat /\ toStakedCelo(k) \in Nat
    BY <1>1, ConversionFact DEF Books
  <2>2. OverflowToMove(g, k) \in Nat BY <2>1 DEF OverflowToMove, MinOf
  <2>3. toCelo(OverflowToMove(g, k)) \in Nat BY <1>1, <2>2, ConversionFact
  <2>4. HeadFirst(books, toCelo(OverflowToMove(g, k)))
          \subseteq DefaultWithdrawals(books, toCelo(OverflowToMove(g, k)))
    BY <1>1, <2>3, HeadFirstFact
  <2> QED BY <1>3, <2>4 DEF RebalanceOverflowedGroup
<1> QED BY <1>2, <1>3 DEF SortedRebalanceStep, RebalanceStep

----------------------------------------------------------------------------
(* Whom a balanced network serves.                                         *)

(* Active groups with stCELO left.                                         *)
NotEmptied(r) == {g \in ActiveGroups : r.default[g] > 0}

(* The loop is not done only as long as each turn emptied a group.         *)
EmptiesInv(b, n, r, k) ==
  /\ LoopInv(b, n, r, k)
  /\ r.left > 0 => Cardinality(NotEmptied(r)) + k <= Cardinality(ActiveGroups)

(* Active groups without stCELO have given all there was.                  *)
LEMMA EmptiedFact ==
  ASSUME TypeOK, AtPar, NEW b \in Books, Apart(b), NEW n \in Nat, n <= Total(b.default),
         NEW k, NEW r, LoopInv(b, n, r, k), NotEmptied(r) = {}
  PROVE  r.left = 0
<1>1. /\ b.default \in [Groups -> Nat] /\ r \in LoopStates /\ Total(r.votes) + r.left = n
      /\ r.default \in [Groups -> Nat] /\ r.votes \in [Groups -> Nat] /\ r.left \in Nat
  BY DEF Books, LoopInv, LoopStates
<1>2. ASSUME NEW g \in Groups PROVE b.default[g] <= r.votes[g]
  <2>1. b.default[g] \in Nat /\ r.default[g] \in Nat /\ r.votes[g] \in Nat BY <1>1
  <2>2. b.default[g] - r.default[g] = r.votes[g] BY DEF LoopInv, Gone
  <2>3. CASE g \in ActiveGroups
    <3>1. r.default[g] = 0 BY <2>1, <2>3 DEF NotEmptied
    <3> QED BY <2>1, <2>2, <3>1
  <2>4. CASE g \notin ActiveGroups
    <3>1. b.default[g] = 0 BY <2>4 DEF Apart
    <3> QED BY <2>1, <3>1
  <2> QED BY <2>3, <2>4
<1>3. Total(b.default) <= Total(r.votes)
  BY <1>1, <1>2, TotalMono, GroupsAssumption
<1>4. Total(b.default) \in Nat /\ Total(r.votes) \in Nat
  BY <1>1, UnitsFinite, GroupsAssumption
<1> QED BY <1>1, <1>3, <1>4

(* Where each active group has the CELO of its stCELO, a turn that does    *)
(* not end the loop empties the head.                                      *)
LEMMA TurnEmpties ==
  ASSUME TypeOK, AtPar, NEW b \in Books, Apart(b), NEW n \in Nat, n <= Total(b.default),
         \A g \in ActiveGroups : b.default[g] <= celo[g],
         NEW k \in Nat, NEW r, EmptiesInv(b, n, r, k), NEW e \in Turns(r)
  PROVE  EmptiesInv(b, n, e, k + 1)
<1>1. LoopInv(b, n, r, k) /\ r \in LoopStates BY DEF EmptiesInv, LoopInv
<1>2. LoopInv(b, n, e, k + 1) BY <1>1, TurnKeeps
<1>3. SUFFICES ASSUME e.left > 0
               PROVE  Cardinality(NotEmptied(e)) + (k + 1) <= Cardinality(ActiveGroups)
  BY <1>2 DEF EmptiesInv
<1>4. /\ r.default \in [Groups -> Nat] /\ r.left \in Nat
      /\ b.default \in [Groups -> Nat] /\ celo \in [Groups -> Nat]
  BY <1>1 DEF LoopStates, Books, TypeOK
<1>5. r.left > 0
  <2>1. r.left = 0 => e = r BY DEF Turns
  <2> QED BY <1>3, <1>4, <2>1
<1>6. PICK h \in Heads(r.default) : e = TurnAt(r, h) BY <1>4, <1>5 DEF Turns
<1>7. h \in ActiveGroups /\ h \in Groups BY <1>6, GroupsAssumption DEF Heads
<1> DEFINE v == TurnVotes(r, h)
           d == r.default[h]
<1>8. /\ v \in Nat /\ d \in Nat /\ v <= r.left
      /\ e = [default |-> [r.default EXCEPT ![h] = @ - toStakedCelo(v)],
              votes |-> [r.votes EXCEPT ![h] = @ + v],
              left |-> r.left - v]
  BY <1>1, <1>4, <1>6, <1>7, TurnFact
<1>9. toCelo(d) = d /\ toStakedCelo(v) = v BY <1>8, ParFact
<1>10. v = d
  <2>1. b.default[h] <= celo[h] BY <1>7
  <2>2. d <= b.default[h] BY <1>1, <1>7 DEF LoopInv
  <2>3. celo[h] \in Nat /\ b.default[h] \in Nat BY <1>4, <1>7
  <2>4. d <= celo[h] BY <1>8, <2>1, <2>2, <2>3
  <2>5. v = MinOf(MinOf(celo[h], d), r.left) BY <1>9 DEF TurnVotes
  <2>6. r.left - v > 0 BY <1>3, <1>8
  <2> HIDE DEF v, d
  <2> QED BY <1>4, <1>8, <2>3, <2>4, <2>5, <2>6 DEF MinOf
<1>11. NotEmptied(e) = NotEmptied(r) \ {h}
  <2>1. e.default = [r.default EXCEPT ![h] = d - v] BY <1>8, <1>9
  <2>2. d - v = 0 BY <1>8, <1>10
  <2>3. e.default = [r.default EXCEPT ![h] = 0] BY <2>1, <2>2
  <2> QED BY <1>4, <1>7, <2>3, GroupsAssumption DEF NotEmptied
<1>12. h \in NotEmptied(r)
  <2>1. NotEmptied(r) # {} BY <1>1, <1>4, <1>5, EmptiedFact
  <2>2. PICK g \in ActiveGroups : r.default[g] > 0 BY <2>1 DEF NotEmptied
  <2>3. r.default[g] <= d BY <1>6, <2>2 DEF Heads
  <2>4. r.default[g] \in Nat BY <1>4, <2>2, GroupsAssumption
  <2>5. d > 0 BY <1>8, <2>2, <2>3, <2>4
  <2> QED BY <1>7, <2>5 DEF NotEmptied
<1>13. IsFiniteSet(NotEmptied(r)) BY ActiveFact, FS_Subset DEF NotEmptied
<1>14. /\ Cardinality(NotEmptied(e)) = Cardinality(NotEmptied(r)) - 1
       /\ Cardinality(NotEmptied(r)) \in Nat
  BY <1>11, <1>12, <1>13, FS_RemoveElement, FS_CardinalityType
<1>15. Cardinality(NotEmptied(r)) + k <= Cardinality(ActiveGroups)
  BY <1>5 DEF EmptiesInv
<1> QED BY <1>14, <1>15, ActiveFact

(* So the loop ends with nothing left.                                     *)
LEMMA LoopServes ==
  ASSUME TypeOK, AtPar, AllInReach, NEW b \in Books, Apart(b),
         NEW n \in Nat, n <= Total(b.default),
         \A g \in ActiveGroups : b.default[g] <= celo[g],
         NEW r \in LoopEnds(b, n)
  PROVE  r.left = 0
<1> DEFINE good == [k \in 0 .. MaxTurns |-> {x \in LoopStates : EmptiesInv(b, n, x, k)}]
<1>1. MaxTurns \in Nat /\ MaxTurns = Cardinality(ActiveGroups) BY ActiveFact
<1>2. LoopStart(b, n) \in good[0]
  <2> DEFINE x == LoopStart(b, n)
  <2>1. LoopInv(b, n, x, 0) BY StartFact
  <2>2. Cardinality(NotEmptied(x)) + 0 <= Cardinality(ActiveGroups)
    <3>1. NotEmptied(x) \subseteq ActiveGroups BY DEF NotEmptied
    <3>2. Cardinality(NotEmptied(x)) <= Cardinality(ActiveGroups)
      BY <3>1, ActiveFact, FS_Subset
    <3>3. Cardinality(NotEmptied(x)) \in Nat
      BY <3>1, ActiveFact, FS_Subset, FS_CardinalityType
    <3> QED BY <3>2, <3>3
  <2> HIDE DEF x
  <2>3. EmptiesInv(b, n, x, 0) /\ x \in LoopStates BY <2>1, <2>2 DEF EmptiesInv, LoopInv
  <2> QED BY <1>1, <2>3 DEF x
<1>3. \A k \in 1 .. MaxTurns : \A x \in good[k - 1] : Turns(x) \subseteq good[k]
  <2> SUFFICES ASSUME NEW k \in 1 .. MaxTurns, NEW x \in good[k - 1], NEW e \in Turns(x)
               PROVE  e \in good[k]
    OBVIOUS
  <2>1. k - 1 \in 0 .. MaxTurns /\ k - 1 \in Nat /\ (k - 1) + 1 = k /\ k \in 0 .. MaxTurns
    BY <1>1
  <2>2. EmptiesInv(b, n, x, k - 1) BY <2>1
  <2>3. EmptiesInv(b, n, e, (k - 1) + 1) BY <2>1, <2>2, TurnEmpties
  <2>4. EmptiesInv(b, n, e, k) BY <2>1, <2>3
  <2> QED BY <2>1, <2>4 DEF EmptiesInv, LoopInv
<1> HIDE DEF good
<1>4. r \in good[MaxTurns] BY <1>1, <1>2, <1>3, LoopKeeps
<1>5. MaxTurns \in 0 .. MaxTurns BY <1>1
<1>6. EmptiesInv(b, n, r, MaxTurns) BY <1>4, <1>5 DEF good
<1>7. LoopInv(b, n, r, MaxTurns) /\ r.left \in Nat BY <1>6 DEF EmptiesInv, LoopInv, LoopStates
<1>8. CASE r.left > 0
  <2>1. Cardinality(NotEmptied(r)) + MaxTurns <= MaxTurns BY <1>1, <1>6, <1>8 DEF EmptiesInv
  <2>2. IsFiniteSet(NotEmptied(r)) BY ActiveFact, FS_Subset DEF NotEmptied
  <2>3. Cardinality(NotEmptied(r)) = 0
    <3>1. Cardinality(NotEmptied(r)) \in Nat BY <2>2, FS_CardinalityType
    <3> QED BY <1>1, <2>1, <3>1
  <2>4. NotEmptied(r) = {} BY <2>2, <2>3, FS_EmptySet
  <2> QED BY <1>7, <2>4, EmptiedFact
<1> QED BY <1>7, <1>8

(* Where CELO is where the stCELO is, every holder can withdraw.           *)
LEMMA ServesFact == ApartInv => BalancedServes
<1> SUFFICES ASSUME ApartInv, AllInReach, Exact, Balanced, NEW a \in Accounts,
                    NEW stCelo \in 1 .. balances[a]
             PROVE  Served(strategies[a], stCelo)
  BY DEF BalancedServes
<1> DEFINE s == strategies[a]
           n == FromDefault(books, s, toCelo(stCelo))
<1>1. /\ TypeOK /\ books \in Books /\ s \in Strategy /\ AtPar
      /\ books.total \in [Groups -> Nat] /\ books.default \in [Groups -> Nat]
      /\ celo \in [Groups -> Nat] /\ Right(books, ChoicesBy(strategies, balances))
      /\ Apart(books)
  BY StateFact DEF ApartInv, IInv, TypeOK, Books, Exact
<1>2. balances[a] \in Nat /\ stCelo \in Nat /\ 0 < stCelo /\ stCelo <= balances[a]
  BY <1>1 DEF TypeOK
<1>3. \A k \in Nat : toCelo(k) = k /\ toStakedCelo(k) = k BY <1>1, ParFact
<1>4. Chosen(s) \in Nat /\ stCelo <= Chosen(s)
  <2>1. Chosen(s) = ChoicesBy(strategies, balances)[s] BY <1>1, ChosenFact
  <2>2. Chosen(s) \in Nat /\ balances[a] <= Chosen(s) BY <1>1, <2>1, StateFact
  <2> HIDE DEF s
  <2> QED BY <1>2, <2>2
<1>5. s # Default => s \in Groups /\ stCelo <= books.total[s]
  <2>1. s # Default => books.total[s] = Chosen(s)
    BY <1>1, ChosenFact DEF Right, Strategy
  <2> HIDE DEF s
  <2> QED BY <1>1, <1>4, <2>1 DEF Strategy
<1>6. /\ \A g \in Groups : Lent(books, g) \in Nat /\ Lent(books, g) <= Total(LentBy(books))
      /\ Total(LentBy(books)) \in Nat /\ Total(books.default) \in Nat
      /\ Total(books.default) = Chosen(Default) + Total(LentBy(books))
  BY <1>1, LentFact DEF Exact, LentBy
<1>7. Chosen(Default) \in Nat
  <2>1. Default \in Strategy BY DEF Strategy
  <2> QED BY <1>1, <2>1, ChosenFact, StateFact
<1>8. /\ n = IF s = Default THEN stCelo ELSE MinOf(stCelo, Lent(books, s))
      /\ n \in Nat /\ n <= Total(books.default) /\ n <= stCelo
  <2> HIDE DEF s
  <2>1. n = IF s = Default THEN stCelo ELSE MinOf(stCelo, Lent(books, s))
    BY <1>2, <1>3, <1>5, <1>6 DEF FromDefault
  <2>2. CASE s = Default BY <1>2, <1>4, <1>6, <2>1, <2>2
  <2>3. CASE s # Default BY <1>2, <1>5, <1>6, <1>7, <2>1, <2>3 DEF MinOf
  <2> QED BY <2>1, <2>2, <2>3
<1> HIDE DEF n
(* What a group has of its own, and what it votes for others with.         *)
<1> DEFINE own(g) == IF g \in blockedGroups THEN 0
                     ELSE Monus(books.total[g], Lent(books, g))
<1>9. \A g \in Groups :
        /\ own(g) \in Nat /\ books.default[g] \in Nat
        /\ celo[g] = own(g) + books.default[g]
  <2> SUFFICES ASSUME NEW g \in Groups
               PROVE  /\ own(g) \in Nat /\ books.default[g] \in Nat
                      /\ celo[g] = own(g) + books.default[g]
    OBVIOUS
  <2> DEFINE more == IF g \in ActiveGroups THEN books.default[g] ELSE 0
  <2>1. books.total[g] \in Nat /\ Lent(books, g) \in Nat /\ books.default[g] \in Nat
    BY <1>1, <1>6
  <2>2. own(g) \in Nat /\ more = books.default[g] BY <1>1, <2>1 DEF Monus, Apart
  <2>3. celo[g] = toCelo(own(g) + more) BY DEF Balanced, ExpectedCelo
  <2> HIDE DEF own, more
  <2>4. own(g) + more \in Nat BY <2>1, <2>2
  <2> QED BY <1>3, <2>1, <2>2, <2>3, <2>4
<1> HIDE DEF own
<1>10. ASSUME NEW r \in LoopEnds(books, n)
       PROVE  r.left = 0
  <2>1. \A g \in ActiveGroups : books.default[g] <= celo[g]
    BY <1>9, GroupsAssumption
  <2> QED BY <1>1, <1>8, <2>1, LoopServes
<1>11. ASSUME NEW r \in LoopEnds(books, n), NEW g \in Groups
       PROVE  WithdrawalVotes(books, s, stCelo, r)[g] <= celo[g]
  <2>1. LoopInv(books, n, r, MaxTurns) BY <1>1, <1>8, LoopEndsFact
  <2>2. r.votes \in [Groups -> Nat] /\ r.default \in [Groups -> Nat]
    BY <2>1 DEF LoopInv, LoopStates
  <2>3. /\ r.votes[g] \in Nat /\ r.default[g] \in Nat
        /\ own(g) \in Nat /\ books.default[g] \in Nat /\ celo[g] = own(g) + books.default[g]
    BY <1>9, <2>2
  <2>4. r.votes[g] <= books.default[g]
    <3>1. books.default[g] - r.default[g] = r.votes[g] BY <1>1, <2>1 DEF LoopInv, Gone
    <3> QED BY <2>3, <3>1
  <2>5. WithdrawalVotes(books, s, stCelo, r)[g]
          = IF s # Default /\ g = s THEN r.votes[g] + stCelo - n ELSE r.votes[g]
    <3> HIDE DEF s
    <3> QED BY <1>2, <1>3, <2>2 DEF WithdrawalVotes, n
  <2>6. CASE s = Default \/ g # s BY <2>3, <2>4, <2>5, <2>6
  <2>7. CASE s # Default /\ g = s
    <3> HIDE DEF s
    <3>1. n = MinOf(stCelo, Lent(books, g)) BY <1>8, <2>7
    <3>2. Lent(books, g) = IF Eligible(g) THEN 0 ELSE books.total[g] BY DEF Balanced
    <3>3. books.total[g] \in Nat /\ stCelo <= books.total[g] BY <1>1, <1>5, <2>7
    <3>4. CASE ~Eligible(g)
      <4>1. n = stCelo BY <1>2, <3>1, <3>2, <3>3, <3>4 DEF MinOf
      <4> QED BY <1>2, <2>3, <2>4, <2>5, <2>7, <4>1
    <3>5. CASE Eligible(g)
      <4>1. n = 0 BY <1>2, <3>1, <3>2, <3>5 DEF MinOf
      <4>2. own(g) = books.total[g] BY <3>2, <3>3, <3>5 DEF Eligible, Monus, own
      <4> QED BY <1>2, <2>3, <2>4, <2>5, <2>7, <3>3, <4>1, <4>2
    <3> QED BY <3>4, <3>5
  <2> QED BY <2>6, <2>7
<1>12. Served(s, stCelo)
  <2> HIDE DEF s
  <2> QED BY <1>5, <1>10, <1>11 DEF Served, n
<1> QED BY <1>12

(* Changing strategy moves no CELO, but once the CELO is where the stCELO  *)
(* is, and no rounding has left the books out of step, every holder can    *)
(* withdraw any part of what he has, whatever he and the others chose and  *)
(* however the groups fared: while its list is sorted and no limit keeps   *)
(* it from any group, the loop of DefaultStrategy finds all that it is     *)
(* asked for, in whatever order it meets groups with as much stCELO, and   *)
(* asks no group for more than it has.                                     *)
THEOREM AlwaysServes == Spec => []BalancedServes
BY AlwaysApart, ServesFact, PTL
=============================================================================
