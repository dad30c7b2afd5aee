------------------------- MODULE SortedGroupsProofs -------------------------
(***************************************************************************)
(* What the operators of SortedGroups do to a list: inserting and removing *)
(* keep it ascending and change its keys by one, and there is always a     *)
(* hint with which a key can be inserted.  DefaultStrategyProofs rests on  *)
(* these facts; the variable storage plays no part there.                  *)
(*                                                                         *)
(* Then the pointers of LinkedGroups: they are always those of such a list *)
(* (StorageOf), so every operation on them is one on the list.             *)
(***************************************************************************)
EXTENDS LinkedGroups, AmountsProofs, SequenceTheorems

USE NoneAssumption

(* The lists there may be, in order or not.                                *)
Lists == [keys : Seq(Groups), values : [Groups -> Nat]]

(* A list as the contracts keep it.                                        *)
Good(l) == l \in Lists /\ Ordered(l)

(* The place of a key is unique.                                           *)
LEMMA PositionFact ==
  ASSUME NEW l, Good(l)
  PROVE  /\ \A g \in Keys(l) : Position(l, g) \in DOMAIN l.keys /\ l.keys[Position(l, g)] = g
         /\ \A i \in DOMAIN l.keys : Position(l, l.keys[i]) = i
<1>1. l.keys \in Seq(Groups) BY DEF Good, Lists
<1>2. \A g \in Keys(l) : Position(l, g) \in DOMAIN l.keys /\ l.keys[Position(l, g)] = g
  BY DEF Keys, Position
<1>3. ASSUME NEW i \in DOMAIN l.keys PROVE Position(l, l.keys[i]) = i
  <2> DEFINE p == Position(l, l.keys[i])
  <2>1. l.keys[i] \in Keys(l) BY DEF Keys
  <2>2. p \in DOMAIN l.keys /\ l.keys[p] = l.keys[i] BY <1>2, <2>1
  <2> HIDE DEF p
  <2>3. i \in Nat /\ p \in Nat BY <1>1, <2>2
  <2>4. ~(i < p) /\ ~(p < i) BY <2>2 DEF Good, Ordered
  <2>5. p = i BY <2>3, <2>4
  <2> QED BY <2>5 DEF p
<1> QED BY <1>2, <1>3

(* Dropping one element of a sequence.                                     *)
LEMMA DropFact ==
  ASSUME NEW S, NEW s \in Seq(S), NEW i \in 1 .. Len(s)
  PROVE  /\ DropAt(s, i) \in Seq(S)
         /\ Len(DropAt(s, i)) = Len(s) - 1
         /\ \A j \in 1 .. Len(s) - 1 : DropAt(s, i)[j] = IF j < i THEN s[j] ELSE s[j + 1]
<1> DEFINE a == SubSeq(s, 1, i - 1)
           b == SubSeq(s, i + 1, Len(s))
<1>0. Len(s) \in Nat OBVIOUS
<1>1. /\ a \in Seq(S) /\ Len(a) = i - 1 /\ \A j \in 1 .. i - 1 : a[j] = s[j]
  OBVIOUS
<1>2. /\ b \in Seq(S) /\ Len(b) = Len(s) - i /\ \A j \in 1 .. Len(s) - i : b[j] = s[j + i]
  OBVIOUS
<1>3. DropAt(s, i) = a \o b BY DEF DropAt
<1> HIDE DEF a, b
<1>4. /\ a \o b \in Seq(S) /\ Len(a \o b) = Len(a) + Len(b)
      /\ \A j \in 1 .. Len(a) + Len(b) : (a \o b)[j] = IF j <= Len(a) THEN a[j] ELSE b[j - Len(a)]
  BY <1>1, <1>2, ConcatProperties, Zenon
<1>5. Len(a) = i - 1 /\ Len(b) = Len(s) - i /\ Len(a) + Len(b) = Len(s) - 1
  BY <1>0, <1>1, <1>2
<1>6. ASSUME NEW j \in 1 .. Len(s) - 1
      PROVE  (a \o b)[j] = IF j < i THEN s[j] ELSE s[j + 1]
  <2>1. CASE j < i
    <3>1. j \in 1 .. Len(a) + Len(b) /\ j <= Len(a) /\ j \in 1 .. i - 1
      BY <1>0, <1>5, <2>1
    <3> QED BY <1>1, <1>4, <2>1, <3>1
  <2>2. CASE ~(j < i)
    <3>1. /\ j \in 1 .. Len(a) + Len(b) /\ ~(j <= Len(a)) /\ j - Len(a) \in 1 .. Len(s) - i
          /\ j - Len(a) + i = j + 1
      BY <1>0, <1>5, <2>2
    <3>2. (a \o b)[j] = b[j - Len(a)] BY <1>4, <3>1
    <3>3. b[j - Len(a)] = s[j - Len(a) + i] BY <1>2, <3>1
    <3> QED BY <2>2, <3>1, <3>2, <3>3
  <2> QED BY <2>1, <2>2
<1> QED BY <1>3, <1>4, <1>5, <1>6

(* Inserting one element after place i.                                    *)
LEMMA InsertAfterFact ==
  ASSUME NEW s \in Seq(Groups), NEW i \in 0 .. Len(s), NEW g \in Groups
  PROVE  /\ InsertAfter(s, i, g) \in Seq(Groups)
         /\ Len(InsertAfter(s, i, g)) = Len(s) + 1
         /\ InsertAfter(s, i, g)[i + 1] = g
         /\ \A j \in 1 .. i : InsertAfter(s, i, g)[j] = s[j]
         /\ \A j \in (i + 2) .. (Len(s) + 1) : InsertAfter(s, i, g)[j] = s[j - 1]
<1> DEFINE a == SubSeq(s, 1, i)
           b == SubSeq(s, i + 1, Len(s))
           c == a \o <<g>>
<1>0. Len(s) \in Nat OBVIOUS
<1>1. /\ a \in Seq(Groups) /\ Len(a) = i /\ \A j \in 1 .. i : a[j] = s[j]
  OBVIOUS
<1>2. /\ b \in Seq(Groups) /\ Len(b) = Len(s) - i /\ \A j \in 1 .. Len(s) - i : b[j] = s[j + i]
  OBVIOUS
<1>3. InsertAfter(s, i, g) = c \o b BY DEF InsertAfter
<1> HIDE DEF a, b
<1>4. /\ c \in Seq(Groups) /\ Len(c) = i + 1 /\ c[i + 1] = g /\ \A j \in 1 .. i : c[j] = s[j]
  BY <1>1
<1> HIDE DEF c
<1>5. /\ c \o b \in Seq(Groups) /\ Len(c \o b) = Len(c) + Len(b)
      /\ \A j \in 1 .. Len(c) + Len(b) : (c \o b)[j] = IF j <= Len(c) THEN c[j] ELSE b[j - Len(c)]
  BY <1>2, <1>4, ConcatProperties, Zenon
<1>6. Len(c) = i + 1 /\ Len(b) = Len(s) - i /\ Len(c) + Len(b) = Len(s) + 1
  BY <1>0, <1>2, <1>4
<1>7. (c \o b)[i + 1] = g
  <2>1. i + 1 \in 1 .. Len(c) + Len(b) /\ i + 1 <= Len(c) BY <1>0, <1>6
  <2> QED BY <1>4, <1>5, <2>1
<1>8. ASSUME NEW j \in 1 .. i PROVE (c \o b)[j] = s[j]
  <2>1. j \in 1 .. Len(c) + Len(b) /\ j <= Len(c) BY <1>0, <1>6
  <2> QED BY <1>4, <1>5, <2>1
<1>9. ASSUME NEW j \in (i + 2) .. (Len(s) + 1) PROVE (c \o b)[j] = s[j - 1]
  <2>1. /\ j \in 1 .. Len(c) + Len(b) /\ ~(j <= Len(c)) /\ j - Len(c) \in 1 .. Len(s) - i
        /\ j - Len(c) + i = j - 1
    BY <1>0, <1>6
  <2>2. (c \o b)[j] = b[j - Len(c)] BY <1>5, <2>1
  <2>3. b[j - Len(c)] = s[j - Len(c) + i] BY <1>2, <2>1
  <2> QED BY <2>1, <2>2, <2>3
<1> QED BY <1>3, <1>5, <1>6, <1>7, <1>8, <1>9

----------------------------------------------------------------------------
(* Removing a key leaves the others, in order.                             *)
LEMMA RemoveFact ==
  ASSUME NEW l, Good(l), NEW g \in Keys(l)
  PROVE  /\ Good(Remove(l, g))
         /\ Keys(Remove(l, g)) = Keys(l) \ {g}
         /\ Len(Remove(l, g).keys) = Len(l.keys) - 1
         /\ \A h \in Groups : h # g => Remove(l, g).values[h] = l.values[h]
<1> DEFINE p == Position(l, g)
           n == Len(l.keys)
           r == Remove(l, g)
<1>1. /\ l.keys \in Seq(Groups) /\ l.values \in [Groups -> Nat] /\ n \in Nat
      /\ DOMAIN l.keys = 1 .. n
  BY DEF Good, Lists
<1>2. p \in 1 .. n /\ l.keys[p] = g BY <1>1, PositionFact
<1>3. g \in Groups BY <1>1, <1>2
<1>k. r.keys = DropAt(l.keys, p) BY DEF Remove
<1>v. r.values = [l.values EXCEPT ![g] = 0] BY DEF Remove
<1>4. r = [keys |-> r.keys, values |-> r.values] BY DEF Remove
<1> HIDE DEF p, r
<1>d. /\ DropAt(l.keys, p) \in Seq(Groups) /\ Len(DropAt(l.keys, p)) = Len(l.keys) - 1
      /\ \A j \in 1 .. Len(l.keys) - 1 :
           DropAt(l.keys, p)[j] = IF j < p THEN l.keys[j] ELSE l.keys[j + 1]
  BY <1>1, <1>2, DropFact
<1> HIDE DEF n
<1>5. /\ r.keys \in Seq(Groups) /\ Len(r.keys) = n - 1
      /\ \A j \in 1 .. n - 1 : r.keys[j] = IF j < p THEN l.keys[j] ELSE l.keys[j + 1]
  BY <1>d, <1>k, Zenon DEF n
<1>6. DOMAIN r.keys = 1 .. n - 1 BY <1>5
<1>7. r.values \in [Groups -> Nat] /\ \A h \in Groups : h # g => r.values[h] = l.values[h]
  BY <1>1, <1>3, <1>v
<1>8. r \in Lists BY <1>4, <1>5, <1>7 DEF Lists
<1>9. \A j \in 1 .. n : j # p => l.keys[j] # g
  BY <1>1, <1>2 DEF Good, Ordered
<1> DEFINE Old(j) == IF j < p THEN j ELSE j + 1
<1>10. \A j \in 1 .. n - 1 : /\ Old(j) \in 1 .. n /\ Old(j) # p
                            /\ r.keys[j] = l.keys[Old(j)] /\ r.keys[j] # g
  <2> SUFFICES ASSUME NEW j \in 1 .. n - 1
               PROVE  /\ Old(j) \in 1 .. n /\ Old(j) # p
                      /\ r.keys[j] = l.keys[Old(j)] /\ r.keys[j] # g
    OBVIOUS
  <2>1. Old(j) \in 1 .. n /\ Old(j) # p BY <1>1, <1>2
  <2>2. r.keys[j] = l.keys[Old(j)] BY <1>5
  <2> QED BY <1>9, <2>1, <2>2
<1>11. \A i, j \in 1 .. n - 1 : i < j => Old(i) < Old(j)
  BY <1>1, <1>2
<1>12. \A j \in 1 .. n : j # p => \E i \in 1 .. n - 1 : Old(i) = j
  <2> SUFFICES ASSUME NEW j \in 1 .. n, j # p PROVE \E i \in 1 .. n - 1 : Old(i) = j
    OBVIOUS
  <2>1. CASE j < p
    <3>1. j \in 1 .. n - 1 /\ Old(j) = j BY <1>1, <1>2, <2>1
    <3> QED BY <3>1
  <2>2. CASE j > p
    <3>1. j - 1 \in 1 .. n - 1 /\ Old(j - 1) = j BY <1>1, <1>2, <2>2
    <3> QED BY <3>1
  <2> QED BY <1>1, <1>2, <2>1, <2>2
<1> HIDE DEF Old
<1>13. Ordered(r)
  <2> SUFFICES ASSUME NEW i \in 1 .. n - 1, NEW j \in 1 .. n - 1, i < j
               PROVE  r.keys[i] # r.keys[j] /\ r.values[r.keys[i]] <= r.values[r.keys[j]]
    BY <1>6 DEF Ordered
  <2>1. /\ Old(i) \in DOMAIN l.keys /\ Old(j) \in DOMAIN l.keys /\ Old(i) < Old(j)
        /\ r.keys[i] = l.keys[Old(i)] /\ r.keys[j] = l.keys[Old(j)]
    BY <1>1, <1>10, <1>11
  <2>2. /\ l.keys[Old(i)] # l.keys[Old(j)]
        /\ l.values[l.keys[Old(i)]] <= l.values[l.keys[Old(j)]]
    BY <2>1 DEF Good, Ordered
  <2>3. /\ r.keys[i] \in Groups /\ r.keys[j] \in Groups /\ r.keys[i] # g /\ r.keys[j] # g
    BY <1>5, <1>10
  <2>4. r.values[r.keys[i]] = l.values[r.keys[i]] /\ r.values[r.keys[j]] = l.values[r.keys[j]]
    BY <1>7, <2>3
  <2> QED BY <2>1, <2>2, <2>4
<1>14. Keys(r) = Keys(l) \ {g}
  <2>1. ASSUME NEW j \in 1 .. n - 1 PROVE r.keys[j] \in Keys(l) \ {g}
    BY <1>1, <1>10 DEF Keys
  <2>2. ASSUME NEW j \in 1 .. n, l.keys[j] # g PROVE l.keys[j] \in Keys(r)
    <3>1. j # p BY <1>2, <2>2
    <3>2. PICK i \in 1 .. n - 1 : Old(i) = j BY <1>12, <3>1
    <3>3. r.keys[i] = l.keys[j] /\ i \in DOMAIN r.keys BY <1>6, <1>10, <3>2
    <3> QED BY <3>3 DEF Keys
  <2> QED BY <1>1, <1>6, <2>1, <2>2 DEF Keys
<1> QED BY <1>5, <1>7, <1>8, <1>13, <1>14 DEF Good, r, n

(* A list with g put behind its first i keys.                              *)
Put(l, g, value, i) ==
  [keys |-> InsertAfter(l.keys, i, g), values |-> [l.values EXCEPT ![g] = value]]

(* A key inserted after place i, between values that are not greater and   *)
(* not less, leaves the list ascending.                                    *)
LEMMA PutFact ==
  ASSUME NEW l, Good(l), NEW g \in Groups \ Keys(l), NEW value \in Nat,
         NEW i \in 0 .. Len(l.keys),
         i > 0 => l.values[l.keys[i]] <= value,
         i < Len(l.keys) => l.values[l.keys[i + 1]] >= value
  PROVE  /\ Good(Put(l, g, value, i))
         /\ Keys(Put(l, g, value, i)) = Keys(l) \cup {g}
         /\ Put(l, g, value, i).values[g] = value
         /\ \A h \in Groups : h # g => Put(l, g, value, i).values[h] = l.values[h]
<1> DEFINE r == Put(l, g, value, i)
           n == Len(l.keys)
           Old(j) == IF j <= i THEN j ELSE j - 1
<1>1. /\ l.keys \in Seq(Groups) /\ l.values \in [Groups -> Nat] /\ n \in Nat
      /\ DOMAIN l.keys = 1 .. n
  BY DEF Good, Lists
<1>k. r.keys = InsertAfter(l.keys, i, g) BY DEF Put
<1>v. r.values = [l.values EXCEPT ![g] = value] BY DEF Put
<1>2. r = [keys |-> r.keys, values |-> r.values] BY DEF Put
<1> HIDE DEF r
<1>0. i \in 0 .. n OBVIOUS
<1>d. /\ InsertAfter(l.keys, i, g) \in Seq(Groups)
      /\ Len(InsertAfter(l.keys, i, g)) = n + 1
      /\ InsertAfter(l.keys, i, g)[i + 1] = g
      /\ \A j \in 1 .. i : InsertAfter(l.keys, i, g)[j] = l.keys[j]
      /\ \A j \in (i + 2) .. (n + 1) : InsertAfter(l.keys, i, g)[j] = l.keys[j - 1]
  BY <1>0, <1>1, InsertAfterFact
<1>3. /\ r.keys \in Seq(Groups) /\ Len(r.keys) = n + 1
      /\ r.keys[i + 1] = g
      /\ \A j \in 1 .. i : r.keys[j] = l.keys[j]
      /\ \A j \in (i + 2) .. (n + 1) : r.keys[j] = l.keys[j - 1]
  BY <1>d, <1>k, Zenon
<1>4. DOMAIN r.keys = 1 .. n + 1 BY <1>3
<1>5. /\ r.values \in [Groups -> Nat] /\ r.values[g] = value
      /\ \A h \in Groups : h # g => r.values[h] = l.values[h]
  BY <1>1, <1>v
<1>6. r \in Lists BY <1>2, <1>3, <1>5 DEF Lists
<1> HIDE DEF n
<1>7. \A m \in 1 .. n + 1 : m # i + 1 =>
        /\ Old(m) \in 1 .. n
        /\ r.keys[m] = l.keys[Old(m)]
        /\ r.keys[m] \in Groups /\ r.keys[m] # g
        /\ r.values[r.keys[m]] = l.values[l.keys[Old(m)]]
  <2> SUFFICES ASSUME NEW j \in 1 .. n + 1, j # i + 1
               PROVE  /\ Old(j) \in 1 .. n
                      /\ r.keys[j] = l.keys[Old(j)]
                      /\ r.keys[j] \in Groups /\ r.keys[j] # g
                      /\ r.values[r.keys[j]] = l.values[l.keys[Old(j)]]
    OBVIOUS
  <2>1. Old(j) \in 1 .. n BY <1>0, <1>1
  <2>2. r.keys[j] = l.keys[Old(j)]
    <3>1. CASE j <= i
      <4>1. j \in 1 .. i BY <1>0, <1>1, <3>1
      <4> QED BY <1>3, <3>1, <4>1
    <3>2. CASE ~(j <= i)
      <4>1. j \in (i + 2) .. (n + 1) BY <1>0, <1>1, <3>2
      <4> QED BY <1>3, <3>2, <4>1
    <3> QED BY <3>1, <3>2
  <2> HIDE DEF Old
  <2>3. l.keys[Old(j)] \in Keys(l) /\ l.keys[Old(j)] \in Groups BY <1>1, <2>1 DEF Keys
  <2> QED BY <1>5, <2>1, <2>2, <2>3
<1>8. r.keys[i + 1] = g /\ i + 1 \in 1 .. n + 1 BY <1>0, <1>1, <1>3
<1>9. \A j, k \in 1 .. n + 1 : j < k /\ j # i + 1 /\ k # i + 1 => Old(j) < Old(k)
  BY <1>0, <1>1
<1>10. \A m \in 1 .. n + 1 : /\ m < i + 1 => Old(m) <= i
                            /\ m > i + 1 => Old(m) >= i + 1
  BY <1>0, <1>1
<1>11. \A j \in 1 .. n : j = Old(IF j <= i THEN j ELSE j + 1)
                         /\ (IF j <= i THEN j ELSE j + 1) \in 1 .. n + 1
                         /\ (IF j <= i THEN j ELSE j + 1) # i + 1
  BY <1>0, <1>1
<1> HIDE DEF Old
<1>12. \A j, k \in 1 .. n : j <= k => l.values[l.keys[j]] <= l.values[l.keys[k]]
  <2> SUFFICES ASSUME NEW j \in 1 .. n, NEW k \in 1 .. n, j <= k
               PROVE  l.values[l.keys[j]] <= l.values[l.keys[k]]
    OBVIOUS
  <2>1. CASE j < k BY <1>1, <2>1 DEF Good, Ordered
  <2>2. CASE j = k
    <3>1. l.keys[j] \in Groups BY <1>1
    <3>2. l.values[l.keys[j]] \in Nat BY <1>1, <3>1
    <3> QED BY <2>2, <3>2
  <2> QED BY <1>1, <2>1, <2>2
<1>13. \A j \in 1 .. n : /\ j <= i => l.values[l.keys[j]] <= value
                         /\ j >= i + 1 => l.values[l.keys[j]] >= value
  <2> SUFFICES ASSUME NEW j \in 1 .. n
               PROVE  /\ j <= i => l.values[l.keys[j]] <= value
                      /\ j >= i + 1 => l.values[l.keys[j]] >= value
    OBVIOUS
  <2>1. l.keys[j] \in Groups BY <1>1
  <2>2. l.values[l.keys[j]] \in Nat BY <1>1, <2>1
  <2>3. ASSUME j <= i PROVE l.values[l.keys[j]] <= value
    <3>1. i \in 1 .. n /\ i > 0 BY <1>0, <1>1, <2>3
    <3>2. l.values[l.keys[j]] <= l.values[l.keys[i]] BY <1>12, <2>3, <3>1
    <3>3. l.values[l.keys[i]] <= value BY <3>1
    <3>4. l.values[l.keys[i]] \in Nat BY <1>1, <3>1
    <3> QED BY <2>2, <3>2, <3>3, <3>4
  <2>4. ASSUME j >= i + 1 PROVE l.values[l.keys[j]] >= value
    <3>1. i + 1 \in 1 .. n /\ i < n BY <1>0, <1>1, <2>4
    <3>2. l.values[l.keys[i + 1]] <= l.values[l.keys[j]] BY <1>12, <2>4, <3>1
    <3>3. l.values[l.keys[i + 1]] >= value BY <3>1 DEF n
    <3>4. l.values[l.keys[i + 1]] \in Nat BY <1>1, <3>1
    <3> QED BY <2>2, <3>2, <3>3, <3>4
  <2> QED BY <2>3, <2>4
<1>14. Ordered(r)
  <2> SUFFICES ASSUME NEW j \in 1 .. n + 1, NEW k \in 1 .. n + 1, j < k
               PROVE  r.keys[j] # r.keys[k] /\ r.values[r.keys[j]] <= r.values[r.keys[k]]
    BY <1>4 DEF Ordered
  <2>1. CASE j # i + 1 /\ k # i + 1
    <3>1. /\ Old(j) \in DOMAIN l.keys /\ Old(k) \in DOMAIN l.keys /\ Old(j) < Old(k)
          /\ r.keys[j] = l.keys[Old(j)] /\ r.keys[k] = l.keys[Old(k)]
          /\ r.values[r.keys[j]] = l.values[l.keys[Old(j)]]
          /\ r.values[r.keys[k]] = l.values[l.keys[Old(k)]]
      BY <1>1, <1>7, <1>9, <2>1
    <3>2. /\ l.keys[Old(j)] # l.keys[Old(k)]
          /\ l.values[l.keys[Old(j)]] <= l.values[l.keys[Old(k)]]
      BY <3>1 DEF Good, Ordered
    <3> QED BY <3>1, <3>2
  <2>2. CASE j = i + 1
    <3>1. k # i + 1 /\ k > i + 1 BY <1>0, <1>1, <2>2
    <3>2. Old(k) \in 1 .. n /\ Old(k) >= i + 1 BY <1>7, <1>10, <3>1
    <3>3. /\ r.keys[k] # g /\ r.values[r.keys[k]] = l.values[l.keys[Old(k)]]
      BY <1>7, <3>1
    <3>4. l.values[l.keys[Old(k)]] >= value BY <1>13, <3>2
    <3>5. r.values[r.keys[j]] = value /\ r.keys[j] = g BY <1>5, <1>8, <2>2
    <3> QED BY <3>3, <3>4, <3>5
  <2>3. CASE k = i + 1
    <3>1. j # i + 1 /\ j < i + 1 BY <1>0, <1>1, <2>3
    <3>a. Old(j) \in 1 .. n BY <1>7, <3>1
    <3>b. Old(j) <= i BY <1>0, <1>1, <3>1 DEF Old
    <3>2. Old(j) \in 1 .. n /\ Old(j) <= i BY <3>a, <3>b
    <3>3. /\ r.keys[j] # g /\ r.values[r.keys[j]] = l.values[l.keys[Old(j)]]
      BY <1>7, <3>1
    <3>4. l.values[l.keys[Old(j)]] <= value BY <1>13, <3>2
    <3>5. r.values[r.keys[k]] = value /\ r.keys[k] = g BY <1>5, <1>8, <2>3
    <3> QED BY <3>3, <3>4, <3>5
  <2> QED BY <2>1, <2>2, <2>3
<1>15. Keys(r) = Keys(l) \cup {g}
  <2>1. ASSUME NEW j \in 1 .. n + 1 PROVE r.keys[j] \in Keys(l) \cup {g}
    <3>1. CASE j = i + 1 BY <1>8, <3>1
    <3>2. CASE j # i + 1 BY <1>1, <1>7, <3>2 DEF Keys
    <3> QED BY <3>1, <3>2
  <2>2. g \in Keys(r) BY <1>4, <1>8 DEF Keys
  <2>3. ASSUME NEW j \in 1 .. n PROVE l.keys[j] \in Keys(r)
    <3>1. PICK k \in 1 .. n + 1 : k # i + 1 /\ Old(k) = j BY <1>11
    <3>2. r.keys[k] = l.keys[j] BY <1>7, <3>1
    <3> QED BY <1>4, <3>2 DEF Keys
  <2> QED BY <1>1, <1>4, <2>1, <2>2, <2>3 DEF Keys
<1> QED BY <1>5, <1>6, <1>14, <1>15 DEF Good, r

----------------------------------------------------------------------------
(* The keys at the places of a list, and none beside them.                 *)
LEMMA KeyAtFact ==
  ASSUME NEW l, Good(l)
  PROVE  /\ Len(l.keys) \in Nat /\ DOMAIN l.keys = 1 .. Len(l.keys)
         /\ KeyAt(l, 0) = None /\ KeyAt(l, Len(l.keys) + 1) = None
         /\ \A i \in 1 .. Len(l.keys) : /\ KeyAt(l, i) = l.keys[i]
                                       /\ KeyAt(l, i) \in Keys(l)
                                       /\ KeyAt(l, i) \in Groups /\ KeyAt(l, i) # None
         /\ Keys(l) \subseteq Groups
<1>1. l.keys \in Seq(Groups) BY DEF Good, Lists
<1>2. Len(l.keys) \in Nat /\ DOMAIN l.keys = 1 .. Len(l.keys) BY <1>1
<1>3. KeyAt(l, 0) = None /\ KeyAt(l, Len(l.keys) + 1) = None BY <1>2 DEF KeyAt
<1>4. \A i \in 1 .. Len(l.keys) : KeyAt(l, i) = l.keys[i] /\ l.keys[i] \in Groups
  BY <1>1, <1>2 DEF KeyAt
<1>5. Keys(l) \subseteq Groups /\ \A i \in 1 .. Len(l.keys) : l.keys[i] \in Keys(l)
  BY <1>1, <1>2 DEF Keys
<1> QED BY <1>2, <1>3, <1>4, <1>5

(* A gap the value fits in lies between two neighbouring places.           *)
LEMMA GapFact ==
  ASSUME NEW l, Good(l), NEW value \in Nat,
         NEW lesser \in Keys(l) \cup {None}, NEW greater \in Keys(l) \cup {None},
         GapFor(l, value, lesser, greater) # NoGap
  PROVE  \E i \in 0 .. Len(l.keys) :
           /\ GapFor(l, value, lesser, greater) = <<KeyAt(l, i), KeyAt(l, i + 1)>>
           /\ ValueBetween(l, value, <<KeyAt(l, i), KeyAt(l, i + 1)>>)
<1> DEFINE n == Len(l.keys)
           gap == GapFor(l, value, lesser, greater)
           atTail == <<None, TailOf(l)>>
           atHead == <<HeadOf(l), None>>
           above == <<lesser, NextOf(l, lesser)>>
           below == <<PreviousOf(l, greater), greater>>
<1>1. n \in Nat BY KeyAtFact
<1>2. \/ gap = atTail /\ ValueBetween(l, value, atTail)
      \/ gap = atHead /\ ValueBetween(l, value, atHead)
      \/ lesser # None /\ gap = above /\ ValueBetween(l, value, above)
      \/ greater # None /\ gap = below /\ ValueBetween(l, value, below)
  BY Zenon DEF GapFor
<1>3. atTail = <<KeyAt(l, 0), KeyAt(l, 0 + 1)>> BY KeyAtFact DEF TailOf
<1>4. atHead = <<KeyAt(l, n), KeyAt(l, n + 1)>> BY KeyAtFact DEF HeadOf
<1>5. ASSUME lesser # None
      PROVE  \E i \in 0 .. n : above = <<KeyAt(l, i), KeyAt(l, i + 1)>>
  <2> DEFINE p == Position(l, lesser)
  <2>1. lesser \in Keys(l) BY <1>5
  <2>2. p \in 1 .. n /\ l.keys[p] = lesser BY <2>1, PositionFact, KeyAtFact
  <2>3. KeyAt(l, p) = lesser BY <2>2, KeyAtFact
  <2>4. NextOf(l, lesser) = KeyAt(l, p + 1) BY <2>1 DEF NextOf
  <2>5. p \in 0 .. n BY <1>1, <2>2
  <2> QED BY <2>3, <2>4, <2>5
<1>6. ASSUME greater # None
      PROVE  \E i \in 0 .. n : below = <<KeyAt(l, i), KeyAt(l, i + 1)>>
  <2> DEFINE p == Position(l, greater)
  <2>1. greater \in Keys(l) BY <1>6
  <2>2. p \in 1 .. n /\ l.keys[p] = greater BY <2>1, PositionFact, KeyAtFact
  <2>3. KeyAt(l, p) = greater BY <2>2, KeyAtFact
  <2>4. PreviousOf(l, greater) = KeyAt(l, p - 1) BY <2>1 DEF PreviousOf
  <2>5. p - 1 \in 0 .. n /\ (p - 1) + 1 = p BY <1>1, <2>2
  <2> QED BY <2>3, <2>4, <2>5
<1>7. 0 \in 0 .. n /\ n \in 0 .. n BY <1>1
<1> HIDE DEF n, gap, atTail, atHead, above, below
<1>8. \E i \in 0 .. n : /\ gap = <<KeyAt(l, i), KeyAt(l, i + 1)>>
                       /\ ValueBetween(l, value, <<KeyAt(l, i), KeyAt(l, i + 1)>>)
  <2>1. CASE gap = atTail /\ ValueBetween(l, value, atTail) BY <1>3, <1>7, <2>1, Zenon
  <2>2. CASE gap = atHead /\ ValueBetween(l, value, atHead) BY <1>4, <1>7, <2>2, Zenon
  <2>3. CASE lesser # None /\ gap = above /\ ValueBetween(l, value, above)
    <3>1. PICK i \in 0 .. n : above = <<KeyAt(l, i), KeyAt(l, i + 1)>> BY <1>5, <2>3
    <3> QED BY <2>3, <3>1, Zenon
  <2>4. CASE greater # None /\ gap = below /\ ValueBetween(l, value, below)
    <3>1. PICK i \in 0 .. n : below = <<KeyAt(l, i), KeyAt(l, i + 1)>> BY <1>6, <2>4
    <3> QED BY <2>4, <3>1, Zenon
  <2> QED BY <1>2, <2>1, <2>2, <2>3, <2>4
<1> QED BY <1>8 DEF n, gap

(* An insertion that does not revert puts the key at the place its hints   *)
(* lead to.                                                                *)
LEMMA InsertIsPut ==
  ASSUME NEW l, Good(l), NEW g \in Groups, NEW value \in Nat, NEW lesser, NEW greater,
         CanInsert(l, g, value, lesser, greater)
  PROVE  \E i \in 0 .. Len(l.keys) :
           /\ GapFor(l, value, lesser, greater) = <<KeyAt(l, i), KeyAt(l, i + 1)>>
           /\ ValueBetween(l, value, <<KeyAt(l, i), KeyAt(l, i + 1)>>)
           /\ Insert(l, g, value, lesser, greater) = Put(l, g, value, i)
<1> DEFINE gap == GapFor(l, value, lesser, greater)
           n == Len(l.keys)
<1>1. /\ gap # NoGap
      /\ lesser \in Keys(l) \cup {None} /\ greater \in Keys(l) \cup {None}
  BY DEF CanInsert
<1>2. PICK i \in 0 .. n : /\ gap = <<KeyAt(l, i), KeyAt(l, i + 1)>>
                         /\ ValueBetween(l, value, <<KeyAt(l, i), KeyAt(l, i + 1)>>)
  BY <1>1, GapFact
<1>3. n \in Nat BY KeyAtFact
<1>4. gap[1] = KeyAt(l, i) BY <1>2
<1>5. Insert(l, g, value, lesser, greater)
        = Put(l, g, value, IF gap[1] = None THEN 0 ELSE Position(l, gap[1]))
  BY DEF Insert, Put
<1> HIDE DEF gap
<1>6. (IF gap[1] = None THEN 0 ELSE Position(l, gap[1])) = i
  <2>1. CASE i = 0
    <3>1. gap[1] = None BY <1>4, <2>1, KeyAtFact
    <3> QED BY <2>1, <3>1
  <2>2. CASE i # 0
    <3>1. i \in 1 .. n BY <1>3, <2>2
    <3>2. gap[1] = l.keys[i] /\ gap[1] # None BY <1>4, <3>1, KeyAtFact
    <3>3. Position(l, l.keys[i]) = i BY <3>1, PositionFact, KeyAtFact
    <3> QED BY <3>2, <3>3
  <2> QED BY <2>1, <2>2
<1>7. Insert(l, g, value, lesser, greater) = Put(l, g, value, i) BY <1>5, <1>6
<1> QED BY <1>2, <1>7 DEF gap

(* An insertion that does not revert.                                      *)
LEMMA InsertFact ==
  ASSUME NEW l, Good(l), NEW g \in Groups, NEW value \in Nat, NEW lesser, NEW greater,
         CanInsert(l, g, value, lesser, greater)
  PROVE  /\ Good(Insert(l, g, value, lesser, greater))
         /\ Keys(Insert(l, g, value, lesser, greater)) = Keys(l) \cup {g}
         /\ Insert(l, g, value, lesser, greater).values[g] = value
         /\ \A h \in Groups : h # g =>
              Insert(l, g, value, lesser, greater).values[h] = l.values[h]
<1> DEFINE n == Len(l.keys)
<1>1. g \in Groups \ Keys(l) BY DEF CanInsert
<1>2. PICK i \in 0 .. n : /\ ValueBetween(l, value, <<KeyAt(l, i), KeyAt(l, i + 1)>>)
                         /\ Insert(l, g, value, lesser, greater) = Put(l, g, value, i)
  BY InsertIsPut
<1>3. n \in Nat BY KeyAtFact
<1>4. /\ KeyAt(l, i) = None \/ l.values[KeyAt(l, i)] <= value
      /\ KeyAt(l, i + 1) = None \/ l.values[KeyAt(l, i + 1)] >= value
  BY <1>2 DEF ValueBetween
<1>5. i > 0 => l.values[l.keys[i]] <= value
  <2> SUFFICES ASSUME i > 0 PROVE l.values[l.keys[i]] <= value OBVIOUS
  <2>1. i \in 1 .. n BY <1>3
  <2>2. KeyAt(l, i) = l.keys[i] /\ KeyAt(l, i) # None BY <2>1, KeyAtFact
  <2> QED BY <1>4, <2>2
<1>6. i < n => l.values[l.keys[i + 1]] >= value
  <2> SUFFICES ASSUME i < n PROVE l.values[l.keys[i + 1]] >= value OBVIOUS
  <2>1. i + 1 \in 1 .. n BY <1>3
  <2>2. KeyAt(l, i + 1) = l.keys[i + 1] /\ KeyAt(l, i + 1) # None BY <2>1, KeyAtFact
  <2> QED BY <1>4, <2>2
<1> QED BY <1>1, <1>2, <1>5, <1>6, PutFact

(* An update that does not revert changes one value, and no key.           *)
LEMMA UpdateFact ==
  ASSUME NEW l, Good(l), NEW g, NEW value \in Nat, NEW lesser, NEW greater,
         CanUpdate(l, g, value, lesser, greater)
  PROVE  /\ Good(Update(l, g, value, lesser, greater))
         /\ Keys(Update(l, g, value, lesser, greater)) = Keys(l)
         /\ Update(l, g, value, lesser, greater).values[g] = value
         /\ \A h \in Groups : h # g =>
              Update(l, g, value, lesser, greater).values[h] = l.values[h]
<1> DEFINE r == Remove(l, g)
<1>1. g \in Keys(l) /\ CanInsert(r, g, value, lesser, greater) BY DEF CanUpdate
<1>2. g \in Groups BY <1>1, KeyAtFact
<1>3. /\ Good(r) /\ Keys(r) = Keys(l) \ {g}
      /\ \A h \in Groups : h # g => r.values[h] = l.values[h]
  BY <1>1, RemoveFact
<1>4. Update(l, g, value, lesser, greater) = Insert(r, g, value, lesser, greater)
  BY DEF Update
<1> HIDE DEF r
<1> QED BY <1>1, <1>2, <1>3, <1>4, InsertFact

(* Some hint always works.                                                 *)
LEMMA HintExists ==
  ASSUME NEW l, Good(l), NEW g \in Groups \ Keys(l), NEW value \in Nat
  PROVE  \E lesser, greater \in Groups \cup {None} : CanInsert(l, g, value, lesser, greater)
<1> DEFINE n == Len(l.keys)
           below == {i \in 0 .. n : i = 0 \/ l.values[l.keys[i]] <= value}
<1>1. /\ n \in Nat /\ DOMAIN l.keys = 1 .. n
      /\ \A i \in 1 .. n : l.keys[i] \in Groups
      /\ l.values \in [Groups -> Nat]
  BY KeyAtFact DEF Good, Lists
<1>2. below \subseteq Nat /\ below # {} /\ \A x \in below : x <= n
  <2>1. 0 \in below BY <1>1
  <2> QED BY <1>1, <2>1
<1> HIDE DEF below
<1>3. PICK i \in below : \A x \in below : i >= x BY <1>1, <1>2, MaxExists
<1>4. i \in 0 .. n /\ (i = 0 \/ l.values[l.keys[i]] <= value) BY <1>3 DEF below
<1>5. i = n \/ (i + 1 \in 1 .. n /\ l.values[l.keys[i + 1]] >= value)
  <2> SUFFICES ASSUME i # n PROVE i + 1 \in 1 .. n /\ l.values[l.keys[i + 1]] >= value
    OBVIOUS
  <2>1. i + 1 \in 1 .. n /\ i + 1 \in 0 .. n /\ i + 1 # 0 /\ ~(i >= i + 1) BY <1>1, <1>4
  <2>2. i + 1 \notin below BY <1>3, <2>1
  <2>3. ~(l.values[l.keys[i + 1]] <= value) BY <2>1, <2>2 DEF below
  <2>4. l.values[l.keys[i + 1]] \in Nat BY <1>1, <2>1
  <2> QED BY <2>1, <2>3, <2>4
<1> DEFINE lesser == KeyAt(l, i)
           greater == KeyAt(l, i + 1)
<1>6. i = 0 => lesser = None BY KeyAtFact
<1>7. i # 0 => /\ i \in 1 .. n /\ lesser = l.keys[i] /\ lesser \in Keys(l) /\ lesser # None
  BY <1>1, <1>4, KeyAtFact
<1>8. i = n => greater = None BY KeyAtFact
<1>9. i # n => /\ i + 1 \in 1 .. n /\ greater = l.keys[i + 1] /\ greater \in Keys(l)
               /\ greater # None
  BY <1>5, KeyAtFact
<1>10. {lesser, greater} \subseteq Keys(l) \cup {None} BY <1>6, <1>7, <1>8, <1>9
<1>11. g \notin Keys(l) \cup {lesser, greater} BY <1>10
<1>12. ValueBetween(l, value, <<lesser, greater>>)
  <2>1. lesser = None \/ l.values[lesser] <= value BY <1>4, <1>6, <1>7
  <2>2. greater = None \/ l.values[greater] >= value BY <1>5, <1>8, <1>9
  <2> HIDE DEF lesser, greater
  <2> QED BY <2>1, <2>2 DEF ValueBetween
<1>13. lesser # None => /\ NextOf(l, lesser) = greater
  <2> SUFFICES ASSUME lesser # None PROVE NextOf(l, lesser) = greater OBVIOUS
  <2>1. i \in 1 .. n /\ lesser = l.keys[i] /\ lesser \in Keys(l) BY <1>6, <1>7
  <2>2. Position(l, lesser) = i BY <1>1, <2>1, PositionFact
  <2> QED BY <2>1, <2>2 DEF NextOf
<1>14. lesser = None => greater = TailOf(l)
  <2> SUFFICES ASSUME lesser = None PROVE greater = TailOf(l) OBVIOUS
  <2>1. i = 0 BY <1>7
  <2> QED BY <2>1 DEF TailOf
<1>15. lesser # None \/ greater # None \/ l.keys = <<>>
  <2> SUFFICES ASSUME lesser = None, greater = None PROVE l.keys = <<>> OBVIOUS
  <2>1. n = 0 BY <1>7, <1>9
  <2>2. l.keys \in Seq(Groups) BY DEF Good, Lists
  <2> QED BY <2>1, <2>2
<1>16. GapFor(l, value, lesser, greater) # NoGap
  <2> HIDE DEF lesser, greater
  <2> QED BY <1>12, <1>13, <1>14 DEF GapFor, NoGap
<1>17. lesser \in Groups \cup {None} /\ greater \in Groups \cup {None} BY <1>10, KeyAtFact
<1> HIDE DEF lesser, greater
<1>18. CanInsert(l, g, value, lesser, greater) BY <1>10, <1>11, <1>15, <1>16 DEF CanInsert
<1> QED BY <1>17, <1>18

----------------------------------------------------------------------------
(* An element of the pointer list, as LinkedList.sol keeps it.             *)
Element(previousKey, nextKey, exists) ==
  [previousKey |-> previousKey, nextKey |-> nextKey, exists |-> exists]

(* The flag exists, named so that the provers treat it as a value.         *)
Present == TRUE

Absent == FALSE

Listed(l, g) == IF g \in Keys(l) THEN Present ELSE Absent

(* The storage that holds the list l: the pointers of a key are its        *)
(* neighbours in l.                                                        *)
StorageOf(l) ==
  [head |-> HeadOf(l), tail |-> TailOf(l), numElements |-> Len(l.keys),
   elements |-> [g \in Groups |-> Element(PreviousOf(l, g), NextOf(l, g), Listed(l, g))],
   values |-> l.values]

(* The fields of an element, and what assigning one of them does.          *)
LEMMA ElementFact ==
  ASSUME NEW p, NEW n, NEW x, NEW k
  PROVE  /\ Element(p, n, x).previousKey = p /\ Element(p, n, x).nextKey = n
         /\ Element(p, n, x).exists = x
         /\ [Element(p, n, x) EXCEPT !.nextKey = k] = Element(p, k, x)
         /\ [Element(p, n, x) EXCEPT !.previousKey = k] = Element(k, n, x)
<1> QED BY DEF Element

(* What the views of LinkedGroups read in the storage of a list.           *)
LEMMA ViewsFact ==
  ASSUME NEW l, Good(l)
  PROVE  /\ StorageOf(l).head = HeadOf(l) /\ StorageOf(l).tail = TailOf(l)
         /\ StorageOf(l).numElements = Len(l.keys) /\ StorageOf(l).values = l.values
         /\ \A g \in Groups \cup {None} : /\ Before(StorageOf(l), g) = PreviousOf(l, g)
                                          /\ After(StorageOf(l), g) = NextOf(l, g)
         /\ \A g \in Groups : StorageOf(l).elements[g].exists <=> g \in Keys(l)
<1> DEFINE e(g) == Element(PreviousOf(l, g), NextOf(l, g), Listed(l, g))
<1>1. \A g \in Groups : StorageOf(l).elements[g] = e(g) BY DEF StorageOf
<1>7. \A g \in Groups : /\ e(g).previousKey = PreviousOf(l, g) /\ e(g).nextKey = NextOf(l, g)
                        /\ e(g).exists = Listed(l, g)
  BY ElementFact
<1> HIDE DEF e
<1>2. \A g \in Groups : /\ Before(StorageOf(l), g) = PreviousOf(l, g)
                        /\ After(StorageOf(l), g) = NextOf(l, g)
  <2> SUFFICES ASSUME NEW g \in Groups
               PROVE  /\ Before(StorageOf(l), g) = PreviousOf(l, g)
                      /\ After(StorageOf(l), g) = NextOf(l, g)
    OBVIOUS
  <2>1. g # None /\ ElementOf(StorageOf(l), g) = e(g) BY <1>1 DEF ElementOf
  <2> QED BY <1>7, <2>1 DEF Before, After
<1>3. PreviousOf(l, None) = None /\ NextOf(l, None) = None
  BY KeyAtFact DEF PreviousOf, NextOf
<1>4. Before(StorageOf(l), None) = None /\ After(StorageOf(l), None) = None
  BY DEF Before, After, ElementOf, NoElement
<1>5. \A g \in Groups : StorageOf(l).elements[g].exists <=> g \in Keys(l)
  BY <1>1, <1>7 DEF Listed, Present, Absent
<1>6. /\ StorageOf(l).head = HeadOf(l) /\ StorageOf(l).tail = TailOf(l)
      /\ StorageOf(l).numElements = Len(l.keys) /\ StorageOf(l).values = l.values
  BY DEF StorageOf
<1> QED BY <1>2, <1>3, <1>4, <1>5, <1>6

(* The neighbours of the key at place i are the keys at the places beside  *)
(* it.                                                                     *)
LEMMA NeighbourFact ==
  ASSUME NEW l, Good(l), NEW i \in 1 .. Len(l.keys)
  PROVE  /\ NextOf(l, l.keys[i]) = KeyAt(l, i + 1)
         /\ PreviousOf(l, l.keys[i]) = KeyAt(l, i - 1)
         /\ l.keys[i] \in Keys(l) /\ l.keys[i] \in Groups /\ l.keys[i] # None
<1>1. l.keys[i] \in Keys(l) /\ Position(l, l.keys[i]) = i
  BY KeyAtFact, PositionFact DEF Keys
<1> QED BY <1>1, KeyAtFact DEF NextOf, PreviousOf

(* headN follows the back pointers through the whole list. It is a         *)
(* recursive function: the least place at which it differed from the       *)
(* reversed list would contradict its definition.                          *)
LEMMA HeadNFact ==
  ASSUME NEW l, Good(l)
  PROVE  GetKeys(StorageOf(l)) = [i \in 1 .. Len(l.keys) |-> l.keys[Len(l.keys) + 1 - i]]
<1> DEFINE m == StorageOf(l)
           n == Len(l.keys)
           key == GetKeys(m)
           h == [i \in 1 .. n |-> l.keys[n + 1 - i]]
           Obeys(f) == f = [i \in 1 .. n |-> IF i = 1 THEN m.head ELSE Before(m, f[i - 1])]
<1>0. n \in Nat BY KeyAtFact
<1>1. key = CHOOSE f : Obeys(f) 
  <2>1. m.numElements = n BY ViewsFact
  <2> HIDE DEF m
  <2> QED BY <2>1 DEF GetKeys, HeadN
<1>2. Obeys(h)
  <2>1. \A i \in 1 .. n : i # 1 => l.keys[n + 1 - i] = Before(m, l.keys[n + 1 - (i - 1)])
    <3> SUFFICES ASSUME NEW i \in 1 .. n, i # 1
                 PROVE  l.keys[n + 1 - i] = Before(m, l.keys[n + 1 - (i - 1)])
      OBVIOUS
    <3> DEFINE j == n + 1 - (i - 1)
    <3>1. j \in 1 .. n /\ j - 1 = n + 1 - i /\ j - 1 \in 1 .. n BY <1>0
    <3> HIDE DEF j
    <3>2. PreviousOf(l, l.keys[j]) = l.keys[j - 1] /\ l.keys[j] \in Groups
      BY <3>1, NeighbourFact, KeyAtFact
    <3>3. Before(m, l.keys[j]) = l.keys[j - 1] BY <3>2, ViewsFact
    <3> QED BY <3>1, <3>3 DEF j
  <2>2. \A i \in 1 .. n : i = 1 => l.keys[n + 1 - i] = m.head
    <3>1. m.head = KeyAt(l, n) BY ViewsFact DEF HeadOf
    <3>2. \A i \in 1 .. n : i = 1 => n + 1 - i = n /\ n \in 1 .. n BY <1>0
    <3> HIDE DEF m
    <3> QED BY <3>1, <3>2, KeyAtFact
  <2>3. \A i \in 1 .. n : i # 1 => i - 1 \in 1 .. n /\ h[i - 1] = l.keys[n + 1 - (i - 1)]
    BY <1>0
  <2> HIDE DEF m
  <2> QED BY <2>1, <2>2, <2>3
<1> HIDE DEF key
<1>3. Obeys(key)
  <2> HIDE DEF Obeys
  <2> QED BY <1>1, <1>2
<1> DEFINE wrong == {i \in 1 .. n : key[i] # h[i]}
<1>4. wrong = {}
  <2> SUFFICES ASSUME wrong # {} PROVE FALSE OBVIOUS
  <2>1. wrong \subseteq Nat BY <1>0
  <2>2. PICK i \in wrong : \A j \in wrong : i <= j
    <3> HIDE DEF wrong
    <3> QED BY <2>1, MinExists
  <2>3. i \in 1 .. n /\ key[i] # h[i] BY <2>2
  <2>4. CASE i = 1 BY <1>2, <1>3, <2>3, <2>4
  <2>5. CASE i # 1
    <3>1. i - 1 \in 1 .. n /\ ~(i <= i - 1) BY <1>0, <2>3, <2>5
    <3>2. key[i - 1] = h[i - 1] BY <2>2, <3>1
    <3>3. key[i] = Before(m, key[i - 1]) BY <1>3, <2>3, <2>5
    <3>4. h[i] = Before(m, h[i - 1])
      <4> HIDE DEF h, m
      <4> QED BY <1>2, <2>3, <2>5
    <3> QED BY <2>3, <3>2, <3>3, <3>4
  <2> QED BY <2>4, <2>5
<1>5. key = [i \in 1 .. n |-> key[i]]
  <2> HIDE DEF m
  <2> QED BY <1>3
<1>6. \A i \in 1 .. n : key[i] = h[i] BY <1>4
<1>7. key = h
  <2> HIDE DEF key
  <2> QED BY <1>5, <1>6
<1> QED BY <1>7 DEF key

(* The list that the pointers stand for is the list they were made from.   *)
LEMMA AsListFact ==
  ASSUME NEW l, Good(l)
  PROVE  AsList(StorageOf(l)) = l
<1> DEFINE m == StorageOf(l)
           n == Len(l.keys)
           keys == [i \in 1 .. n |-> GetKeys(m)[n + 1 - i]]
<1>0. n \in Nat /\ DOMAIN l.keys = 1 .. n /\ l.keys \in Seq(Groups) BY KeyAtFact DEF Good, Lists
<1>1. \A i \in 1 .. n : GetKeys(m)[n + 1 - i] = l.keys[i]
  <2> SUFFICES ASSUME NEW i \in 1 .. n PROVE GetKeys(m)[n + 1 - i] = l.keys[i] OBVIOUS
  <2>1. n + 1 - i \in 1 .. n /\ n + 1 - (n + 1 - i) = i BY <1>0
  <2>2. GetKeys(m) = [j \in 1 .. n |-> l.keys[n + 1 - j]] BY HeadNFact
  <2> HIDE DEF m
  <2> QED BY <2>1, <2>2
<1>2. keys = l.keys
  <2> HIDE DEF m
  <2>1. l.keys = [i \in 1 .. n |-> l.keys[i]] BY <1>0
  <2> QED BY <1>1, <2>1
<1>3. m.numElements = n /\ m.values = l.values BY ViewsFact
<1>4. AsList(m) = [keys |-> keys, values |-> l.values]
  <2> HIDE DEF m
  <2> QED BY <1>3 DEF AsList
<1>5. l = [keys |-> l.keys, values |-> l.values] BY DEF Good, Lists
<1> HIDE DEF keys, m
<1>6. AsList(m) = l BY <1>2, <1>4, <1>5
<1> QED BY <1>6 DEF m

(* getLesserAndGreater finds along the pointers what GapFor finds in the   *)
(* list.                                                                   *)
LEMMA GapsAgree ==
  ASSUME NEW l, Good(l), NEW value,
         NEW lesser \in Groups \cup {None}, NEW greater \in Groups \cup {None}
  PROVE  LesserAndGreater(StorageOf(l), value, lesser, greater) = GapFor(l, value, lesser, greater)
<1> DEFINE m == StorageOf(l)
<1>1. /\ m.head = HeadOf(l) /\ m.tail = TailOf(l) /\ m.values = l.values
      /\ After(m, lesser) = NextOf(l, lesser)
      /\ Before(m, greater) = PreviousOf(l, greater)
  BY ViewsFact
<1> HIDE DEF m
<1>2. \A gap : ValueBetween(m, value, gap) <=> ValueBetween(l, value, gap)
  BY <1>1 DEF ValueBetween
<1>3. LesserAndGreater(m, value, lesser, greater) = GapFor(l, value, lesser, greater)
  BY <1>1, <1>2 DEF LesserAndGreater, GapFor
<1> QED BY <1>3 DEF m

(* An insertion reverts on the pointers exactly when it does on the list.  *)
LEMMA InsertableAgrees ==
  ASSUME NEW l, Good(l), NEW g \in Groups, NEW value \in Nat,
         NEW lesser \in Groups \cup {None}, NEW greater \in Groups \cup {None}
  PROVE  Insertable(StorageOf(l), g, value, lesser, greater) <=> CanInsert(l, g, value, lesser, greater)
<1> DEFINE m == StorageOf(l)
           n == Len(l.keys)
           gap == LesserAndGreater(m, value, lesser, greater)
<1>0. n \in Nat /\ l.keys \in Seq(Groups) BY DEF Good, Lists
<1>1. gap = GapFor(l, value, lesser, greater) BY GapsAgree
<1>2. \A k \in Groups : m.elements[k].exists <=> k \in Keys(l) BY ViewsFact
<1>3. m.numElements = n BY ViewsFact
<1>4. n = 0 <=> l.keys = <<>> BY <1>0
<1>5. (\A k \in {lesser, greater} \ {None} : m.elements[k].exists)
        <=> {lesser, greater} \subseteq Keys(l) \cup {None}
  <2>1. Keys(l) \subseteq Groups /\ None \notin Groups BY KeyAtFact
  <2> HIDE DEF m
  <2> QED BY <1>2, <2>1, Zenon
<1>6. ASSUME gap # NoGap, {lesser, greater} \subseteq Keys(l) \cup {None}
      PROVE  CanLink(m, g, gap)
  <2>1. PICK i \in 0 .. n : gap = <<KeyAt(l, i), KeyAt(l, i + 1)>>
    <3>1. lesser \in Keys(l) \cup {None} /\ greater \in Keys(l) \cup {None} BY <1>6
    <3>2. GapFor(l, value, lesser, greater) # NoGap BY <1>1, <1>6
    <3>3. \E i \in 0 .. Len(l.keys) :
            GapFor(l, value, lesser, greater) = <<KeyAt(l, i), KeyAt(l, i + 1)>>
      BY <3>1, <3>2, GapFact
    <3> HIDE DEF gap
    <3> QED BY <1>1, <3>3
  <2> DEFINE a == KeyAt(l, i)
             b == KeyAt(l, i + 1)
  <2>2. a # None => /\ a \in Groups /\ a \in Keys(l) /\ After(m, a) = b
    <3> SUFFICES ASSUME a # None
                 PROVE  a \in Groups /\ a \in Keys(l) /\ After(m, a) = b
      OBVIOUS
    <3>1. i # 0 BY KeyAtFact
    <3>2. i \in 1 .. n BY <1>0, <3>1
    <3>3. a = l.keys[i] BY <3>2, KeyAtFact
    <3>4. a \in Groups /\ a \in Keys(l) /\ NextOf(l, a) = b BY <3>2, <3>3, NeighbourFact
    <3> QED BY <3>4, ViewsFact
  <2>3. b # None => /\ b \in Groups /\ b \in Keys(l) /\ Before(m, b) = a
    <3> SUFFICES ASSUME b # None
                 PROVE  b \in Groups /\ b \in Keys(l) /\ Before(m, b) = a
      OBVIOUS
    <3>1. i # n BY KeyAtFact
    <3>2. i + 1 \in 1 .. n /\ i + 1 - 1 = i BY <1>0, <3>1
    <3>3. b = l.keys[i + 1] BY <3>2, KeyAtFact
    <3>4. b \in Groups /\ b \in Keys(l) /\ PreviousOf(l, b) = a BY <3>2, <3>3, NeighbourFact
    <3> QED BY <3>4, ViewsFact
  <2>4. n # 0 => gap # <<None, None>>
    <3> SUFFICES ASSUME n # 0, a = None, b = None PROVE FALSE BY <2>1
    <3>1. i = 0 BY <1>0, KeyAtFact
    <3>2. 1 \in 1 .. n /\ i + 1 = 1 BY <1>0, <3>1
    <3> QED BY <3>2, KeyAtFact
  <2>5. a # None => m.elements[a].exists
    <3> HIDE DEF m, a, b
    <3> QED BY <1>2, <2>2
  <2>6. b # None => m.elements[b].exists
    <3> HIDE DEF m, a, b
    <3> QED BY <1>2, <2>3
  <2>7. gap = <<a, b>> BY <2>1
  <2> HIDE DEF gap, a, b, m, n
  <2>8. gap[1] = a /\ gap[2] = b BY <2>7
  <2> QED BY <1>3, <2>2, <2>3, <2>4, <2>5, <2>6, <2>8 DEF CanLink
<1>7. ~m.elements[g].exists <=> g \notin Keys(l)
  <2> HIDE DEF m
  <2> QED BY <1>2, Zenon
<1> DEFINE E == m.elements[g].exists
           F == \A k \in {lesser, greater} \ {None} : m.elements[k].exists
           num == m.numElements
           L == CanLink(m, g, gap)
<1>8. Insertable(m, g, value, lesser, greater)
        <=> /\ g \notin {lesser, greater} /\ ~E
            /\ lesser # None \/ greater # None \/ num = 0
            /\ F /\ gap # NoGap /\ L
  BY DEF Insertable
<1>9. ~E <=> g \notin Keys(l) BY <1>7
<1>10. F <=> {lesser, greater} \subseteq Keys(l) \cup {None} BY <1>5
<1>11. num = 0 <=> l.keys = <<>> BY <1>3, <1>4
<1>12. gap # NoGap /\ {lesser, greater} \subseteq Keys(l) \cup {None} => L BY <1>6
<1> HIDE DEF E, F, num, L
<1>13. CanInsert(l, g, value, lesser, greater)
        <=> /\ g \notin Keys(l) /\ g \notin {lesser, greater}
            /\ lesser # None \/ greater # None \/ l.keys = <<>>
            /\ {lesser, greater} \subseteq Keys(l) \cup {None} /\ gap # NoGap
  <2> HIDE DEF gap
  <2> QED BY <1>1 DEF CanInsert
<1> HIDE DEF gap
<1>14. Insertable(m, g, value, lesser, greater) <=> CanInsert(l, g, value, lesser, greater)
  <2> HIDE DEF m
  <2> QED BY <1>8, <1>9, <1>10, <1>11, <1>12, <1>13
<1> QED BY <1>14

(* r is l with g put between the neighbours a and b.                       *)
Spliced(l, r, g, a, b) ==
  /\ Len(r.keys) = Len(l.keys) + 1
  /\ NextOf(r, g) = b /\ PreviousOf(r, g) = a
  /\ \A h \in Groups : h # g =>
       /\ NextOf(r, h) = IF h = a THEN g ELSE NextOf(l, h)
       /\ PreviousOf(r, h) = IF h = b THEN g ELSE PreviousOf(l, h)
  /\ TailOf(r) = IF a = None THEN g ELSE TailOf(l)
  /\ HeadOf(r) = IF b = None THEN g ELSE HeadOf(l)

(* Put splices the new key between the keys at places i and i + 1.         *)
LEMMA SplicedFact ==
  ASSUME NEW l, Good(l), NEW g \in Groups, g \notin Keys(l), NEW value,
         NEW i \in 0 .. Len(l.keys), Good(Put(l, g, value, i)),
         \A h : h \in Keys(Put(l, g, value, i)) <=> h \in Keys(l) \/ h = g
  PROVE  Spliced(l, Put(l, g, value, i), g, KeyAt(l, i), KeyAt(l, i + 1))
<1> DEFINE r == Put(l, g, value, i)
           a == KeyAt(l, i)
           b == KeyAt(l, i + 1)
<1>r. /\ r = Put(l, g, value, i) /\ a = KeyAt(l, i) /\ b = KeyAt(l, i + 1) /\ Good(r)
      /\ \A h : h \in Keys(r) <=> h \in Keys(l) \/ h = g
  OBVIOUS
<1> HIDE DEF r, a, b
<1> USE <1>r
<1> DEFINE n == Len(l.keys)
<1>0. n \in Nat /\ l.keys \in Seq(Groups) /\ r.keys = InsertAfter(l.keys, i, g)
  BY DEF Good, Lists, Put
<1>1. /\ Len(r.keys) = n + 1
      /\ r.keys[i + 1] = g
      /\ \A j \in 1 .. i : r.keys[j] = l.keys[j]
      /\ \A j \in (i + 2) .. (n + 1) : r.keys[j] = l.keys[j - 1]
  <2> DEFINE s == InsertAfter(l.keys, i, g)
  <2>1. g \in Groups OBVIOUS
  <2>2. /\ s \in Seq(Groups)
        /\ Len(s) = Len(l.keys) + 1
        /\ s[i + 1] = g
        /\ \A j \in 1 .. i : s[j] = l.keys[j]
        /\ \A j \in (i + 2) .. (Len(l.keys) + 1) : s[j] = l.keys[j - 1]
    BY <1>0, <2>1, InsertAfterFact, Zenon
  <2> QED BY <1>0, <2>2
<1> HIDE DEF n
<1>2. n = Len(l.keys) BY DEF n
<1>3. \A j \in 0 .. i : KeyAt(r, j) = KeyAt(l, j)
  <2> SUFFICES ASSUME NEW j \in 0 .. i PROVE KeyAt(r, j) = KeyAt(l, j) OBVIOUS
  <2>1. CASE j = 0 BY <2>1, KeyAtFact
  <2>2. CASE j # 0
    <3>1. j \in 1 .. i /\ j \in 1 .. n /\ j \in 1 .. n + 1 BY <1>0, <1>2, <2>2
    <3> QED BY <1>1, <1>2, <3>1, KeyAtFact
  <2> QED BY <2>1, <2>2
<1>4. KeyAt(r, i + 1) = g
  <2>1. i + 1 \in 1 .. n + 1 BY <1>0, <1>2
  <2> QED BY <1>1, <2>1, KeyAtFact
<1>5. \A j \in (i + 1) .. (n + 1) : KeyAt(r, j + 1) = KeyAt(l, j)
  <2> SUFFICES ASSUME NEW j \in (i + 1) .. (n + 1) PROVE KeyAt(r, j + 1) = KeyAt(l, j) OBVIOUS
  <2>1. CASE j = n + 1 BY <1>1, <1>2, <2>1, KeyAtFact
  <2>2. CASE j # n + 1
    <3>1. /\ j \in 1 .. n /\ j + 1 \in (i + 2) .. (n + 1) /\ j + 1 - 1 = j
          /\ j + 1 \in 1 .. n + 1
      BY <1>0, <1>2, <2>2
    <3> QED BY <1>1, <1>2, <3>1, KeyAtFact
  <2> QED BY <2>1, <2>2
<1>6. NextOf(r, g) = b /\ PreviousOf(r, g) = a
  <2>1. /\ i + 1 \in 1 .. n + 1 /\ i + 1 \in (i + 1) .. (n + 1) /\ i \in 0 .. i
        /\ i + 1 - 1 = i
    BY <1>0, <1>2
  <2>2. NextOf(r, g) = KeyAt(r, i + 1 + 1) /\ PreviousOf(r, g) = KeyAt(r, i + 1 - 1)
    BY <1>1, <2>1, NeighbourFact
  <2> QED BY <1>3, <1>5, <2>1, <2>2
<1>7. ASSUME NEW j \in 1 .. n
      PROVE  /\ l.keys[j] = a <=> j = i
             /\ l.keys[j] = b <=> j = i + 1
  <2>1. \A k \in 1 .. n : l.keys[k] = l.keys[j] <=> k = j
    BY <1>0, <1>2, PositionFact, KeyAtFact
  <2>2. l.keys[j] # None BY <1>2, NeighbourFact
  <2>3. l.keys[j] = a <=> j = i
    <3>1. CASE i = 0 BY <1>0, <2>2, <3>1, KeyAtFact
    <3>2. CASE i # 0
      <4>1. i \in 1 .. n /\ a = l.keys[i] BY <1>0, <1>2, <3>2, KeyAtFact
      <4> QED BY <2>1, <4>1
    <3> QED BY <3>1, <3>2
  <2>4. l.keys[j] = b <=> j = i + 1
    <3>1. CASE i = n
      <4>1. b = None BY <1>2, <3>1, KeyAtFact
      <4> QED BY <1>0, <2>2, <3>1, <4>1
    <3>2. CASE i # n
      <4>1. i + 1 \in 1 .. n /\ b = l.keys[i + 1] BY <1>0, <1>2, <3>2, KeyAtFact
      <4> QED BY <2>1, <4>1
    <3> QED BY <3>1, <3>2
  <2> QED BY <2>3, <2>4
<1>8. ASSUME NEW h \in Groups, h # g
      PROVE  /\ NextOf(r, h) = IF h = a THEN g ELSE NextOf(l, h)
             /\ PreviousOf(r, h) = IF h = b THEN g ELSE PreviousOf(l, h)
  <2>1. CASE h \notin Keys(l)
    <3>1. h \notin Keys(r) BY <1>8, <2>1
    <3>2. h # a
      <4>1. a = None \/ a \in Keys(l)
        <5>1. i = 0 \/ i \in 1 .. n BY <1>0, <1>2
        <5> QED BY <1>2, <5>1, KeyAtFact
      <4> QED BY <2>1, <4>1
    <3>3. h # b
      <4>1. b = None \/ b \in Keys(l)
        <5>1. i + 1 = n + 1 \/ i + 1 \in 1 .. n BY <1>0, <1>2
        <5> QED BY <1>2, <5>1, KeyAtFact
      <4> QED BY <2>1, <4>1
    <3> QED BY <2>1, <3>1, <3>2, <3>3 DEF NextOf, PreviousOf
  <2>2. CASE h \in Keys(l)
    <3>1. PICK j \in 1 .. n : h = l.keys[j] BY <1>2, <2>2, KeyAtFact DEF Keys
    <3>2. /\ NextOf(l, h) = KeyAt(l, j + 1) /\ PreviousOf(l, h) = KeyAt(l, j - 1)
          /\ h = a <=> j = i
          /\ h = b <=> j = i + 1
      BY <1>2, <1>7, <3>1, NeighbourFact
    <3>3. CASE j <= i
      <4>1. j \in 1 .. n + 1 /\ j \in 1 .. i /\ r.keys[j] = h BY <1>0, <1>1, <1>2, <3>1, <3>3
      <4>2. NextOf(r, h) = KeyAt(r, j + 1) /\ PreviousOf(r, h) = KeyAt(r, j - 1)
        BY <1>1, <4>1, NeighbourFact
      <4>3. j - 1 \in 0 .. i /\ j # i + 1 /\ (j # i => j + 1 \in 0 .. i) BY <1>0, <1>2, <3>3
      <4> QED BY <1>3, <1>4, <3>2, <4>2, <4>3
    <3>4. CASE ~(j <= i)
      <4>1. /\ j + 1 \in 1 .. n + 1 /\ j + 1 \in (i + 2) .. (n + 1) /\ j + 1 - 1 = j
            /\ j + 1 \in (i + 1) .. (n + 1) /\ j # i
        BY <1>0, <1>2, <3>1, <3>4
      <4>2. r.keys[j + 1] = h BY <1>1, <3>1, <4>1
      <4>3. NextOf(r, h) = KeyAt(r, j + 1 + 1) /\ PreviousOf(r, h) = KeyAt(r, j + 1 - 1)
        BY <1>1, <4>1, <4>2, NeighbourFact
      <4>4. NextOf(r, h) = KeyAt(l, j + 1) BY <1>5, <4>1, <4>3
      <4>5. PreviousOf(r, h) = KeyAt(r, j) BY <4>1, <4>3
      <4>6. j # i + 1 => j - 1 \in (i + 1) .. (n + 1) /\ j - 1 + 1 = j BY <1>0, <1>2, <3>1, <3>4
      <4> QED BY <1>4, <1>5, <3>2, <4>1, <4>4, <4>5, <4>6
    <3> QED BY <3>3, <3>4
  <2> QED BY <2>1, <2>2
<1>9. TailOf(r) = IF a = None THEN g ELSE TailOf(l)
  <2>1. CASE i = 0 BY <1>4, <2>1, KeyAtFact DEF TailOf
  <2>2. CASE i # 0
    <3>1. 1 \in 0 .. i /\ i \in 1 .. n BY <1>0, <1>2, <2>2
    <3>2. a # None BY <1>2, <3>1, KeyAtFact
    <3> QED BY <1>3, <3>1, <3>2 DEF TailOf
  <2> QED BY <2>1, <2>2
<1>10. HeadOf(r) = IF b = None THEN g ELSE HeadOf(l)
  <2>1. CASE i = n
    <3>1. b = None BY <1>2, <2>1, KeyAtFact
    <3> QED BY <1>1, <1>4, <2>1, <3>1 DEF HeadOf
  <2>2. CASE i # n
    <3>1. i + 1 \in 1 .. n /\ n \in (i + 1) .. (n + 1) BY <1>0, <1>2, <2>2
    <3>2. b # None BY <1>2, <3>1, KeyAtFact
    <3> QED BY <1>1, <1>2, <1>5, <3>1, <3>2 DEF HeadOf
  <2> QED BY <2>1, <2>2
<1> QED BY <1>1, <1>2, <1>6, <1>8, <1>9, <1>10 DEF Spliced, r, a, b

(* The assignments of LinkedList.insert and remove, one at a time.         *)
SetNext(elements, k, g) == IF k = None THEN elements ELSE [elements EXCEPT ![k].nextKey = g]

SetPrevious(elements, k, g) ==
  IF k = None THEN elements ELSE [elements EXCEPT ![k].previousKey = g]

SetElement(elements, g, e) == [elements EXCEPT ![g] = e]

Elements(previous, next, exists) ==
  [g \in Groups |-> Element(previous[g], next[g], exists[g])]

SetList(m, tail, head, elements, numElements) ==
  [m EXCEPT !.tail = tail, !.head = head, !.elements = elements, !.numElements = numElements]

(* Link in terms of these assignments.                                     *)
LEMMA LinkParts ==
  ASSUME NEW m, NEW g, NEW gap, m.numElements = 0 => gap[1] = None /\ gap[2] = None,
         NEW a, a = gap[1], NEW b, b = gap[2]
  PROVE  Link(m, g, gap) =
           SetList(m, IF a = None THEN g ELSE m.tail, IF b = None THEN g ELSE m.head,
                   SetElement(SetPrevious(SetNext(m.elements, a, g), b, g), g,
                              Element(a, b, Present)),
                   m.numElements + 1)
<1> USE DEF Link, Element, Present, SetNext, SetPrevious, SetElement, SetList
<1>1. CASE m.numElements = 0 BY <1>1
<1>2. CASE m.numElements # 0
  <2>1. CASE a = None /\ b = None BY <1>2, <2>1
  <2>2. CASE a # None /\ b = None BY <1>2, <2>2
  <2>3. CASE a = None /\ b # None BY <1>2, <2>3
  <2>4. CASE a # None /\ b # None BY <1>2, <2>4
  <2> QED BY <2>1, <2>2, <2>3, <2>4
<1> QED BY <1>1, <1>2

(* Unlink in terms of these assignments.                                   *)
LEMMA UnlinkParts ==
  ASSUME NEW m, NEW g, NEW a, NEW b,
         m.elements[g].previousKey = a, m.elements[g].nextKey = b
  PROVE  Unlink(m, g) =
           SetList(m, IF a = None THEN b ELSE m.tail, IF b = None THEN a ELSE m.head,
                   SetElement(SetPrevious(SetNext(m.elements, a, b), b, a), g, NoElement),
                   m.numElements - 1)
<1> QED BY DEF Unlink, SetNext, SetPrevious, SetElement, SetList

(* Two pointers and one element assigned: how the elements change.         *)
LEMMA SplicedElements ==
  ASSUME NEW g \in Groups, NEW a \in Groups \cup {None}, a # g,
         NEW b \in Groups \cup {None}, b # g, NEW x, NEW y, NEW e,
         NEW p, NEW n, NEW z, NEW p2, NEW n2, NEW z2, e = Element(p2[g], n2[g], z2[g]),
         \A h \in Groups : h # g => /\ z2[h] = z[h]
                                    /\ n2[h] = IF h = a THEN x ELSE n[h]
                                    /\ p2[h] = IF h = b THEN y ELSE p[h]
  PROVE  SetElement(SetPrevious(SetNext(Elements(p, n, z), a, x), b, y), g, e)
           = Elements(p2, n2, z2)
<1> DEFINE old == Elements(p, n, z)
           new == Elements(p2, n2, z2)
           forwards == SetNext(old, a, x)
           both == SetPrevious(forwards, b, y)
<1>1. /\ old = [h \in Groups |-> old[h]]
      /\ \A h \in Groups : old[h] = Element(p[h], n[h], z[h])
  BY DEF Elements
<1>2. /\ new = [h \in Groups |-> new[h]]
      /\ \A h \in Groups : new[h] = Element(p2[h], n2[h], z2[h])
  BY DEF Elements
<1> HIDE DEF old, new
<1>3. forwards = [h \in Groups |-> IF h = a THEN Element(p[h], x, z[h]) ELSE Element(p[h], n[h], z[h])]
  <2>1. CASE a = None BY <1>1, <2>1 DEF SetNext
  <2>2. CASE a # None
    <3>1. forwards = [old EXCEPT ![a].nextKey = x] BY <2>2 DEF SetNext
    <3>2. [Element(p[a], n[a], z[a]) EXCEPT !.nextKey = x] = Element(p[a], x, z[a]) BY DEF Element
    <3>3. forwards = [old EXCEPT ![a] = Element(p[a], x, z[a])]
       BY <1>1, <2>2, <3>1, <3>2
    <3> QED BY <1>1, <2>2, <3>3
  <2> QED BY <2>1, <2>2
<1> HIDE DEF forwards
<1>4. both = [h \in Groups |->
                Element(IF h = b THEN y ELSE p[h], IF h = a THEN x ELSE n[h], z[h])]
  <2> DEFINE nn == [h \in Groups |-> IF h = a THEN x ELSE n[h]]
  <2>1. forwards = [h \in Groups |-> Element(p[h], nn[h], z[h])] BY <1>3
  <2> HIDE DEF nn
  <2>2. both = [h \in Groups |-> Element(IF h = b THEN y ELSE p[h], nn[h], z[h])]
    <3>1. CASE b = None BY <2>1, <3>1 DEF SetPrevious
    <3>2. CASE b # None
      <4>1. both = [forwards EXCEPT ![b].previousKey = y] BY <3>2 DEF SetPrevious
      <4>2. [Element(p[b], nn[b], z[b]) EXCEPT !.previousKey = y] = Element(y, nn[b], z[b])
        BY DEF Element
      <4>3. both = [forwards EXCEPT ![b] = Element(y, nn[b], z[b])] BY <2>1, <3>2, <4>1, <4>2
      <4> QED BY <2>1, <3>2, <4>3
    <3> QED BY <3>1, <3>2
  <2> HIDE DEF both
  <2> QED BY <2>2 DEF nn
<1> HIDE DEF both
<1>5. both = [h \in Groups |-> both[h]] BY <1>4
<1>6. \A h \in Groups : h # g => both[h] = new[h] BY <1>2, <1>4
<1>7. SetElement(both, g, e) = new BY <1>2, <1>5, <1>6 DEF SetElement
<1> QED BY <1>7 DEF both, forwards, old, new

(* Linking and setting the value, as SortedLinkedList.insert does.         *)
Linked(m, g, value, gap) == [Link(m, g, gap) EXCEPT !.values[g] = value]

(* Linking a key between two neighbours is putting it there in the list.   *)
LEMMA LinkFact ==
  ASSUME NEW l, Good(l), NEW g \in Groups, g \notin Keys(l), NEW value \in Nat,
         NEW i \in 0 .. Len(l.keys), Good(Put(l, g, value, i)),
         \A h : h \in Keys(Put(l, g, value, i)) <=> h \in Keys(l) \/ h = g
  PROVE  Linked(StorageOf(l), g, value, <<KeyAt(l, i), KeyAt(l, i + 1)>>)
           = StorageOf(Put(l, g, value, i))
<1> DEFINE r == Put(l, g, value, i)
<1>r. Good(r) /\ \A h : h \in Keys(r) <=> h \in Keys(l) \/ h = g OBVIOUS
<1>s. Spliced(l, r, g, KeyAt(l, i), KeyAt(l, i + 1)) BY <1>r, SplicedFact, Zenon
<1>7. r.values = [l.values EXCEPT ![g] = value] BY DEF Put
<1>e. r = Put(l, g, value, i) OBVIOUS
<1> HIDE DEF r
<1> USE <1>r
<1> DEFINE a == KeyAt(l, i)
           b == KeyAt(l, i + 1)
           m == StorageOf(l)
           old == m.elements
           new == StorageOf(r).elements
           linked == SetElement(SetPrevious(SetNext(old, a, g), b, g), g, Element(a, b, Present))
<1>1. /\ Len(r.keys) = Len(l.keys) + 1
      /\ NextOf(r, g) = b /\ PreviousOf(r, g) = a
      /\ \A h \in Groups : h # g =>
           /\ NextOf(r, h) = IF h = a THEN g ELSE NextOf(l, h)
           /\ PreviousOf(r, h) = IF h = b THEN g ELSE PreviousOf(l, h)
      /\ TailOf(r) = IF a = None THEN g ELSE TailOf(l)
      /\ HeadOf(r) = IF b = None THEN g ELSE HeadOf(l)
  <2>1. Spliced(l, r, g, a, b) BY <1>s
  <2> HIDE DEF a, b
  <2> QED BY <2>1 DEF Spliced
<1>0. Len(l.keys) \in Nat BY KeyAtFact
<1>2. a \in Groups \cup {None} /\ a # g /\ b \in Groups \cup {None} /\ b # g
  <2>1. i = 0 \/ i \in 1 .. Len(l.keys) BY <1>0
  <2>2. i + 1 = Len(l.keys) + 1 \/ i + 1 \in 1 .. Len(l.keys) BY <1>0
  <2>3. a = None \/ (a \in Keys(l) /\ a \in Groups) BY <2>1, KeyAtFact
  <2>4. b = None \/ (b \in Keys(l) /\ b \in Groups) BY <2>2, KeyAtFact
  <2> HIDE DEF a, b
  <2> QED BY <2>3, <2>4
<1>3. Len(l.keys) = 0 => a = None /\ b = None
  <2> SUFFICES ASSUME Len(l.keys) = 0 PROVE a = None /\ b = None OBVIOUS
  <2>1. i = 0 /\ i + 1 = Len(l.keys) + 1 OBVIOUS
  <2> QED BY <2>1, KeyAtFact
<1>4. m = [head |-> HeadOf(l), tail |-> TailOf(l), numElements |-> Len(l.keys),
           elements |-> old, values |-> l.values]
  BY DEF StorageOf
<1>5. old = [h \in Groups |-> Element(PreviousOf(l, h), NextOf(l, h), Listed(l, h))]
  BY DEF StorageOf
<1>6. new = [h \in Groups |-> Element(PreviousOf(r, h), NextOf(r, h), Listed(r, h))]
  BY DEF StorageOf
<1>8. StorageOf(r) = [head |-> HeadOf(r), tail |-> TailOf(r), numElements |-> Len(r.keys),
                      elements |-> new, values |-> r.values]
  BY DEF StorageOf
<1>9. new[g] = Element(a, b, Present)
  <2>1. Listed(r, g) = Present BY DEF Listed
  <2>2. new[g] = Element(PreviousOf(r, g), NextOf(r, g), Listed(r, g)) BY <1>6
  <2> HIDE DEF a, b
  <2> QED BY <1>1, <2>1, <2>2, Zenon
<1>10. \A h \in Groups : h # g => Listed(r, h) = Listed(l, h) BY DEF Listed
<1> HIDE DEF a, b, m, old, new
<1>11. linked = new
  <2> DEFINE p == [h \in Groups |-> PreviousOf(l, h)]
             n == [h \in Groups |-> NextOf(l, h)]
             z == [h \in Groups |-> Listed(l, h)]
             p2 == [h \in Groups |-> PreviousOf(r, h)]
             n2 == [h \in Groups |-> NextOf(r, h)]
             z2 == [h \in Groups |-> Listed(r, h)]
             e == Element(a, b, Present)
  <2>1. old = Elements(p, n, z) BY <1>5 DEF Elements
  <2>2. new = Elements(p2, n2, z2) BY <1>6 DEF Elements
  <2>3. \A h \in Groups : h # g => /\ z2[h] = z[h]
                                   /\ n2[h] = IF h = a THEN g ELSE n[h]
                                   /\ p2[h] = IF h = b THEN g ELSE p[h]
    BY <1>1, <1>10
  <2>4. e = Element(p2[g], n2[g], z2[g]) BY <1>6, <1>9
  <2> HIDE DEF p, n, z, p2, n2, z2, e
  <2>5. g \in Groups OBVIOUS
  <2>6. SetElement(SetPrevious(SetNext(Elements(p, n, z), a, g), b, g), g, e)
          = Elements(p2, n2, z2)
    BY <1>2, <2>3, <2>4, <2>5, SplicedElements
  <2> QED BY <2>1, <2>2, <2>6 DEF e
<1>12. old = m.elements /\ m.numElements = Len(l.keys) /\ m.head = HeadOf(l) /\ m.tail = TailOf(l)
  BY <1>4
<1> DEFINE gap == <<a, b>>
<1>13. Link(m, g, gap) =
         SetList(m, IF a = None THEN g ELSE m.tail, IF b = None THEN g ELSE m.head, linked,
                 m.numElements + 1)
  <2>1. gap[1] = a /\ gap[2] = b OBVIOUS
  <2> HIDE DEF gap
  <2>2. m.numElements = 0 => gap[1] = None /\ gap[2] = None BY <1>3, <1>12, <2>1
  <2> QED BY <1>12, <2>1, <2>2, LinkParts
<1> HIDE DEF linked, gap
<1>14. Link(m, g, gap) = SetList(m, TailOf(r), HeadOf(r), new, Len(r.keys))
  BY <1>1, <1>11, <1>12, <1>13
<1>15. Link(m, g, gap) =
         [head |-> HeadOf(r), tail |-> TailOf(r), numElements |-> Len(r.keys),
          elements |-> new, values |-> l.values]
  BY <1>4, <1>14 DEF SetList
<1>16. Linked(m, g, value, gap) =
         [head |-> HeadOf(r), tail |-> TailOf(r), numElements |-> Len(r.keys),
          elements |-> new, values |-> [l.values EXCEPT ![g] = value]]
  BY <1>15 DEF Linked
<1>17. Linked(m, g, value, gap) = StorageOf(r) BY <1>7, <1>8, <1>16
<1> QED BY <1>e, <1>17 DEF a, b, m, gap

(* Putting a removed key back at its place gives the list it was removed   *)
(* from.                                                                   *)
LEMMA PutBack ==
  ASSUME NEW l, Good(l), NEW g \in Keys(l)
  PROVE  /\ Position(l, g) - 1 \in 0 .. Len(Remove(l, g).keys)
         /\ l.values[g] \in Nat
         /\ l = Put(Remove(l, g), g, l.values[g], Position(l, g) - 1)
<1> DEFINE s == l.keys
           p == Position(l, g)
           n == Len(s)
           d == DropAt(s, p)
           t == InsertAfter(d, p - 1, g)
<1>1. s \in Seq(Groups) /\ l.values \in [Groups -> Nat] /\ n \in Nat /\ g \in Groups
  BY KeyAtFact DEF Good, Lists
<1>2. p \in 1 .. n /\ s[p] = g BY <1>1, PositionFact
<1>3. l = [keys |-> s, values |-> l.values] BY DEF Good, Lists
<1>4. Remove(l, g) = [keys |-> d, values |-> [l.values EXCEPT ![g] = 0]] BY DEF Remove
<1> HIDE DEF s, p
<1>5. /\ d \in Seq(Groups) /\ Len(d) = n - 1
      /\ \A j \in 1 .. n - 1 : d[j] = IF j < p THEN s[j] ELSE s[j + 1]
  BY <1>1, <1>2, DropFact
<1> HIDE DEF d, n
<1>6. p - 1 \in 0 .. Len(d) /\ p \in Nat BY <1>1, <1>2, <1>5
<1> DEFINE q == p - 1
<1>7. /\ t \in Seq(Groups) /\ Len(t) = Len(d) + 1 /\ t[q + 1] = g
      /\ \A j \in 1 .. q : t[j] = d[j]
      /\ \A j \in (q + 2) .. (Len(d) + 1) : t[j] = d[j - 1]
  <2>1. t = InsertAfter(d, q, g) BY <1>6
  <2>3. q \in 0 .. Len(d) /\ d \in Seq(Groups) /\ g \in Groups BY <1>1, <1>5, <1>6
  <2> HIDE DEF t, q
  <2>2. /\ InsertAfter(d, q, g) \in Seq(Groups)
        /\ Len(InsertAfter(d, q, g)) = Len(d) + 1 /\ InsertAfter(d, q, g)[q + 1] = g
        /\ \A j \in 1 .. q : InsertAfter(d, q, g)[j] = d[j]
        /\ \A j \in (q + 2) .. (Len(d) + 1) : InsertAfter(d, q, g)[j] = d[j - 1]
    BY <2>3, InsertAfterFact, Zenon
  <2> QED BY <2>1, <2>2
<1> HIDE DEF t
<1>8. t = s
  <2>1. \A j \in 1 .. n : t[j] = s[j]
    <3> SUFFICES ASSUME NEW j \in 1 .. n PROVE t[j] = s[j] OBVIOUS
    <3>1. CASE j < p
      <4>1. j \in 1 .. q /\ j \in 1 .. n - 1 BY <1>1, <1>2, <1>6, <3>1
      <4> QED BY <1>5, <1>7, <3>1, <4>1
    <3>2. CASE j = p
      <4>1. q + 1 = p BY <1>6
      <4> QED BY <1>2, <1>7, <3>2, <4>1
    <3>3. CASE j > p
      <4>1. /\ j \in (q + 2) .. (Len(d) + 1) /\ j - 1 \in 1 .. n - 1 /\ ~(j - 1 < p)
            /\ j - 1 + 1 = j
        BY <1>1, <1>2, <1>5, <1>6, <3>3
      <4> QED BY <1>5, <1>7, <4>1
    <3>4. j \in Nat /\ p \in Nat BY <1>1, <1>6
    <3> QED BY <3>1, <3>2, <3>3, <3>4
  <2>2. Len(t) = n BY <1>1, <1>5, <1>7
  <2>3. DOMAIN s = 1 .. n /\ DOMAIN t = 1 .. n BY <1>1, <1>7, <2>2 DEF n
  <2>4. s = [j \in 1 .. n |-> s[j]] /\ t = [j \in 1 .. n |-> t[j]] BY <1>1, <1>7, <2>3
  <2> QED BY <2>1, <2>4
<1>9. [[l.values EXCEPT ![g] = 0] EXCEPT ![g] = l.values[g]] = l.values BY <1>1
<1>10. Put(Remove(l, g), g, l.values[g], p - 1) =
         [keys |-> t, values |-> [[l.values EXCEPT ![g] = 0] EXCEPT ![g] = l.values[g]]]
  BY <1>4 DEF Put, t
<1>11. l = Put(Remove(l, g), g, l.values[g], p - 1) BY <1>3, <1>8, <1>9, <1>10
<1>12. Remove(l, g).keys = d /\ l.values[g] \in Nat BY <1>1, <1>4
<1> QED BY <1>6, <1>11, <1>12 DEF p

(* Unlinking a key is removing it from the list.                           *)
LEMMA UnlinkFact ==
  ASSUME NEW l, Good(l), NEW g \in Keys(l)
  PROVE  Removed(StorageOf(l), g) = StorageOf(Remove(l, g))
<1> DEFINE r == Remove(l, g)
           i == Position(l, g) - 1
           a == KeyAt(r, i)
           b == KeyAt(r, i + 1)
           m == StorageOf(l)
           old == m.elements
           new == StorageOf(r).elements
           unlinked == SetElement(SetPrevious(SetNext(old, a, b), b, a), g, NoElement)
<1>1. /\ Good(r) /\ Keys(r) = Keys(l) \ {g} /\ i \in 0 .. Len(r.keys)
      /\ l = Put(r, g, l.values[g], i) /\ l.values[g] \in Nat /\ g \in Groups
  BY RemoveFact, PutBack, KeyAtFact
<1>13. r.values = [l.values EXCEPT ![g] = 0] BY DEF Remove
<1> HIDE DEF r, i
<1>2. /\ Len(l.keys) = Len(r.keys) + 1
      /\ NextOf(l, g) = b /\ PreviousOf(l, g) = a
      /\ \A h \in Groups : h # g =>
           /\ NextOf(l, h) = IF h = a THEN g ELSE NextOf(r, h)
           /\ PreviousOf(l, h) = IF h = b THEN g ELSE PreviousOf(r, h)
      /\ TailOf(l) = IF a = None THEN g ELSE TailOf(r)
      /\ HeadOf(l) = IF b = None THEN g ELSE HeadOf(r)
  <2>1. g \in Groups /\ g \notin Keys(r) /\ \A h : h \in Keys(l) <=> h \in Keys(r) \/ h = g
    BY <1>1
  <2> DEFINE v == l.values[g]
  <2>2. Good(r) /\ i \in 0 .. Len(r.keys) /\ l = Put(r, g, v, i) BY <1>1
  <2> HIDE DEF v
  <2>3. Good(Put(r, g, v, i)) BY <2>2
  <2>4. \A h : h \in Keys(Put(r, g, v, i)) <=> h \in Keys(r) \/ h = g BY <2>1, <2>2
  <2>5. Spliced(r, Put(r, g, v, i), g, a, b) BY <2>1, <2>2, <2>3, <2>4, SplicedFact, Zenon
  <2>6. Spliced(r, l, g, a, b) BY <2>2, <2>5
  <2> HIDE DEF a, b
  <2> QED BY <2>6 DEF Spliced
<1>0. Len(r.keys) \in Nat BY <1>1, KeyAtFact
<1>3. /\ a # None => a \in Groups /\ a \in Keys(r) /\ NextOf(r, a) = b
      /\ a = None => TailOf(r) = b
  <2>1. CASE i = 0
    <3>1. a = None BY <1>1, <2>1, KeyAtFact
    <3> QED BY <2>1, <3>1 DEF TailOf
  <2>2. CASE i # 0
    <3>1. i \in 1 .. Len(r.keys) BY <1>0, <1>1, <2>2
    <3>2. a = r.keys[i] BY <1>1, <3>1, KeyAtFact
    <3> QED BY <1>1, <3>1, <3>2, NeighbourFact
  <2> QED BY <2>1, <2>2
<1>4. /\ b # None => b \in Groups /\ b \in Keys(r) /\ PreviousOf(r, b) = a
      /\ b = None => HeadOf(r) = a
  <2>1. CASE i = Len(r.keys)
    <3>1. b = None BY <1>1, <2>1, KeyAtFact
    <3> QED BY <2>1, <3>1 DEF HeadOf
  <2>2. CASE i # Len(r.keys)
    <3>1. i + 1 \in 1 .. Len(r.keys) /\ i + 1 - 1 = i BY <1>0, <1>1, <2>2
    <3>2. b = r.keys[i + 1] BY <1>1, <3>1, KeyAtFact
    <3> QED BY <1>1, <3>1, <3>2, NeighbourFact
  <2> QED BY <2>1, <2>2
<1>5. m = [head |-> HeadOf(l), tail |-> TailOf(l), numElements |-> Len(l.keys),
           elements |-> old, values |-> l.values]
  BY DEF StorageOf
<1>6. old = [h \in Groups |-> Element(PreviousOf(l, h), NextOf(l, h), Listed(l, h))]
  BY DEF StorageOf
<1>7. new = [h \in Groups |-> Element(PreviousOf(r, h), NextOf(r, h), Listed(r, h))]
  BY DEF StorageOf
<1>8. StorageOf(r) = [head |-> HeadOf(r), tail |-> TailOf(r), numElements |-> Len(r.keys),
                      elements |-> new, values |-> r.values]
  BY DEF StorageOf
<1>9. NoElement = Element(PreviousOf(r, g), NextOf(r, g), Listed(r, g))
  <2>1. Listed(r, g) = Absent BY <1>1 DEF Listed
  <2>2. PreviousOf(r, g) = None /\ NextOf(r, g) = None BY <1>1 DEF PreviousOf, NextOf
  <2>3. NoElement = Element(None, None, Absent) BY DEF NoElement, Element, Absent
  <2> QED BY <2>1, <2>2, <2>3
<1>10. \A h \in Groups : h # g => Listed(r, h) = Listed(l, h) BY <1>1 DEF Listed
<1>14. \A h \in Groups : h # g =>
         /\ NextOf(r, h) = IF h = a THEN b ELSE NextOf(l, h)
         /\ PreviousOf(r, h) = IF h = b THEN a ELSE PreviousOf(l, h)
  <2> HIDE DEF a, b, m, old, new
  <2> QED BY <1>2, <1>3, <1>4
<1>15. a \in Groups \cup {None} /\ a # g /\ b \in Groups \cup {None} /\ b # g
  <2> HIDE DEF a, b
  <2> QED BY <1>1, <1>3, <1>4
<1> HIDE DEF a, b, m, old, new
<1>11. unlinked = new
  <2> DEFINE p == [h \in Groups |-> PreviousOf(l, h)]
             n == [h \in Groups |-> NextOf(l, h)]
             z == [h \in Groups |-> Listed(l, h)]
             p2 == [h \in Groups |-> PreviousOf(r, h)]
             n2 == [h \in Groups |-> NextOf(r, h)]
             z2 == [h \in Groups |-> Listed(r, h)]
  <2>1. old = Elements(p, n, z) BY <1>6 DEF Elements
  <2>2. new = Elements(p2, n2, z2) BY <1>7 DEF Elements
  <2>3. \A h \in Groups : h # g => /\ z2[h] = z[h]
                                   /\ n2[h] = IF h = a THEN b ELSE n[h]
                                   /\ p2[h] = IF h = b THEN a ELSE p[h]
    BY <1>10, <1>14
  <2>4. NoElement = Element(p2[g], n2[g], z2[g]) BY <1>1, <1>9
  <2> HIDE DEF p, n, z, p2, n2, z2
  <2>5. g \in Groups BY <1>1
  <2>6. SetElement(SetPrevious(SetNext(Elements(p, n, z), a, b), b, a), g, NoElement)
          = Elements(p2, n2, z2)
    BY <1>15, <2>3, <2>4, <2>5, SplicedElements
  <2> QED BY <2>1, <2>2, <2>6
<1>12. /\ old = m.elements /\ m.numElements = Len(l.keys) /\ m.head = HeadOf(l)
       /\ m.tail = TailOf(l) /\ m.elements[g].previousKey = a /\ m.elements[g].nextKey = b
  <2>1. m.elements = old BY <1>5
  <2>2. old[g] = Element(a, b, Listed(l, g)) BY <1>1, <1>2, <1>6
  <2>3. Element(a, b, Listed(l, g)).previousKey = a /\ Element(a, b, Listed(l, g)).nextKey = b
    BY DEF Element
  <2>4. old[g].previousKey = a /\ old[g].nextKey = b BY <2>2, <2>3, Zenon
  <2> QED BY <1>5, <2>1, <2>4
<1>16. Unlink(m, g) =
         SetList(m, IF a = None THEN b ELSE m.tail, IF b = None THEN a ELSE m.head, unlinked,
                 m.numElements - 1)
  BY <1>12, UnlinkParts
<1> HIDE DEF unlinked
<1>17. Unlink(m, g) = SetList(m, TailOf(r), HeadOf(r), new, Len(r.keys))
  <2>1. m.numElements - 1 = Len(r.keys) BY <1>0, <1>2, <1>12
  <2>2. (IF a = None THEN b ELSE m.tail) = TailOf(r) BY <1>2, <1>3, <1>12
  <2>3. (IF b = None THEN a ELSE m.head) = HeadOf(r) BY <1>2, <1>4, <1>12
  <2> QED BY <1>11, <1>16, <2>1, <2>2, <2>3
<1>18. Unlink(m, g) =
         [head |-> HeadOf(r), tail |-> TailOf(r), numElements |-> Len(r.keys),
          elements |-> new, values |-> l.values]
  BY <1>5, <1>17 DEF SetList
<1>19. Removed(m, g) =
         [head |-> HeadOf(r), tail |-> TailOf(r), numElements |-> Len(r.keys),
          elements |-> new, values |-> [l.values EXCEPT ![g] = 0]]
  BY <1>18 DEF Removed
<1> QED BY <1>8, <1>13, <1>19 DEF m, r

(* Inserting along the pointers is inserting into the list.                *)
LEMMA InsertedFact ==
  ASSUME NEW l, Good(l), NEW g \in Groups, NEW value \in Nat,
         NEW lesser \in Groups \cup {None}, NEW greater \in Groups \cup {None},
         CanInsert(l, g, value, lesser, greater)
  PROVE  Inserted(StorageOf(l), g, value, lesser, greater)
           = StorageOf(Insert(l, g, value, lesser, greater))
<1> DEFINE m == StorageOf(l)
           r == Insert(l, g, value, lesser, greater)
           gap == GapFor(l, value, lesser, greater)
<1>1. PICK i \in 0 .. Len(l.keys) : gap = <<KeyAt(l, i), KeyAt(l, i + 1)>> /\ r = Put(l, g, value, i)
  <2>1. \E i \in 0 .. Len(l.keys) :
           /\ GapFor(l, value, lesser, greater) = <<KeyAt(l, i), KeyAt(l, i + 1)>>
           /\ ValueBetween(l, value, <<KeyAt(l, i), KeyAt(l, i + 1)>>)
           /\ Insert(l, g, value, lesser, greater) = Put(l, g, value, i)
    BY InsertIsPut
  <2> HIDE DEF r, gap
  <2> QED BY <2>1 DEF r, gap
<1>2. Good(r) /\ (\A h : h \in Keys(r) <=> h \in Keys(l) \/ h = g) /\ g \notin Keys(l)
  <2>1. Good(r) /\ Keys(r) = Keys(l) \cup {g} BY InsertFact
  <2>2. g \notin Keys(l) BY DEF CanInsert
  <2> HIDE DEF r
  <2> QED BY <2>1, <2>2
<1>3. LesserAndGreater(m, value, lesser, greater) = gap BY GapsAgree
<1> HIDE DEF r, gap
<1>4. Linked(m, g, value, <<KeyAt(l, i), KeyAt(l, i + 1)>>) = StorageOf(Put(l, g, value, i))
  <2>1. Good(Put(l, g, value, i)) BY <1>1, <1>2
  <2>2. \A h : h \in Keys(Put(l, g, value, i)) <=> h \in Keys(l) \/ h = g BY <1>1, <1>2
  <2> QED BY <1>2, <2>1, <2>2, LinkFact, Zenon
<1>5. Inserted(m, g, value, lesser, greater) = Linked(m, g, value, gap)
  <2> HIDE DEF m
  <2> QED BY <1>3, Zenon DEF Inserted, Linked
<1> HIDE DEF m
<1>6. Inserted(m, g, value, lesser, greater) = StorageOf(r)
  <2>1. Inserted(m, g, value, lesser, greater)
          = Linked(m, g, value, <<KeyAt(l, i), KeyAt(l, i + 1)>>)
    BY <1>1, <1>5, Zenon
  <2> QED BY <1>1, <1>4, <2>1, Zenon
<1> QED BY <1>6 DEF m, r

(* The operators of OrderedList are those of SortedGroups.                 *)
LEMMA SameList ==
  ASSUME NEW l, NEW g, NEW value, NEW lesser, NEW greater
  PROVE  /\ OrderedKeys!Keys(l) = Keys(l)
         /\ OrderedKeys!EmptyList = EmptyList
         /\ OrderedKeys!CanInsert(l, g, value, lesser, greater) <=> CanInsert(l, g, value, lesser, greater)
         /\ OrderedKeys!Insert(l, g, value, lesser, greater) = Insert(l, g, value, lesser, greater)
         /\ OrderedKeys!Remove(l, g) = Remove(l, g)
         /\ OrderedKeys!CanUpdate(l, g, value, lesser, greater) <=> CanUpdate(l, g, value, lesser, greater)
         /\ OrderedKeys!Update(l, g, value, lesser, greater) = Update(l, g, value, lesser, greater)
<1>1. OrderedKeys!Keys(l) = Keys(l) BY DEF OrderedKeys!Keys, Keys
<1>2. OrderedKeys!EmptyList = EmptyList BY DEF OrderedKeys!EmptyList, EmptyList
<1>3. \A k, h : OrderedKeys!Position(k, h) = Position(k, h) BY DEF OrderedKeys!Position, Position
<1>4. \A k, i : OrderedKeys!KeyAt(k, i) = KeyAt(k, i) BY DEF OrderedKeys!KeyAt, KeyAt
<1>5. \A k, h : OrderedKeys!NextOf(k, h) = NextOf(k, h)
  BY <1>3, <1>4 DEF OrderedKeys!NextOf, NextOf, OrderedKeys!Keys, Keys
<1>6. \A k, h : OrderedKeys!PreviousOf(k, h) = PreviousOf(k, h)
  BY <1>3, <1>4 DEF OrderedKeys!PreviousOf, PreviousOf, OrderedKeys!Keys, Keys
<1>7. \A k : OrderedKeys!HeadOf(k) = HeadOf(k) /\ OrderedKeys!TailOf(k) = TailOf(k)
  BY <1>4 DEF OrderedKeys!HeadOf, HeadOf, OrderedKeys!TailOf, TailOf
<1>8. \A k : OrderedKeys!GapFor(k, value, lesser, greater) = GapFor(k, value, lesser, greater)
  BY <1>5, <1>6, <1>7 DEF OrderedKeys!GapFor, GapFor, OrderedKeys!ValueBetween, ValueBetween,
     OrderedKeys!NoGap, NoGap
<1>9. \A k : OrderedKeys!CanInsert(k, g, value, lesser, greater) <=> CanInsert(k, g, value, lesser, greater)
  BY <1>8 DEF OrderedKeys!CanInsert, CanInsert, OrderedKeys!Keys, Keys, OrderedKeys!NoGap, NoGap
<1>10. \A k : OrderedKeys!Insert(k, g, value, lesser, greater) = Insert(k, g, value, lesser, greater)
  <2>1. \A s, i : OrderedKeys!InsertAfter(s, i, g) = InsertAfter(s, i, g)
    BY DEF OrderedKeys!InsertAfter, InsertAfter
  <2>2. TAKE k
  <2> DEFINE gap == GapFor(k, value, lesser, greater)
             i == IF gap[1] = None THEN 0 ELSE Position(k, gap[1])
  <2>3. OrderedKeys!Insert(k, g, value, lesser, greater) =
          [keys |-> OrderedKeys!InsertAfter(k.keys, i, g), values |-> [k.values EXCEPT ![g] = value]]
    <3>1. OrderedKeys!GapFor(k, value, lesser, greater) = gap BY <1>8
    <3> HIDE DEF gap
    <3>2. OrderedKeys!Position(k, gap[1]) = Position(k, gap[1]) BY <1>3
    <3> QED BY <3>1, <3>2, Zenon DEF OrderedKeys!Insert
  <2>4. Insert(k, g, value, lesser, greater) =
          [keys |-> InsertAfter(k.keys, i, g), values |-> [k.values EXCEPT ![g] = value]]
    BY DEF Insert
  <2>5. OrderedKeys!InsertAfter(k.keys, i, g) = InsertAfter(k.keys, i, g) BY <2>1
  <2> HIDE DEF i
  <2> QED BY <2>3, <2>4, <2>5, Zenon
<1>11. OrderedKeys!Remove(l, g) = Remove(l, g)
  BY <1>3 DEF OrderedKeys!Remove, Remove, OrderedKeys!DropAt, DropAt
<1>12. OrderedKeys!Update(l, g, value, lesser, greater) = Update(l, g, value, lesser, greater)
  BY <1>10, <1>11 DEF OrderedKeys!Update, Update
<1>13. OrderedKeys!CanUpdate(l, g, value, lesser, greater) <=> CanUpdate(l, g, value, lesser, greater)
  BY <1>1, <1>9, <1>11 DEF OrderedKeys!CanUpdate, CanUpdate
<1> QED BY <1>1, <1>2, <1>9, <1>10, <1>11, <1>12, <1>13

(* One operation of the list: a removal, an insertion or an update.        *)
ListStep(l, r) ==
  \E g \in Groups :
    \/ g \in Keys(l) /\ r = Remove(l, g)
    \/ \E value \in Values, lesser, greater \in Groups \cup {None} :
         \/ CanInsert(l, g, value, lesser, greater) /\ r = Insert(l, g, value, lesser, greater)
         \/ CanUpdate(l, g, value, lesser, greater) /\ r = Update(l, g, value, lesser, greater)

(* Every operation on the pointers is that operation on the list.          *)
LEMMA StepFact ==
  ASSUME NEW l, Good(l), storage = StorageOf(l), LinkedNext
  PROVE  \E r : Good(r) /\ storage' = StorageOf(r) /\ ListStep(l, r)
<1> USE BoundsAssumption
<1> PICK g \in Groups :
      \/ RemoveKey(g)
      \/ \E value \in Values, lesser, greater \in Address :
           \/ InsertKey(g, value, lesser, greater)
           \/ UpdateKey(g, value, lesser, greater)
  BY Zenon DEF LinkedNext
<1>1. storage.elements[g].exists <=> g \in Keys(l) BY ViewsFact
<1>2. CASE RemoveKey(g)
  <2>1. g \in Keys(l) /\ storage' = Removed(storage, g) BY <1>1, <1>2, Zenon DEF RemoveKey
  <2>2. storage' = StorageOf(Remove(l, g)) BY <2>1, UnlinkFact
  <2>3. Good(Remove(l, g)) BY <2>1, RemoveFact
  <2>4. ListStep(l, Remove(l, g)) BY <2>1 DEF ListStep
  <2> QED BY <2>2, <2>3, <2>4
<1>3. ASSUME NEW value \in Values, NEW lesser \in Address, NEW greater \in Address,
             InsertKey(g, value, lesser, greater)
      PROVE  \E r : Good(r) /\ storage' = StorageOf(r) /\ ListStep(l, r)
  <2>0. value \in Nat /\ lesser \in Groups \cup {None} /\ greater \in Groups \cup {None}
    BY DEF Address
  <2> DEFINE r == Insert(l, g, value, lesser, greater)
  <2>1. CanInsert(l, g, value, lesser, greater)
    BY <1>3, <2>0, InsertableAgrees, Zenon DEF InsertKey
  <2>2. storage' = StorageOf(r)
    <3>1. storage' = Inserted(StorageOf(l), g, value, lesser, greater) BY <1>3, Zenon DEF InsertKey
    <3> QED BY <2>0, <2>1, <3>1, InsertedFact
  <2>3. Good(r) BY <2>0, <2>1, InsertFact
  <2>4. ListStep(l, r) BY <2>0, <2>1 DEF ListStep
  <2> QED BY <2>2, <2>3, <2>4
<1>4. ASSUME NEW value \in Values, NEW lesser \in Address, NEW greater \in Address,
             UpdateKey(g, value, lesser, greater)
      PROVE  \E r : Good(r) /\ storage' = StorageOf(r) /\ ListStep(l, r)
  <2>0. value \in Nat /\ lesser \in Groups \cup {None} /\ greater \in Groups \cup {None}
    BY DEF Address
  <2> DEFINE k == Remove(l, g)
             r == Insert(k, g, value, lesser, greater)
  <2>1. g \in Keys(l) /\ Insertable(Removed(storage, g), g, value, lesser, greater)
        /\ storage' = Inserted(Removed(storage, g), g, value, lesser, greater)
    BY <1>1, <1>4, Zenon DEF UpdateKey
  <2>2. Removed(storage, g) = StorageOf(k) BY <2>1, UnlinkFact
  <2>3. Good(k) BY <2>1, RemoveFact
  <2>5. r = Update(l, g, value, lesser, greater) BY DEF Update
  <2>6. CanInsert(k, g, value, lesser, greater) => CanUpdate(l, g, value, lesser, greater)
    BY <2>1 DEF CanUpdate
  <2> HIDE DEF k
  <2>7. CanInsert(k, g, value, lesser, greater)
    BY <2>0, <2>1, <2>2, <2>3, InsertableAgrees, Zenon
  <2>8. storage' = StorageOf(r) BY <2>0, <2>1, <2>2, <2>3, <2>7, InsertedFact
  <2>9. Good(r) BY <2>0, <2>3, <2>7, InsertFact
  <2> HIDE DEF r
  <2>10. ListStep(l, r) BY <2>0, <2>5, <2>6, <2>7 DEF ListStep
  <2> QED BY <2>8, <2>9, <2>10
<1> QED BY <1>2, <1>3, <1>4

(* The gap that two right hints lead to is found with either of them       *)
(* alone.                                                                  *)
LEMMA HintFact ==
  ASSUME NEW r, Good(r), NEW g \in Groups, g \notin Keys(r), NEW value \in Nat,
         NEW lesser \in Keys(r) \cup {None}, NEW greater \in Keys(r) \cup {None},
         NEW other \in Keys(r) \cup {None},
         GapFor(r, value, lesser, greater) # NoGap,
         <<lesser, greater>> = GapFor(r, value, lesser, greater)
  PROVE  /\ lesser # None \/ other # None => CanInsert(r, g, value, lesser, other)
         /\ other # None \/ greater # None => CanInsert(r, g, value, other, greater)
<1> DEFINE n == Len(r.keys)
<1>0. n \in Nat BY KeyAtFact
<1>1. PICK i \in 0 .. n : /\ <<lesser, greater>> = <<KeyAt(r, i), KeyAt(r, i + 1)>>
                         /\ ValueBetween(r, value, <<KeyAt(r, i), KeyAt(r, i + 1)>>)
  <2>1. \E i \in 0 .. Len(r.keys) :
           /\ GapFor(r, value, lesser, greater) = <<KeyAt(r, i), KeyAt(r, i + 1)>>
           /\ ValueBetween(r, value, <<KeyAt(r, i), KeyAt(r, i + 1)>>)
    BY GapFact
  <2> QED BY <2>1, Zenon
<1>2. lesser = KeyAt(r, i) /\ greater = KeyAt(r, i + 1) BY <1>1
<1>3. ValueBetween(r, value, <<lesser, greater>>) BY <1>1, <1>2
<1>4. lesser = None => greater = TailOf(r)
  <2> SUFFICES ASSUME lesser = None PROVE greater = TailOf(r) OBVIOUS
  <2>1. i \notin 1 .. n BY <1>2, NeighbourFact, KeyAtFact
  <2>2. i = 0 BY <1>0, <2>1
  <2> QED BY <1>2, <2>2 DEF TailOf
<1>5. lesser # None => NextOf(r, lesser) = greater
  <2> SUFFICES ASSUME lesser # None PROVE NextOf(r, lesser) = greater OBVIOUS
  <2>1. i # 0 BY <1>2, KeyAtFact
  <2>2. i \in 1 .. n BY <1>0, <2>1
  <2> QED BY <1>2, <2>2, NeighbourFact, KeyAtFact
<1>6. greater = None => lesser = HeadOf(r)
  <2> SUFFICES ASSUME greater = None PROVE lesser = HeadOf(r) OBVIOUS
  <2>1. i + 1 \notin 1 .. n BY <1>2, NeighbourFact, KeyAtFact
  <2>2. i = n BY <1>0, <2>1
  <2> QED BY <1>2, <2>2 DEF HeadOf
<1>7. greater # None => PreviousOf(r, greater) = lesser
  <2> SUFFICES ASSUME greater # None PROVE PreviousOf(r, greater) = lesser OBVIOUS
  <2>1. i # n BY <1>2, KeyAtFact
  <2>2. i + 1 \in 1 .. n /\ i + 1 - 1 = i BY <1>0, <2>1
  <2> QED BY <1>2, <2>2, NeighbourFact, KeyAtFact
<1>8. GapFor(r, value, lesser, other) # NoGap
  BY <1>3, <1>4, <1>5 DEF GapFor, NoGap
<1>9. GapFor(r, value, other, greater) # NoGap
  BY <1>3, <1>6, <1>7 DEF GapFor, NoGap
<1>10. g \notin {lesser, greater, other}
  <2>1. g # None OBVIOUS
  <2> QED BY <2>1
<1>11. ASSUME lesser # None \/ other # None PROVE CanInsert(r, g, value, lesser, other)
  BY <1>8, <1>10, <1>11 DEF CanInsert
<1>12. ASSUME other # None \/ greater # None PROVE CanInsert(r, g, value, other, greater)
  BY <1>9, <1>10, <1>12 DEF CanInsert
<1> QED BY <1>11, <1>12

(* What a walk has come to after k steps along the keys in at.             *)
Place(at, k) == [at |-> at[k], steps |-> k]

(* The steps a walk takes when d lead to its end.                          *)
Reached(d, limit) == IF limit <= d THEN limit ELSE d

(* The two fields of a place.                                              *)
LEMMA PlaceFact ==
  ASSUME NEW at, NEW k
  PROVE  Place(at, k).at = at[k] /\ Place(at, k).steps = k
BY DEF Place

(* A walk takes d steps, or as many as the limit allows. It is a recursive *)
(* function: see HeadNFact.                                                *)
LEMMA WalkFact ==
  ASSUME NEW limit \in Nat, NEW d \in Nat, NEW g, NEW at, NEW onwards, NEW passed,
         at[0] = g,
         \A j \in 1 .. d : at[j] = onwards[at[j - 1]] /\ at[j] \in passed,
         onwards[at[d]] \notin passed
  PROVE  Walk(g, limit, onwards, passed) = Place(at, Reached(d, limit))
<1> DEFINE Obeys(f) == f = [n \in 0 .. limit |->
                              IF n = 0 THEN [at |-> g, steps |-> 0]
                              ELSE LET p == f[n - 1]
                                   IN  IF p.steps = n - 1 /\ onwards[p.at] \in passed
                                       THEN [at |-> onwards[p.at], steps |-> n] ELSE p]
           place == CHOOSE f : Obeys(f)
           Onto(n, p) == IF p.steps = n - 1 /\ onwards[p.at] \in passed
                         THEN [at |-> onwards[p.at], steps |-> n] ELSE p
           h == [n \in 0 .. limit |-> Place(at, Reached(d, n))]
<1>1. Walk(g, limit, onwards, passed) = place[limit] BY DEF Walk
<1>2. ASSUME NEW n \in 1 .. limit
      PROVE  Onto(n, Place(at, Reached(d, n - 1))) = Place(at, Reached(d, n))
  <2>0. n - 1 \in Nat OBVIOUS
  <2>1. CASE n <= d
    <3>1. Reached(d, n - 1) = n - 1 /\ Reached(d, n) = n /\ n \in 1 .. d
      BY <2>0, <2>1 DEF Reached
    <3>2. at[n] = onwards[at[n - 1]] /\ at[n] \in passed BY <3>1
    <3>3. Place(at, n) = [at |-> onwards[at[n - 1]], steps |-> n] BY <3>2 DEF Place
    <3> QED BY <3>1, <3>2, <3>3, PlaceFact
  <2>2. CASE n = d + 1
    <3>1. Reached(d, n - 1) = d /\ Reached(d, n) = d BY <2>0, <2>2 DEF Reached
    <3> QED BY <3>1, PlaceFact
  <2>3. CASE n > d + 1
    <3>1. Reached(d, n - 1) = d /\ Reached(d, n) = d /\ n - 1 # d BY <2>0, <2>3 DEF Reached
    <3> QED BY <3>1, PlaceFact
  <2> QED BY <2>1, <2>2, <2>3
<1>3. [at |-> g, steps |-> 0] = Place(at, Reached(d, 0)) BY DEF Place, Reached
<1>4. Obeys(h)
  <2>1. \A n \in 1 .. limit : h[n - 1] = Place(at, Reached(d, n - 1)) OBVIOUS
  <2>2. \A n \in 0 .. limit : n = 0 \/ n \in 1 .. limit OBVIOUS
  <2>3. \A n \in 0 .. limit :
          Place(at, Reached(d, n)) = IF n = 0 THEN [at |-> g, steps |-> 0] ELSE Onto(n, h[n - 1])
    <3> HIDE DEF h, Onto
    <3> QED BY <1>2, <1>3, <2>1, <2>2
  <2> QED BY <2>3
<1>5. Obeys(place)
  <2> HIDE DEF Obeys
  <2> QED BY <1>4
<1>6. /\ place[0] = [at |-> g, steps |-> 0]
      /\ \A n \in 1 .. limit : place[n] = Onto(n, place[n - 1])
  <2> HIDE DEF place
  <2>1. \A n \in 1 .. limit : n \in 0 .. limit /\ n # 0 OBVIOUS
  <2> QED BY <1>5, <2>1
<1> HIDE DEF place, Obeys, h, Onto
<1> DEFINE wrong == {n \in 0 .. limit : place[n] # Place(at, Reached(d, n))}
<1>7. wrong = {}
  <2> SUFFICES ASSUME wrong # {} PROVE FALSE OBVIOUS
  <2>1. wrong \subseteq Nat OBVIOUS
  <2>2. PICK n \in wrong : \A j \in wrong : n <= j
    <3> HIDE DEF wrong
    <3> QED BY <2>1, MinExists
  <2>3. n \in 0 .. limit /\ place[n] # Place(at, Reached(d, n)) BY <2>2
  <2>4. CASE n = 0 BY <1>3, <1>6, <2>3, <2>4
  <2>5. CASE n # 0
    <3>1. n \in 1 .. limit /\ n - 1 \in 0 .. limit /\ ~(n <= n - 1) BY <2>3, <2>5
    <3>2. place[n - 1] = Place(at, Reached(d, n - 1)) BY <2>2, <3>1
    <3> QED BY <1>2, <1>6, <2>3, <3>1, <3>2
  <2> QED BY <2>4, <2>5
<1>8. place[limit] = Place(at, Reached(d, limit)) BY <1>7
<1> QED BY <1>1, <1>8

(* The walk towards the head finds the neighbours of the closed form.      *)
LEMMA UpwardsFact ==
  ASSUME NEW l, Good(l), NEW g \in Keys(l), NEW value \in Nat, NEW limit \in Nat
  PROVE  WalkIncreased(StorageOf(l), g, value, limit) = NeighboursIfIncreased(l, g, value, limit)
<1> DEFINE m == StorageOf(l)
           n == Len(l.keys)
           p == Position(l, g)
           Smaller(i) == i \in DOMAIN l.keys /\ l.values[l.keys[i]] < value
           Stops(i) == ~Smaller(i + 1) /\ \A j \in p + 1 .. i : Smaller(j)
           stop == CHOOSE i \in p .. n : Stops(i)
           d == stop - p
           passed == {k \in Groups : value > m.values[k]}
           w == Walk(g, limit, ToHead(m), passed)
<1>1. /\ n \in Nat /\ DOMAIN l.keys = 1 .. n /\ p \in 1 .. n /\ l.keys[p] = g
      /\ g \in Groups /\ g # None /\ l.values \in [Groups -> Nat]
  BY KeyAtFact, PositionFact DEF Good, Lists
<1>2. stop \in p .. n /\ Stops(stop)
  <2> DEFINE ends == {i \in p .. n : ~Smaller(i + 1)}
  <2>1. n \in ends /\ ends \subseteq Nat BY <1>1
  <2>2. PICK i \in ends : \A j \in ends : i <= j
    <3> HIDE DEF ends
    <3> QED BY <2>1, MinExists
  <2>3. i \in p .. n /\ ~Smaller(i + 1) BY <2>2
  <2>4. ASSUME NEW j \in p + 1 .. i PROVE Smaller(j)
    <3>1. j - 1 \in p .. n /\ ~(i <= j - 1) /\ j - 1 + 1 = j BY <1>1, <2>3
    <3> QED BY <2>2, <3>1
  <2>5. Stops(i) BY <2>3, <2>4
  <2> HIDE DEF Stops
  <2> QED BY <2>3, <2>5
<1>3. NeighboursIfIncreased(l, g, value, limit) =
        IF d >= limit THEN <<None, None>>
        ELSE <<KeyAt(l, IF stop = p THEN p - 1 ELSE stop), KeyAt(l, stop + 1)>>
  BY DEF NeighboursIfIncreased
<1>4. WalkIncreased(m, g, value, limit) =
        IF w.steps = limit THEN <<None, None>>
        ELSE <<IF w.at = g THEN Before(m, g) ELSE w.at, After(m, w.at)>>
  BY DEF WalkIncreased
<1> HIDE DEF stop
<1>5. \A i \in 1 .. n : /\ Smaller(i) <=> l.keys[i] \in passed
                        /\ ToHead(m)[l.keys[i]] = KeyAt(l, i + 1)
  <2> SUFFICES ASSUME NEW i \in 1 .. n
               PROVE  /\ Smaller(i) <=> l.keys[i] \in passed
                      /\ ToHead(m)[l.keys[i]] = KeyAt(l, i + 1)
    OBVIOUS
  <2>1. /\ l.keys[i] \in Groups /\ l.keys[i] # None /\ l.values[l.keys[i]] \in Nat
        /\ NextOf(l, l.keys[i]) = KeyAt(l, i + 1)
    BY <1>1, NeighbourFact
  <2>2. m.values = l.values /\ After(m, l.keys[i]) = KeyAt(l, i + 1) BY <2>1, ViewsFact
  <2> HIDE DEF m
  <2>3. ToHead(m)[l.keys[i]] = After(m, l.keys[i]) BY <2>1 DEF ToHead, After, ElementOf
  <2> QED BY <1>1, <2>1, <2>2, <2>3
<1> DEFINE at == [j \in 0 .. d |-> l.keys[p + j]]
<1>6. d \in Nat /\ (\A j \in 0 .. d : p + j \in 1 .. n) BY <1>1, <1>2
<1>7. at[0] = g /\ at[d] = l.keys[stop]
  <2>1. p + 0 = p /\ p + d = stop /\ 0 \in 0 .. d /\ d \in 0 .. d BY <1>1, <1>2, <1>6
  <2> HIDE DEF d
  <2> QED BY <1>1, <2>1
<1>8. \A j \in 1 .. d : at[j] = ToHead(m)[at[j - 1]] /\ at[j] \in passed
  <2> SUFFICES ASSUME NEW j \in 1 .. d
               PROVE  at[j] = ToHead(m)[at[j - 1]] /\ at[j] \in passed
    OBVIOUS
  <2>1. /\ p + j \in 1 .. n /\ p + (j - 1) \in 1 .. n /\ p + (j - 1) + 1 = p + j
        /\ p + j \in p + 1 .. stop /\ j \in 0 .. d /\ j - 1 \in 0 .. d
    BY <1>1, <1>2, <1>6
  <2>2. at[j] = l.keys[p + j] /\ at[j - 1] = l.keys[p + (j - 1)] BY <2>1
  <2>3. Smaller(p + j) BY <1>2, <2>1
  <2>4. KeyAt(l, p + j) = l.keys[p + j] BY <2>1, KeyAtFact
  <2>5. Smaller(p + j) <=> l.keys[p + j] \in passed BY <1>5, <2>1
  <2>6. ToHead(m)[l.keys[p + (j - 1)]] = KeyAt(l, p + j) BY <1>5, <2>1
  <2> HIDE DEF at, passed, Smaller, m
  <2> QED BY <2>2, <2>3, <2>4, <2>5, <2>6
<1>9. ToHead(m)[at[d]] \notin passed
  <2>1. stop \in 1 .. n BY <1>1, <1>2
  <2>2. ToHead(m)[l.keys[stop]] = KeyAt(l, stop + 1) BY <1>5, <2>1
  <2>3. KeyAt(l, stop + 1) \notin passed
    <3>1. CASE stop = n
      <4>1. KeyAt(l, stop + 1) = None BY <3>1, KeyAtFact
      <4> QED BY <4>1
    <3>2. CASE stop # n
      <4>1. stop + 1 \in 1 .. n BY <1>1, <2>1, <3>2
      <4>2. KeyAt(l, stop + 1) = l.keys[stop + 1] BY <4>1, KeyAtFact
      <4>3. Smaller(stop + 1) <=> l.keys[stop + 1] \in passed BY <1>5, <4>1
      <4> HIDE DEF Smaller, passed
      <4> QED BY <1>2, <4>2, <4>3
    <3> QED BY <3>1, <3>2
  <2> HIDE DEF at, m, passed
  <2> QED BY <1>7, <2>2, <2>3
<1> HIDE DEF at, passed, Smaller, m, d
<1>10. w = Place(at, Reached(d, limit))
  <2> DEFINE onwards == ToHead(m)
  <2>1. w = Walk(g, limit, onwards, passed) OBVIOUS
  <2>2. d \in Nat /\ at[0] = g BY <1>6, <1>7
  <2>3. /\ \A j \in 1 .. d : at[j] = onwards[at[j - 1]] /\ at[j] \in passed
        /\ onwards[at[d]] \notin passed
    BY <1>8, <1>9
  <2> HIDE DEF w, onwards
  <2>4. Walk(g, limit, onwards, passed) = Place(at, Reached(d, limit))
    BY <2>2, <2>3, WalkFact
  <2> QED BY <2>1, <2>4
<1> HIDE DEF w
<1>11. w.steps = Reached(d, limit) /\ w.at = at[Reached(d, limit)] BY <1>10, PlaceFact
<1>12. CASE d >= limit
  <2>1. Reached(d, limit) = limit BY <1>6, <1>12 DEF Reached
  <2> QED BY <1>3, <1>4, <1>11, <1>12, <2>1 DEF m
<1>13. CASE ~(d >= limit)
  <2>1. Reached(d, limit) = d /\ d # limit BY <1>6, <1>13 DEF Reached
  <2>2. stop \in 1 .. n BY <1>1, <1>2
  <2>3. w.steps # limit /\ w.at = l.keys[stop] BY <1>7, <1>11, <2>1
  <2>4. l.keys[stop] = g <=> stop = p
    <3>1. Position(l, l.keys[stop]) = stop BY <1>1, <2>2, PositionFact
    <3> QED BY <1>1, <3>1
  <2>5. After(m, w.at) = KeyAt(l, stop + 1) BY <2>2, <2>3, NeighbourFact, ViewsFact DEF m
  <2>6. Before(m, g) = KeyAt(l, p - 1) BY <1>1, NeighbourFact, ViewsFact DEF m
  <2>7. KeyAt(l, stop) = l.keys[stop] BY <2>2, KeyAtFact
  <2>8. WalkIncreased(m, g, value, limit) =
          <<IF w.at = g THEN Before(m, g) ELSE w.at, After(m, w.at)>>
    BY <1>4, <2>3
  <2>9. WalkIncreased(m, g, value, limit) = NeighboursIfIncreased(l, g, value, limit)
    <3> HIDE DEF p
    <3> QED BY <1>3, <1>13, <2>3, <2>4, <2>5, <2>6, <2>7, <2>8
  <2> QED BY <2>9 DEF m
<1> QED BY <1>12, <1>13

(* The walk towards the tail finds the neighbours of the closed form.      *)
LEMMA DownwardsFact ==
  ASSUME NEW l, Good(l), NEW g \in Keys(l), NEW value \in Nat, NEW limit \in Nat
  PROVE  WalkDecreased(StorageOf(l), g, value, limit) = NeighboursIfDecreased(l, g, value, limit)
<1> DEFINE m == StorageOf(l)
           n == Len(l.keys)
           p == Position(l, g)
           Greater(i) == i \in DOMAIN l.keys /\ l.values[l.keys[i]] > value
           Stops(i) == ~Greater(i - 1) /\ \A j \in i .. p - 1 : Greater(j)
           stop == CHOOSE i \in 1 .. p : Stops(i)
           d == p - stop
           passed == {k \in Groups : value < m.values[k]}
           w == Walk(g, limit, ToTail(m), passed)
<1>1. /\ n \in Nat /\ DOMAIN l.keys = 1 .. n /\ p \in 1 .. n /\ l.keys[p] = g
      /\ g \in Groups /\ g # None /\ l.values \in [Groups -> Nat]
  BY KeyAtFact, PositionFact DEF Good, Lists
<1>2. stop \in 1 .. p /\ Stops(stop)
  <2> DEFINE ends == {i \in 1 .. p : ~Greater(i - 1)}
  <2>1. 1 \in ends /\ ends \subseteq Nat /\ \A j \in ends : j <= p
    <3>1. 0 \notin DOMAIN l.keys /\ 1 - 1 = 0 BY <1>1
    <3> QED BY <1>1, <3>1
  <2>2. PICK i \in ends : \A j \in ends : i >= j
    <3>1. p \in Nat /\ ends # {} BY <1>1, <2>1
    <3> HIDE DEF ends, p
    <3> QED BY <2>1, <3>1, MaxExists
  <2>3. i \in 1 .. p /\ ~Greater(i - 1) BY <2>2
  <2>4. ASSUME NEW j \in i .. p - 1 PROVE Greater(j)
    <3>1. j + 1 \in 1 .. p /\ ~(i >= j + 1) /\ j + 1 - 1 = j BY <1>1, <2>3
    <3> QED BY <2>2, <3>1
  <2>5. Stops(i) BY <2>3, <2>4
  <2> HIDE DEF Stops
  <2> QED BY <2>3, <2>5
<1>3. NeighboursIfDecreased(l, g, value, limit) =
        IF d >= limit THEN <<None, None>>
        ELSE <<KeyAt(l, stop - 1), KeyAt(l, IF stop = p THEN p + 1 ELSE stop)>>
  BY DEF NeighboursIfDecreased
<1>4. WalkDecreased(m, g, value, limit) =
        IF w.steps = limit THEN <<None, None>>
        ELSE <<Before(m, w.at), IF w.at = g THEN After(m, g) ELSE w.at>>
  BY DEF WalkDecreased
<1> HIDE DEF stop
<1>5. \A i \in 1 .. n : /\ Greater(i) <=> l.keys[i] \in passed
                        /\ ToTail(m)[l.keys[i]] = KeyAt(l, i - 1)
  <2> SUFFICES ASSUME NEW i \in 1 .. n
               PROVE  /\ Greater(i) <=> l.keys[i] \in passed
                      /\ ToTail(m)[l.keys[i]] = KeyAt(l, i - 1)
    OBVIOUS
  <2>1. /\ l.keys[i] \in Groups /\ l.keys[i] # None /\ l.values[l.keys[i]] \in Nat
        /\ PreviousOf(l, l.keys[i]) = KeyAt(l, i - 1)
    BY <1>1, NeighbourFact
  <2>2. m.values = l.values /\ Before(m, l.keys[i]) = KeyAt(l, i - 1) BY <2>1, ViewsFact
  <2> HIDE DEF m
  <2>3. ToTail(m)[l.keys[i]] = Before(m, l.keys[i]) BY <2>1 DEF ToTail, Before, ElementOf
  <2> QED BY <1>1, <2>1, <2>2, <2>3
<1> DEFINE at == [j \in 0 .. d |-> l.keys[p - j]]
<1>6. d \in Nat /\ (\A j \in 0 .. d : p - j \in 1 .. n) BY <1>1, <1>2
<1>7. at[0] = g /\ at[d] = l.keys[stop]
  <2>1. p - 0 = p /\ p - d = stop /\ 0 \in 0 .. d /\ d \in 0 .. d BY <1>1, <1>2, <1>6
  <2> HIDE DEF d
  <2> QED BY <1>1, <2>1
<1>8. \A j \in 1 .. d : at[j] = ToTail(m)[at[j - 1]] /\ at[j] \in passed
  <2> SUFFICES ASSUME NEW j \in 1 .. d
               PROVE  at[j] = ToTail(m)[at[j - 1]] /\ at[j] \in passed
    OBVIOUS
  <2>1. /\ p - j \in 1 .. n /\ p - (j - 1) \in 1 .. n /\ p - (j - 1) - 1 = p - j
        /\ p - j \in stop .. p - 1 /\ j \in 0 .. d /\ j - 1 \in 0 .. d
    BY <1>1, <1>2, <1>6
  <2>2. at[j] = l.keys[p - j] /\ at[j - 1] = l.keys[p - (j - 1)] BY <2>1
  <2>3. Greater(p - j) BY <1>2, <2>1
  <2>4. KeyAt(l, p - j) = l.keys[p - j] BY <2>1, KeyAtFact
  <2>5. Greater(p - j) <=> l.keys[p - j] \in passed BY <1>5, <2>1
  <2>6. ToTail(m)[l.keys[p - (j - 1)]] = KeyAt(l, p - j) BY <1>5, <2>1
  <2> HIDE DEF at, passed, Greater, m
  <2> QED BY <2>2, <2>3, <2>4, <2>5, <2>6
<1>9. ToTail(m)[at[d]] \notin passed
  <2>1. stop \in 1 .. n BY <1>1, <1>2
  <2>2. ToTail(m)[l.keys[stop]] = KeyAt(l, stop - 1) BY <1>5, <2>1
  <2>3. KeyAt(l, stop - 1) \notin passed
    <3>1. CASE stop = 1
      <4>1. KeyAt(l, stop - 1) = None
        <5>1. stop - 1 = 0 BY <3>1
        <5> QED BY <5>1, KeyAtFact
      <4> QED BY <4>1
    <3>2. CASE stop # 1
      <4>1. stop - 1 \in 1 .. n BY <1>1, <2>1, <3>2
      <4>2. KeyAt(l, stop - 1) = l.keys[stop - 1] BY <4>1, KeyAtFact
      <4>3. Greater(stop - 1) <=> l.keys[stop - 1] \in passed BY <1>5, <4>1
      <4> HIDE DEF Greater, passed
      <4> QED BY <1>2, <4>2, <4>3
    <3> QED BY <3>1, <3>2
  <2> HIDE DEF at, m, passed
  <2> QED BY <1>7, <2>2, <2>3
<1> HIDE DEF at, passed, Greater, m, d
<1>10. w = Place(at, Reached(d, limit))
  <2> DEFINE onwards == ToTail(m)
  <2>1. w = Walk(g, limit, onwards, passed) OBVIOUS
  <2>2. d \in Nat /\ at[0] = g BY <1>6, <1>7
  <2>3. /\ \A j \in 1 .. d : at[j] = onwards[at[j - 1]] /\ at[j] \in passed
        /\ onwards[at[d]] \notin passed
    BY <1>8, <1>9
  <2> HIDE DEF w, onwards
  <2>4. Walk(g, limit, onwards, passed) = Place(at, Reached(d, limit))
    BY <2>2, <2>3, WalkFact
  <2> QED BY <2>1, <2>4
<1> HIDE DEF w
<1>11. w.steps = Reached(d, limit) /\ w.at = at[Reached(d, limit)] BY <1>10, PlaceFact
<1>12. CASE d >= limit
  <2>1. Reached(d, limit) = limit BY <1>6, <1>12 DEF Reached
  <2> QED BY <1>3, <1>4, <1>11, <1>12, <2>1 DEF m
<1>13. CASE ~(d >= limit)
  <2>1. Reached(d, limit) = d /\ d # limit BY <1>6, <1>13 DEF Reached
  <2>2. stop \in 1 .. n BY <1>1, <1>2
  <2>3. w.steps # limit /\ w.at = l.keys[stop] BY <1>7, <1>11, <2>1
  <2>4. l.keys[stop] = g <=> stop = p
    <3>1. Position(l, l.keys[stop]) = stop BY <1>1, <2>2, PositionFact
    <3> QED BY <1>1, <3>1
  <2>5. Before(m, w.at) = KeyAt(l, stop - 1) BY <2>2, <2>3, NeighbourFact, ViewsFact DEF m
  <2>6. After(m, g) = KeyAt(l, p + 1) BY <1>1, NeighbourFact, ViewsFact DEF m
  <2>7. KeyAt(l, stop) = l.keys[stop] BY <2>2, KeyAtFact
  <2>8. WalkDecreased(m, g, value, limit) =
          <<Before(m, w.at), IF w.at = g THEN After(m, g) ELSE w.at>>
    BY <1>4, <2>3
  <2>9. WalkDecreased(m, g, value, limit) = NeighboursIfDecreased(l, g, value, limit)
    <3> HIDE DEF p
    <3> QED BY <1>3, <1>13, <2>3, <2>4, <2>5, <2>6, <2>7, <2>8
  <2> QED BY <2>9 DEF m
<1> QED BY <1>12, <1>13

----------------------------------------------------------------------------
(* The inductive invariant: the storage is the storage of an ascending     *)
(* list.                                                                   *)
StorageInv == \E l : Good(l) /\ storage = StorageOf(l)

(* The initial storage is that of the empty list.                          *)
LEMMA EmptyFact == Good(EmptyList) /\ EmptyStorage = StorageOf(EmptyList)
<1>1. <<>> \in Seq(Groups) OBVIOUS
<1>2. Good(EmptyList)
  <2>1. EmptyList \in Lists BY <1>1 DEF EmptyList, Lists
  <2>2. Ordered(EmptyList) BY <1>1 DEF EmptyList, Ordered
  <2> QED BY <2>1, <2>2 DEF Good
<1>3. Keys(EmptyList) = {} /\ Len(EmptyList.keys) = 0 BY DEF Keys, EmptyList
<1>4. HeadOf(EmptyList) = None /\ TailOf(EmptyList) = None
  BY DEF HeadOf, TailOf, KeyAt, EmptyList
<1>5. \A g \in Groups : Element(PreviousOf(EmptyList, g), NextOf(EmptyList, g), Listed(EmptyList, g))
        = NoElement
  <2> SUFFICES ASSUME NEW g \in Groups
               PROVE  Element(PreviousOf(EmptyList, g), NextOf(EmptyList, g), Listed(EmptyList, g))
                        = NoElement
    OBVIOUS
  <2>1. PreviousOf(EmptyList, g) = None /\ NextOf(EmptyList, g) = None
    BY <1>3 DEF PreviousOf, NextOf
  <2>2. Listed(EmptyList, g) = Absent BY <1>3 DEF Listed
  <2>3. NoElement = Element(None, None, Absent) BY DEF NoElement, Element, Absent
  <2> QED BY <2>1, <2>2, <2>3
<1>6. EmptyList.values = [g \in Groups |-> 0] BY DEF EmptyList
<1>7. StorageOf(EmptyList) =
        [head |-> None, tail |-> None, numElements |-> 0,
         elements |-> [g \in Groups |-> NoElement], values |-> [g \in Groups |-> 0]]
  BY <1>3, <1>4, <1>5, <1>6 DEF StorageOf
<1> QED BY <1>2, <1>7 DEF EmptyStorage

(* LinkedList.sol: whatever is inserted, updated and removed, with         *)
(* whatever hints, the pointers are those of one ascending list.           *)
THEOREM AlwaysAList == LinkedSpec => []StorageInv
<1>1. LinkedInit => StorageInv BY EmptyFact DEF LinkedInit, StorageInv
<1>2. StorageInv /\ [LinkedNext]_storage => StorageInv'
  <2> SUFFICES ASSUME StorageInv, [LinkedNext]_storage PROVE StorageInv' OBVIOUS
  <2>1. PICK l : Good(l) /\ storage = StorageOf(l) BY DEF StorageInv
  <2>2. CASE LinkedNext
    <3>1. PICK r : Good(r) /\ storage' = StorageOf(r) BY <2>1, <2>2, StepFact
    <3> QED BY <3>1 DEF StorageInv
  <2>3. CASE UNCHANGED storage BY <2>1, <2>3 DEF StorageInv
  <2> QED BY <2>2, <2>3
<1> QED BY <1>1, <1>2, PTL DEF LinkedSpec

(* The pointer list implements the ordered list that the other modules     *)
(* use: each of its operations is that operation on the list, and reverts  *)
(* when that does.                                                         *)
THEOREM ListImplemented == LinkedSpec => ImplementsOrderedList
<1>1. LinkedInit => OrderedKeys!Init
  <2> SUFFICES ASSUME LinkedInit PROVE OrderedKeys!Init OBVIOUS
  <2>1. AsList(storage) = EmptyList BY EmptyFact, AsListFact DEF LinkedInit
  <2>2. OrderedKeys!EmptyList = EmptyList BY SameList
  <2> QED BY <2>1, <2>2 DEF OrderedKeys!Init
<1>2. StorageInv /\ [LinkedNext]_storage => [OrderedKeys!Next]_(AsList(storage))
  <2> SUFFICES ASSUME StorageInv, [LinkedNext]_storage
               PROVE  [OrderedKeys!Next]_(AsList(storage))
    OBVIOUS
  <2>1. PICK l : Good(l) /\ storage = StorageOf(l) BY DEF StorageInv
  <2>2. CASE LinkedNext
    <3>1. PICK r : Good(r) /\ storage' = StorageOf(r) /\ ListStep(l, r)
      BY <2>1, <2>2, StepFact
    <3>2. AsList(storage) = l BY <2>1, AsListFact
    <3>3. AsList(StorageOf(r)) = r BY <3>1, AsListFact
    <3>4. AsList(storage)' = r BY <3>1, <3>3 DEF AsList
    <3>5. PICK g \in Groups :
            \/ g \in Keys(l) /\ r = Remove(l, g)
            \/ \E value \in Values, lesser, greater \in Groups \cup {None} :
                 \/ CanInsert(l, g, value, lesser, greater)
                    /\ r = Insert(l, g, value, lesser, greater)
                 \/ CanUpdate(l, g, value, lesser, greater)
                    /\ r = Update(l, g, value, lesser, greater)
      BY <3>1, Zenon DEF ListStep
    <3>6. CASE g \in Keys(l) /\ r = Remove(l, g)
      <4>1. OrderedKeys!RemoveKey(g) BY <3>2, <3>4, <3>6, SameList DEF OrderedKeys!RemoveKey
      <4> QED BY <4>1 DEF OrderedKeys!Next
    <3>7. ASSUME NEW value \in Values, NEW lesser \in Groups \cup {None},
                 NEW greater \in Groups \cup {None},
                 \/ CanInsert(l, g, value, lesser, greater)
                    /\ r = Insert(l, g, value, lesser, greater)
                 \/ CanUpdate(l, g, value, lesser, greater)
                    /\ r = Update(l, g, value, lesser, greater)
          PROVE  OrderedKeys!Next
      <4>1. CASE CanInsert(l, g, value, lesser, greater) /\ r = Insert(l, g, value, lesser, greater)
        <5>1. OrderedKeys!InsertKey(g, value, lesser, greater)
          BY <3>2, <3>4, <4>1, SameList DEF OrderedKeys!InsertKey
        <5> QED BY <5>1, Zenon DEF OrderedKeys!Next
      <4>2. CASE CanUpdate(l, g, value, lesser, greater) /\ r = Update(l, g, value, lesser, greater)
        <5>1. OrderedKeys!UpdateKey(g, value, lesser, greater)
          BY <3>2, <3>4, <4>2, SameList DEF OrderedKeys!UpdateKey
        <5> QED BY <5>1, Zenon DEF OrderedKeys!Next
      <4> QED BY <3>7, <4>1, <4>2
    <3> QED BY <3>5, <3>6, <3>7
  <2>3. CASE UNCHANGED storage
    <3>1. AsList(storage)' = AsList(storage) BY <2>3 DEF AsList
    <3> QED BY <3>1
  <2> QED BY <2>2, <2>3
<1> QED BY <1>1, <1>2, AlwaysAList, PTL DEF LinkedSpec, ImplementsOrderedList, OrderedKeys!Spec

(* Walking from the head visits exactly the keys that exist and ends at    *)
(* the tail, and each pointer towards the head is undone by one towards    *)
(* the tail.                                                               *)
THEOREM AlwaysLinked == LinkedSpec => []WellLinked
<1>1. StorageInv => WellLinked
  <2> SUFFICES ASSUME NEW l, Good(l), storage = StorageOf(l) PROVE WellLinked BY DEF StorageInv
  <2>1. AsList(storage) = l BY AsListFact
  <2>2. /\ storage.head = HeadOf(l) /\ storage.tail = TailOf(l)
        /\ \A g \in Groups : Before(storage, g) = PreviousOf(l, g) /\ After(storage, g) = NextOf(l, g)
        /\ \A g \in Groups : storage.elements[g].exists <=> g \in Keys(l)
    BY ViewsFact
  <2>3. Keys(l) = {g \in Groups : storage.elements[g].exists}
    <3>1. Keys(l) \subseteq Groups BY KeyAtFact
    <3> QED BY <2>2, <3>1, Zenon
  <2> QED BY <2>1, <2>2, <2>3, Zenon DEF WellLinked
<1> QED BY <1>1, AlwaysAList, PTL

(* SortedLinkedList.sol:65: one right hint is enough, whatever key of the  *)
(* list, or address(0), the other is.                                      *)
THEOREM AlwaysOneHint == LinkedSpec => []OneHintSuffices
<1>1. StorageInv => OneHintSuffices
  <2> SUFFICES ASSUME NEW l, Good(l), storage = StorageOf(l),
                      NEW g \in Groups, NEW value \in Values, storage.elements[g].exists
               PROVE  LET m == Removed(storage, g)
                          present == {k \in Groups : m.elements[k].exists}
                      IN  \A lesser, greater, other \in present \cup {None} :
                            /\ Insertable(m, g, value, lesser, greater)
                            /\ <<lesser, greater>> = LesserAndGreater(m, value, lesser, greater)
                            => /\ <<lesser, other>> # <<None, None>>
                                    => Insertable(m, g, value, lesser, other)
                               /\ <<other, greater>> # <<None, None>>
                                    => Insertable(m, g, value, other, greater)
    BY Zenon DEF StorageInv, OneHintSuffices
  <2>1. g \in Keys(l) BY ViewsFact
  <2> DEFINE r == Remove(l, g)
             m == Removed(storage, g)
             present == {k \in Groups : m.elements[k].exists}
  <2>2. m = StorageOf(r) BY <2>1, UnlinkFact
  <2>3. Good(r) /\ Keys(r) = Keys(l) \ {g} BY <2>1, RemoveFact
  <2> HIDE DEF r, m
  <2>4. g \notin Keys(r) BY <2>3
  <2>5. present = Keys(r)
    <3>1. \A k \in Groups : m.elements[k].exists <=> k \in Keys(r) BY <2>2, <2>3, ViewsFact
    <3>2. Keys(r) \subseteq Groups BY <2>3, KeyAtFact
    <3> QED BY <3>1, <3>2, Zenon
  <2> HIDE DEF present
  <2> SUFFICES ASSUME NEW lesser \in Keys(r) \cup {None}, NEW greater \in Keys(r) \cup {None},
                      NEW other \in Keys(r) \cup {None},
                      Insertable(m, g, value, lesser, greater),
                      <<lesser, greater>> = LesserAndGreater(m, value, lesser, greater)
               PROVE  /\ <<lesser, other>> # <<None, None>>
                           => Insertable(m, g, value, lesser, other)
                      /\ <<other, greater>> # <<None, None>>
                           => Insertable(m, g, value, other, greater)
    BY <2>5, Zenon DEF present, m
  <2>6. /\ lesser \in Groups \cup {None} /\ greater \in Groups \cup {None}
        /\ other \in Groups \cup {None} /\ value \in Nat
    BY <2>3, KeyAtFact, BoundsAssumption
  <2>7. <<lesser, greater>> = GapFor(r, value, lesser, greater)
    BY <2>2, <2>3, <2>6, GapsAgree
  <2>8. GapFor(r, value, lesser, greater) # NoGap
    <3>1. CanInsert(r, g, value, lesser, greater)
      BY <2>2, <2>3, <2>6, InsertableAgrees, Zenon
    <3> QED BY <3>1 DEF CanInsert
  <2>9. /\ lesser # None \/ other # None => CanInsert(r, g, value, lesser, other)
        /\ other # None \/ greater # None => CanInsert(r, g, value, other, greater)
    BY <2>3, <2>4, <2>6, <2>7, <2>8, HintFact
  <2>10. /\ CanInsert(r, g, value, lesser, other) => Insertable(m, g, value, lesser, other)
         /\ CanInsert(r, g, value, other, greater) => Insertable(m, g, value, other, greater)
    BY <2>2, <2>3, <2>6, InsertableAgrees, Zenon
  <2> QED BY <2>9, <2>10
<1> QED BY <1>1, AlwaysAList, PTL

(* AddressSortedLinkedList: both walks find, for every list, value and     *)
(* limit, the neighbours that the closed form of SortedGroups defines.     *)
THEOREM WalksAlwaysAgree == LinkedSpec => []WalksAgree
<1>1. StorageInv => WalksAgree
  <2> SUFFICES ASSUME NEW l, Good(l), storage = StorageOf(l) PROVE WalksAgree BY DEF StorageInv
  <2>1. AsList(storage) = l BY AsListFact
  <2>2. ASSUME NEW g \in Keys(l), NEW value \in Values, NEW limit \in 0 .. MaxLimit
        PROVE  /\ WalkIncreased(storage, g, value, limit) = NeighboursIfIncreased(l, g, value, limit)
               /\ WalkDecreased(storage, g, value, limit) = NeighboursIfDecreased(l, g, value, limit)
    <3>1. value \in Nat /\ limit \in Nat BY BoundsAssumption
    <3> QED BY <3>1, UpwardsFact, DownwardsFact
  <2> QED BY <2>1, <2>2 DEF WalksAgree
<1> QED BY <1>1, AlwaysAList, PTL
============================================================================
