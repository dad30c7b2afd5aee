----------------------- MODULE DefaultStrategyProofs -----------------------
(***************************************************************************)
(* The safety properties of DefaultStrategy, for any groups, any rates,    *)
(* any sorting parameters and any answers of the other contracts.          *)
(*                                                                         *)
(* Good books (Sound) stay good over every turn of a loop, and the books a *)
(* transaction started from, which a revert brings back, are good too.     *)
(* What is still to be placed or taken always covers what its CELO will    *)
(* turn into, since rounding a sum down gives at least the sum of its      *)
(* parts rounded down: that is why no turn of a loop takes more than the   *)
(* transaction was asked for.                                              *)
(***************************************************************************)
EXTENDS DefaultStrategy, SortedGroupsProofs

USE GroupsAssumption, InputsAssumption

(* Books as they are between two steps, adj being the groups the owner has *)
(* corrected.                                                              *)
Sound(b, adj) ==
  /\ b \in Books
  /\ Ordered(b.activeGroups)
  /\ b.unsortedGroups \subseteq Active(b)
  /\ b.sorted => b.unsortedGroups = {}
  /\ \A g \in Active(b) \ (b.unsortedGroups \cup adj) :
       b.activeGroups.values[g] = b.stCeloInGroup[g]
  /\ \A g \in Groups \ (Active(b) \cup adj) : b.stCeloInGroup[g] = 0

(* Books in which the list need not know yet what g has.                   *)
SoundBut(b, g, adj) == g \in Active(b) /\ g \in Groups /\ Sound(b, adj \cup {g})

(* What a deposit or deactivation has still to place is enough for what    *)
(* its CELO will turn into.                                                *)
ToPlace ==
  tx.kind \in {"deposit", "deactivate"} =>
    /\ books.totalStCeloInStrategy + tx.stCelo
         = tx.before.totalStCeloInStrategy + IF tx.kind = "deposit" THEN tx.moved ELSE 0
    /\ toStakedCelo(tx.rate, tx.celo) <= tx.stCelo

(* What a withdrawal has taken, and will take for the CELO that is left,   *)
(* is at most what is burned.                                              *)
ToTake ==
  tx.kind = "withdraw" =>
    /\ tx.before.totalStCeloInStrategy + toStakedCelo(tx.rate, tx.celo)
         <= books.totalStCeloInStrategy + tx.moved
    /\ tx.moved <= owed

(* A transaction in progress: the books it started from, the group it is   *)
(* at, and what it has still to do.                                        *)
InTx ==
  tx # NoTx =>
    /\ tx \in Tx
    /\ Sound(tx.before, adjusted)
    /\ owed <= tx.before.totalStCeloInStrategy
    /\ tx.votedGroup \in Active(books) \cup {None}
    /\ Active(books) # {}
    /\ ToPlace
    /\ ToTake

(* The inductive invariant.                                                *)
IInv == TypeOK /\ Sound(books, adjusted) /\ Covered /\ InTx

----------------------------------------------------------------------------
(* Manager's conversions at a rate.                                        *)
LEMMA RateFact ==
  ASSUME NEW r \in Rates, NEW n \in Nat
  PROVE  /\ toStakedCelo(r, n) \in Nat /\ toCelo(r, n) \in Nat
         /\ toStakedCelo(r, toCelo(r, n)) <= n
         /\ \A m \in Nat : m <= n =>
              toStakedCelo(r, m) + toStakedCelo(r, n - m) <= toStakedCelo(r, n)
<1> DEFINE s == r.stCelo
           c == r.celo
<1>1. s \in Nat /\ c \in Nat /\ s > 0 /\ c > 0 BY DEF Rate
<1>2. \A m \in Nat : toStakedCelo(r, m) = (m * s) \div c BY DEF toStakedCelo
<1>3. toCelo(r, n) = (n * c) \div s BY DEF toCelo
<1> HIDE DEF s, c
<1>4. n * s \in Nat /\ n * c \in Nat BY <1>1, ProductNat
<1>5. toStakedCelo(r, n) \in Nat BY <1>1, <1>2, <1>4, DivFact
<1>6. toCelo(r, n) \in Nat BY <1>1, <1>3, <1>4, DivFact
<1>7. toStakedCelo(r, toCelo(r, n)) <= n BY <1>1, <1>2, <1>3, <1>6, RoundTrip
<1>8. ASSUME NEW m \in Nat, m <= n
      PROVE  toStakedCelo(r, m) + toStakedCelo(r, n - m) <= toStakedCelo(r, n)
  <2>1. n - m \in Nat BY <1>8
  <2>2. m * s \in Nat /\ (n - m) * s \in Nat BY <1>1, <2>1, ProductNat
  <2>3. m * s + (n - m) * s = n * s BY <1>1, <2>1
  <2>4. (m * s) \div c + ((n - m) * s) \div c <= (m * s + (n - m) * s) \div c
    BY <1>1, <2>2, FloorSum
  <2> QED BY <1>2, <2>1, <2>3, <2>4
<1> QED BY <1>5, <1>6, <1>7, <1>8

----------------------------------------------------------------------------
(* The books.                                                              *)
LEMMA SoundGood ==
  ASSUME NEW adj, NEW b, Sound(b, adj)
  PROVE  /\ Good(b.activeGroups) /\ Active(b) = Keys(b.activeGroups) /\ Active(b) \subseteq Groups
         /\ b.activeGroups \in Lists
         /\ b.stCeloInGroup \in [Groups -> Nat] /\ b.totalStCeloInStrategy \in Nat
         /\ b.sorted \in BOOLEAN /\ b.unsortedGroups \subseteq Groups
         /\ b = [activeGroups |-> b.activeGroups, stCeloInGroup |-> b.stCeloInGroup,
                 totalStCeloInStrategy |-> b.totalStCeloInStrategy,
                 sorted |-> b.sorted, unsortedGroups |-> b.unsortedGroups]
<1>1. b \in Books /\ Ordered(b.activeGroups) BY DEF Sound
<1>2. b.activeGroups \in Lists BY <1>1 DEF Books, Lists
<1>3. Good(b.activeGroups) BY <1>1, <1>2 DEF Good
<1>4. Active(b) = Keys(b.activeGroups) BY DEF Active
<1> QED BY <1>1, <1>2, <1>3, <1>4, KeyAtFact DEF Books

(* Every end of the list and every neighbour is a key, or none.            *)
LEMMA EndsFact ==
  ASSUME NEW l, Good(l), NEW g
  PROVE  /\ {TailOf(l), HeadOf(l), NextOf(l, g), PreviousOf(l, g)} \subseteq Keys(l) \cup {None}
         /\ Keys(l) # {} => TailOf(l) \in Keys(l)
         /\ l.keys # <<>> => Keys(l) # {}
<1>1. /\ Len(l.keys) \in Nat /\ DOMAIN l.keys = 1 .. Len(l.keys) /\ l.keys \in Seq(Groups)
  BY KeyAtFact DEF Good, Lists
<1>2. \A i \in Nat : KeyAt(l, i) \in Keys(l) \cup {None} BY KeyAtFact DEF KeyAt, Keys
<1>3. TailOf(l) \in Keys(l) \cup {None} /\ HeadOf(l) \in Keys(l) \cup {None}
  BY <1>1, <1>2 DEF TailOf, HeadOf
<1>4. NextOf(l, g) \in Keys(l) \cup {None}
  <2>1. CASE g \in Keys(l)
    <3>1. Position(l, g) + 1 \in Nat BY <1>1, <2>1, PositionFact
    <3> QED BY <1>2, <2>1, <3>1 DEF NextOf
  <2> QED BY <2>1 DEF NextOf
<1>5. PreviousOf(l, g) \in Keys(l) \cup {None}
  <2>1. CASE g \in Keys(l)
    <3>1. Position(l, g) - 1 \in Nat BY <1>1, <2>1, PositionFact
    <3> QED BY <1>2, <2>1, <3>1 DEF PreviousOf
  <2> QED BY <2>1 DEF PreviousOf
<1>6. Keys(l) # {} => TailOf(l) \in Keys(l)
  <2> SUFFICES ASSUME Keys(l) # {} PROVE TailOf(l) \in Keys(l) OBVIOUS
  <2>1. 1 \in 1 .. Len(l.keys) BY <1>1 DEF Keys
  <2> QED BY <2>1, KeyAtFact DEF TailOf
<1>7. l.keys # <<>> => Keys(l) # {}
  <2> SUFFICES ASSUME l.keys # <<>> PROVE Keys(l) # {} OBVIOUS
  <2>1. 1 \in 1 .. Len(l.keys) BY <1>1
  <2> QED BY <2>1, KeyAtFact
<1> QED BY <1>3, <1>4, <1>5, <1>6, <1>7

(* _updateGroupStCelo changes one group and the total.                     *)
LEMMA AddFact ==
  ASSUME NEW adj, NEW b, Sound(b, adj), NEW g \in Groups, NEW n \in Nat
  PROVE  /\ Sound(AddStCelo(b, g, n), adj \cup {g})
         /\ Active(AddStCelo(b, g, n)) = Active(b)
         /\ AddStCelo(b, g, n).totalStCeloInStrategy = b.totalStCeloInStrategy + n
         /\ AddStCelo(b, g, n).activeGroups = b.activeGroups
<1> DEFINE r == AddStCelo(b, g, n)
<1>1. /\ r.activeGroups = b.activeGroups
      /\ r.stCeloInGroup = [b.stCeloInGroup EXCEPT ![g] = @ + n]
      /\ r.totalStCeloInStrategy = b.totalStCeloInStrategy + n
      /\ r.sorted = b.sorted
      /\ r.unsortedGroups = b.unsortedGroups
      /\ r \in Books
  <2>1. b \in Books BY DEF Sound
  <2>2. /\ b.stCeloInGroup \in [Groups -> Nat] /\ b.totalStCeloInStrategy \in Nat
        /\ b.stCeloInGroup[g] + n \in Nat /\ b.totalStCeloInStrategy + n \in Nat
    BY <2>1 DEF Books
  <2> QED BY <2>1, <2>2 DEF AddStCelo, Books
<1> HIDE DEF r
<1>2. Active(r) = Active(b) BY <1>1 DEF Active
<1>3. b.stCeloInGroup \in [Groups -> Nat] BY SoundGood
<1>4. \A h \in Groups : h # g => r.stCeloInGroup[h] = b.stCeloInGroup[h] BY <1>1, <1>3
<1>5. Active(b) \subseteq Groups BY SoundGood
<1>6. Sound(r, adj \cup {g}) BY <1>1, <1>2, <1>4, <1>5 DEF Sound
<1> QED BY <1>1, <1>2, <1>6 DEF r

(* The same for taking stCELO from a group that has it.                    *)
LEMMA SubFact ==
  ASSUME NEW adj, NEW b, Sound(b, adj), NEW g \in Groups, NEW n \in Nat, HasStCelo(b, g, n)
  PROVE  /\ Sound(SubStCelo(b, g, n), adj \cup {g})
         /\ Active(SubStCelo(b, g, n)) = Active(b)
         /\ SubStCelo(b, g, n).totalStCeloInStrategy = b.totalStCeloInStrategy - n
         /\ SubStCelo(b, g, n).activeGroups = b.activeGroups
         /\ SubStCelo(b, g, n).stCeloInGroup[g] = b.stCeloInGroup[g] - n
         /\ n <= b.totalStCeloInStrategy
<1> DEFINE r == SubStCelo(b, g, n)
<1>0. /\ b.stCeloInGroup[g] - n \in Nat /\ b.totalStCeloInStrategy - n \in Nat
      /\ n <= b.totalStCeloInStrategy
  BY SoundGood DEF HasStCelo
<1>1. /\ r.activeGroups = b.activeGroups
      /\ r.stCeloInGroup = [b.stCeloInGroup EXCEPT ![g] = b.stCeloInGroup[g] - n]
      /\ r.totalStCeloInStrategy = b.totalStCeloInStrategy - n
      /\ r.sorted = b.sorted
      /\ r.unsortedGroups = b.unsortedGroups
      /\ r \in Books
  BY <1>0, SoundGood DEF SubStCelo, Sound, Books
<1> HIDE DEF r
<1>2. Active(r) = Active(b) BY <1>1 DEF Active
<1>3. b.stCeloInGroup \in [Groups -> Nat] BY SoundGood
<1>4. /\ \A h \in Groups : h # g => r.stCeloInGroup[h] = b.stCeloInGroup[h]
      /\ r.stCeloInGroup[g] = b.stCeloInGroup[g] - n
  BY <1>1, <1>3
<1>5. Active(b) \subseteq Groups BY SoundGood
<1>6. Sound(r, adj \cup {g}) BY <1>1, <1>2, <1>4, <1>5 DEF Sound
<1> QED BY <1>0, <1>1, <1>2, <1>4, <1>6 DEF r

(* After trySort the list knows what the group has, or the group is known  *)
(* to be unsorted.                                                         *)
LEMMA TrySortFact ==
  ASSUME NEW adj, NEW b, NEW g, SoundBut(b, g, adj), NEW increased \in BOOLEAN, CanTrySort(b, g, increased)
  PROVE  /\ Sound(TrySort(b, g, increased), adj)
         /\ Active(TrySort(b, g, increased)) = Active(b)
         /\ TrySort(b, g, increased).totalStCeloInStrategy = b.totalStCeloInStrategy
         /\ TrySort(b, g, increased).stCeloInGroup = b.stCeloInGroup
<1> DEFINE r == TrySort(b, g, increased)
           hint == Hint(b, g, increased)
           value == b.stCeloInGroup[g]
           l == Update(b.activeGroups, g, value, hint[1], hint[2])
<1>1. Sound(b, adj \cup {g}) /\ g \in Active(b) /\ g \in Groups BY DEF SoundBut
<1>2. /\ Good(b.activeGroups) /\ Active(b) = Keys(b.activeGroups) /\ Active(b) \subseteq Groups
      /\ b.activeGroups \in Lists
      /\ b.stCeloInGroup \in [Groups -> Nat] /\ value \in Nat
      /\ b.unsortedGroups \subseteq Groups
      /\ b \in Books
  <2>1. /\ Good(b.activeGroups) /\ Active(b) = Keys(b.activeGroups) /\ Active(b) \subseteq Groups
        /\ b.activeGroups \in Lists
        /\ b.stCeloInGroup \in [Groups -> Nat]
        /\ b.unsortedGroups \subseteq Groups
    BY <1>1, SoundGood, Zenon
  <2>2. b \in Books BY <1>1 DEF Sound
  <2> QED BY <1>1, <2>1, <2>2
<1>3. CASE g \in b.unsortedGroups
  <2>1. r = b BY <1>3 DEF TrySort
  <2>2. Sound(b, adj) BY <1>1, <1>3 DEF Sound
  <2> QED BY <2>1, <2>2
<1>4. CASE g \notin b.unsortedGroups /\ Hinted(b, g, increased)
  <2>1. CanUpdate(b.activeGroups, g, value, hint[1], hint[2]) BY <1>4 DEF CanTrySort
  <2>2. r = [b EXCEPT !.activeGroups = l] BY <1>4 DEF TrySort
  <2> HIDE DEF r, hint, value
  <2>3. /\ Good(l) /\ Keys(l) = Keys(b.activeGroups) /\ l.values[g] = value
        /\ \A h \in Groups : h # g => l.values[h] = b.activeGroups.values[h]
    BY <1>2, <2>1, UpdateFact
  <2> HIDE DEF l
  <2>4. /\ r.activeGroups = l /\ r.stCeloInGroup = b.stCeloInGroup
        /\ r.totalStCeloInStrategy = b.totalStCeloInStrategy
        /\ r.sorted = b.sorted /\ r.unsortedGroups = b.unsortedGroups
    BY <1>2, <2>2 DEF Books
  <2>5. r \in Books BY <1>2, <2>2, <2>3 DEF Books, Good, Lists
  <2>6. Active(r) = Active(b) BY <1>2, <2>3, <2>4 DEF Active
  <2>7. Sound(r, adj) BY <1>1, <1>2, <2>3, <2>4, <2>5, <2>6 DEF Sound, Good, value
  <2> QED BY <2>4, <2>6, <2>7 DEF r
<1>5. CASE g \notin b.unsortedGroups /\ ~Hinted(b, g, increased)
  <2>1. r = [b EXCEPT !.sorted = FALSE, !.unsortedGroups = b.unsortedGroups \cup {g}]
    BY <1>5 DEF TrySort
  <2> HIDE DEF r
  <2>2. /\ r.activeGroups = b.activeGroups /\ r.stCeloInGroup = b.stCeloInGroup
        /\ r.totalStCeloInStrategy = b.totalStCeloInStrategy
        /\ r.sorted = FALSE /\ r.unsortedGroups = b.unsortedGroups \cup {g}
        /\ r \in Books
    BY <1>1, <1>2, <2>1 DEF Books
  <2>3. Active(r) = Active(b) BY <2>2 DEF Active
  <2>4. Sound(r, adj) BY <1>1, <2>2, <2>3 DEF Sound
  <2> QED BY <2>2, <2>3, <2>4 DEF r
<1> QED BY <1>3, <1>4, <1>5

(* What the steps of a loop have in common: a group of the list grows or   *)
(* shrinks, and is sorted.                                                 *)
LEMMA GrowFact ==
  ASSUME NEW adj, NEW b, Sound(b, adj), NEW g \in Active(b), NEW n \in Nat,
         CanTrySort(AddStCelo(b, g, n), g, TRUE)
  PROVE  /\ Sound(TrySort(AddStCelo(b, g, n), g, TRUE), adj)
         /\ Active(TrySort(AddStCelo(b, g, n), g, TRUE)) = Active(b)
         /\ TrySort(AddStCelo(b, g, n), g, TRUE).totalStCeloInStrategy
              = b.totalStCeloInStrategy + n
<1> DEFINE a == AddStCelo(b, g, n)
<1>1. g \in Groups BY SoundGood
<1>2. /\ Sound(a, adj \cup {g}) /\ Active(a) = Active(b)
      /\ a.totalStCeloInStrategy = b.totalStCeloInStrategy + n
  BY <1>1, AddFact
<1> HIDE DEF a
<1>3. SoundBut(a, g, adj) BY <1>1, <1>2 DEF SoundBut
<1>4. CanTrySort(a, g, TRUE) BY DEF a
<1>5. /\ Sound(TrySort(a, g, TRUE), adj) /\ Active(TrySort(a, g, TRUE)) = Active(a)
      /\ TrySort(a, g, TRUE).totalStCeloInStrategy = a.totalStCeloInStrategy
  BY <1>3, <1>4, TrySortFact
<1> QED BY <1>2, <1>5 DEF a

(* The same for a group that shrinks.                                      *)
LEMMA ShrinkFact ==
  ASSUME NEW adj, NEW b, Sound(b, adj), NEW g \in Active(b), NEW n \in Nat,
         HasStCelo(b, g, n), CanTrySort(SubStCelo(b, g, n), g, FALSE)
  PROVE  /\ Sound(TrySort(SubStCelo(b, g, n), g, FALSE), adj)
         /\ Active(TrySort(SubStCelo(b, g, n), g, FALSE)) = Active(b)
         /\ TrySort(SubStCelo(b, g, n), g, FALSE).totalStCeloInStrategy
              = b.totalStCeloInStrategy - n
         /\ n <= b.totalStCeloInStrategy
<1> DEFINE a == SubStCelo(b, g, n)
<1>1. g \in Groups BY SoundGood
<1>2. /\ Sound(a, adj \cup {g}) /\ Active(a) = Active(b)
      /\ a.totalStCeloInStrategy = b.totalStCeloInStrategy - n
      /\ n <= b.totalStCeloInStrategy
  BY <1>1, SubFact
<1> HIDE DEF a
<1>3. SoundBut(a, g, adj) BY <1>1, <1>2 DEF SoundBut
<1>4. CanTrySort(a, g, FALSE) BY DEF a
<1>5. /\ Sound(TrySort(a, g, FALSE), adj) /\ Active(TrySort(a, g, FALSE)) = Active(a)
      /\ TrySort(a, g, FALSE).totalStCeloInStrategy = a.totalStCeloInStrategy
  BY <1>3, <1>4, TrySortFact
<1> QED BY <1>2, <1>5 DEF a

----------------------------------------------------------------------------
(* The invariant, step by step.                                            *)
LEMMA TxFact ==
  ASSUME IInv, tx # NoTx
  PROVE  /\ tx \in Tx /\ tx.kind \in {"deposit", "deactivate", "withdraw"}
         /\ tx.celo \in Nat /\ tx.stCelo \in Nat /\ tx.moved \in Nat
         /\ tx.votedGroup \in Active(books) \cup {None} /\ tx.groupsIndex \in Nat
         /\ tx.answers \in [Groups -> Answers \cup {Unasked}]
         /\ tx.rate \in Rates /\ tx.votes \in [Groups -> Nat]
         /\ tx.before \in Books /\ Sound(tx.before, adjusted)
         /\ owed <= tx.before.totalStCeloInStrategy
         /\ tx.before.totalStCeloInStrategy \in Nat
         /\ Active(books) # {} /\ ToPlace /\ ToTake
<1>1. InTx BY DEF IInv
<1>2. tx \in Tx BY <1>1 DEF InTx
<1>3. /\ tx.kind \in {"deposit", "deactivate", "withdraw"}
      /\ tx.celo \in Nat /\ tx.stCelo \in Nat /\ tx.moved \in Nat
      /\ tx.groupsIndex \in Nat
      /\ tx.answers \in [Groups -> Answers \cup {Unasked}]
      /\ tx.rate \in Rates /\ tx.votes \in [Groups -> Nat] /\ tx.before \in Books
  BY <1>2 DEF Tx
<1>4. tx.before.totalStCeloInStrategy \in Nat BY <1>3 DEF Books
<1> QED BY <1>1, <1>2, <1>3, <1>4 DEF InTx

(* What the invariant says of the books.                                   *)
LEMMA StateFact ==
  ASSUME IInv
  PROVE  /\ books \in Books /\ Sound(books, adjusted) /\ Active(books) \subseteq Groups
         /\ Good(books.activeGroups) /\ Active(books) = Keys(books.activeGroups)
         /\ books.totalStCeloInStrategy \in Nat /\ owed \in Nat
         /\ books.stCeloInGroup \in [Groups -> Nat]
         /\ adjusted \subseteq Groups
<1>1. Sound(books, adjusted) /\ books \in Books /\ owed \in Nat /\ adjusted \subseteq Groups
  BY DEF IInv, TypeOK
<1> QED BY <1>1, SoundGood

(* A step within a transaction, or that begins one.                        *)
LEMMA InTxInv ==
  ASSUME IInv, UNCHANGED <<owner, owed, adjusted>>, Sound(books', adjusted),
         tx' \in Tx, Sound(tx'.before, adjusted), owed <= tx'.before.totalStCeloInStrategy,
         tx'.votedGroup \in Active(books') \cup {None}, Active(books') # {},
         ToPlace', ToTake'
  PROVE  IInv'
<1>1. tx' # NoTx BY DEF Tx, NoTx
<1>2. books' \in Books BY DEF Sound
<1>3. TypeOK' BY <1>2 DEF IInv, TypeOK, owner
<1>4. Covered' BY <1>1 DEF Covered, Idle
<1>5. InTx' BY DEF InTx
<1> QED BY <1>3, <1>4, <1>5 DEF IInv

(* A step that ends one, or is one.                                        *)
LEMMA IdleInv ==
  ASSUME TypeOK', Sound(books', adjusted'), tx' = NoTx, owed' <= books'.totalStCeloInStrategy
  PROVE  IInv'
BY DEF IInv, Covered, InTx

(* The invariant holds initially; the lemmas that follow show that each    *)
(* step keeps it.                                                          *)
LEMMA InitInv == Init => IInv
<1> SUFFICES ASSUME Init PROVE IInv OBVIOUS
<1>1. /\ books = [activeGroups |-> EmptyList, stCeloInGroup |-> [g \in Groups |-> 0],
                  totalStCeloInStrategy |-> 0, sorted |-> TRUE, unsortedGroups |-> {}]
      /\ tx = NoTx /\ owed = 0 /\ adjusted = {}
  BY DEF Init
<1>2. /\ EmptyList \in [keys : Seq(Groups), values : [Groups -> Nat]]
      /\ EmptyList.keys = <<>>
  BY DEF EmptyList
<1>3. books \in Books BY <1>1, <1>2 DEF Books
<1>4. TypeOK BY <1>3 DEF Init, TypeOK, NoTx
<1>5. Active(books) = {} BY <1>1, <1>2 DEF Active, Keys
<1>6. Ordered(books.activeGroups) BY <1>1, <1>2 DEF Ordered
<1>7. Sound(books, adjusted) BY <1>1, <1>3, <1>5, <1>6 DEF Sound
<1>8. Covered /\ InTx BY <1>1 DEF Covered, InTx
<1> QED BY <1>4, <1>7, <1>8 DEF IInv

(* generateDepositVoteDistribution begins: what is to be placed is worth   *)
(* no more than the deposit.                                               *)
LEMMA StartDepositInv ==
  ASSUME IInv, NEW celo \in Nat, NEW stCelo \in Nat, NEW ignore \in Groups \cup {None},
         NEW rate \in Rates, StartDeposit(celo, stCelo, ignore, rate)
  PROVE  IInv'
<1>1. /\ tx = NoTx
      /\ celo <= toCelo(rate, stCelo) \/ stCelo = toStakedCelo(rate, celo)
      /\ books.activeGroups.keys # <<>>
      /\ tx' = [kind |-> "deposit", celo |-> celo, stCelo |-> stCelo, moved |-> stCelo,
                votedGroup |-> TailOf(books.activeGroups), groupsIndex |-> 0,
                ignore |-> ignore, answers |-> NoAnswers, rate |-> rate,
                votes |-> NoVotes, before |-> books]
      /\ UNCHANGED <<books, owner, owed, adjusted>>
  BY DEF StartDeposit, Idle
<1>2. /\ TailOf(books.activeGroups) \in Active(books) \cup {None} /\ Active(books) # {}
  BY <1>1, StateFact, EndsFact
<1>3. TailOf(books.activeGroups) \in Groups \cup {None} BY <1>2, StateFact
<1>4. NoAnswers \in [Groups -> Answers \cup {Unasked}] /\ NoVotes \in [Groups -> Nat]
  BY DEF NoAnswers, NoVotes
<1>5. tx' \in Tx BY <1>1, <1>3, <1>4, StateFact DEF Tx
<1>6. owed <= books.totalStCeloInStrategy BY <1>1 DEF IInv, Covered, Idle
<1>7. toStakedCelo(rate, celo) <= stCelo
  <2>1. CASE celo <= toCelo(rate, stCelo)
    <3> DEFINE all == toCelo(rate, stCelo)
    <3>1. all \in Nat /\ toStakedCelo(rate, all) <= stCelo BY RateFact
    <3> HIDE DEF all
    <3>2. all - celo \in Nat BY <2>1, <3>1 DEF all
    <3>3. toStakedCelo(rate, celo) + toStakedCelo(rate, all - celo)
            <= toStakedCelo(rate, all)
      BY <2>1, <3>1, RateFact DEF all
    <3>4. /\ toStakedCelo(rate, celo) \in Nat /\ toStakedCelo(rate, all - celo) \in Nat
          /\ toStakedCelo(rate, all) \in Nat
      BY <3>1, <3>2, RateFact
    <3> QED BY <3>1, <3>3, <3>4
  <2>2. CASE stCelo = toStakedCelo(rate, celo) BY <2>2
  <2> QED BY <1>1, <2>1, <2>2
<1>8. ToPlace' /\ ToTake' BY <1>1, <1>7, StateFact DEF ToPlace, ToTake
<1>9. /\ tx'.before = books /\ tx'.votedGroup = TailOf(books.activeGroups)
      /\ books' = books
      /\ UNCHANGED <<owner, owed, adjusted>>
  BY <1>1
<1> QED BY <1>2, <1>5, <1>6, <1>8, <1>9, StateFact, InTxInv

(* generateWithdrawalVoteDistribution begins.                              *)
LEMMA StartWithdrawalInv ==
  ASSUME IInv, NEW celo \in Nat, NEW stCelo \in Nat, NEW rate \in Rates,
         StartWithdrawal(celo, stCelo, rate)
  PROVE  IInv'
<1>1. /\ tx = NoTx
      /\ celo = toCelo(rate, stCelo) \/ stCelo = toStakedCelo(rate, celo)
      /\ stCelo <= owed
      /\ books.activeGroups.keys # <<>>
      /\ tx' = [kind |-> "withdraw", celo |-> celo, stCelo |-> 0, moved |-> stCelo,
                votedGroup |-> HeadOf(books.activeGroups), groupsIndex |-> 0,
                ignore |-> None, answers |-> NoAnswers, rate |-> rate,
                votes |-> NoVotes, before |-> books]
      /\ UNCHANGED <<books, owner, owed, adjusted>>
  BY DEF StartWithdrawal, Idle
<1>2. /\ HeadOf(books.activeGroups) \in Active(books) \cup {None} /\ Active(books) # {}
  BY <1>1, StateFact, EndsFact
<1>3. HeadOf(books.activeGroups) \in Groups \cup {None} BY <1>2, StateFact
<1>4. NoAnswers \in [Groups -> Answers \cup {Unasked}] /\ NoVotes \in [Groups -> Nat]
  BY DEF NoAnswers, NoVotes
<1>5. tx' \in Tx BY <1>1, <1>3, <1>4, StateFact DEF Tx
<1>6. owed <= books.totalStCeloInStrategy BY <1>1 DEF IInv, Covered, Idle
<1>7. toStakedCelo(rate, celo) <= stCelo /\ toStakedCelo(rate, celo) \in Nat
  <2>1. CASE celo = toCelo(rate, stCelo) BY <2>1, RateFact
  <2>2. CASE stCelo = toStakedCelo(rate, celo) BY <2>2
  <2> QED BY <1>1, <2>1, <2>2
<1>8. ToPlace' /\ ToTake' BY <1>1, <1>7, StateFact DEF ToPlace, ToTake
<1>9. /\ tx'.before = books /\ tx'.votedGroup = HeadOf(books.activeGroups)
      /\ books' = books
      /\ UNCHANGED <<owner, owed, adjusted>>
  BY <1>1
<1> QED BY <1>2, <1>5, <1>6, <1>8, <1>9, StateFact, InTxInv

(* The loop passes over a group.                                           *)
LEMMA PassOverInv ==
  ASSUME IInv, NEW receivable \in Answers, PassOver(receivable)
  PROVE  IInv'
<1>1. /\ tx.kind \in {"deposit", "deactivate"} /\ tx.votedGroup # None
      /\ tx' = [tx EXCEPT !.votedGroup = NextOf(books.activeGroups, tx.votedGroup),
                          !.answers[tx.votedGroup] = receivable]
      /\ UNCHANGED <<books, owner, owed, adjusted>>
  BY DEF PassOver, InLoop
<1>2. tx # NoTx BY <1>1 DEF NoTx
<1>3. NextOf(books.activeGroups, tx.votedGroup) \in Active(books) \cup {None}
  BY StateFact, EndsFact
<1>4. NextOf(books.activeGroups, tx.votedGroup) \in Groups \cup {None}
  BY <1>3, StateFact
<1>5. tx \in Tx BY <1>2, TxFact
<1>6. /\ tx' \in Tx
      /\ tx'.votedGroup = NextOf(books.activeGroups, tx.votedGroup)
      /\ tx'.kind = tx.kind /\ tx'.celo = tx.celo /\ tx'.stCelo = tx.stCelo
      /\ tx'.moved = tx.moved /\ tx'.rate = tx.rate /\ tx'.before = tx.before
  BY <1>1, <1>4, <1>5 DEF Tx
<1>7. ToPlace' /\ ToTake' BY <1>1, <1>2, <1>6, TxFact DEF ToPlace, ToTake
<1>8. /\ Sound(books', adjusted) /\ Sound(tx'.before, adjusted)
      /\ owed <= tx'.before.totalStCeloInStrategy
      /\ tx'.votedGroup \in Active(books') \cup {None} /\ Active(books') # {}
      /\ UNCHANGED <<owner, owed, adjusted>>
  BY <1>1, <1>2, <1>3, <1>6, StateFact, TxFact
<1> QED BY <1>6, <1>7, <1>8, InTxInv

(* The loop votes for a group: what it gives is never more than what is    *)
(* left, so Monus does not cut anything off.                               *)
LEMMA VoteForInv ==
  ASSUME IInv, NEW receivable \in Answers, VoteFor(receivable)
  PROVE  IInv'
<1> DEFINE g == tx.votedGroup
           votes == MinOf(receivable, tx.celo)
           stCelo == toStakedCelo(tx.rate, votes)
           next == TrySort(AddStCelo(books, g, stCelo), g, TRUE)
<1>1. /\ tx.kind \in {"deposit", "deactivate"} /\ g # None
      /\ CanTrySort(AddStCelo(books, g, stCelo), g, TRUE)
      /\ books' = next
      /\ tx' = [tx EXCEPT !.celo = tx.celo - votes,
                          !.stCelo = Monus(tx.stCelo, stCelo),
                          !.votes[g] = tx.votes[g] + votes,
                          !.answers[g] = receivable,
                          !.votedGroup = NextToVote(next, g),
                          !.groupsIndex = tx.groupsIndex + 1]
      /\ UNCHANGED <<owner, owed, adjusted>>
  BY DEF VoteFor, InLoop
<1>2. tx # NoTx BY <1>1 DEF NoTx
<1>3. /\ tx \in Tx /\ tx.celo \in Nat /\ tx.stCelo \in Nat /\ tx.groupsIndex \in Nat
      /\ tx.rate \in Rates /\ tx.votes \in [Groups -> Nat]
      /\ g \in Active(books) \cup {None} /\ Active(books) # {} /\ ToPlace
  BY <1>2, TxFact
<1>4. g \in Active(books) /\ g \in Groups BY <1>1, <1>3, StateFact
<1>5. votes \in Nat /\ votes <= tx.celo /\ tx.celo - votes \in Nat
  BY <1>3 DEF MinOf
<1>6. /\ stCelo \in Nat /\ toStakedCelo(tx.rate, tx.celo - votes) \in Nat
      /\ stCelo + toStakedCelo(tx.rate, tx.celo - votes) <= toStakedCelo(tx.rate, tx.celo)
      /\ toStakedCelo(tx.rate, tx.celo) \in Nat
  BY <1>3, <1>5, RateFact
<1>7. toStakedCelo(tx.rate, tx.celo) <= tx.stCelo BY <1>1, <1>3 DEF ToPlace
<1>8. /\ Monus(tx.stCelo, stCelo) = tx.stCelo - stCelo /\ tx.stCelo - stCelo \in Nat
      /\ toStakedCelo(tx.rate, tx.celo - votes) <= tx.stCelo - stCelo
  <2> HIDE DEF stCelo
  <2>1. stCelo <= tx.stCelo BY <1>3, <1>6, <1>7
  <2> QED BY <1>3, <1>6, <1>7, <2>1 DEF Monus
<1> HIDE DEF votes, stCelo
<1>9. /\ Sound(next, adjusted) /\ Active(next) = Active(books)
      /\ next.totalStCeloInStrategy = books.totalStCeloInStrategy + stCelo
  BY <1>1, <1>4, <1>6, StateFact, GrowFact
<1> HIDE DEF next
<1>10. NextToVote(next, g) \in Active(next) \cup {None}
  <2>1. Good(next.activeGroups) /\ Active(next) = Keys(next.activeGroups)
    BY <1>9, SoundGood
  <2> QED BY <2>1, EndsFact DEF NextToVote
<1>11. NextToVote(next, g) \in Groups \cup {None} BY <1>9, <1>10, StateFact
<1>12. tx.votes[g] + votes \in Nat /\ tx.groupsIndex + 1 \in Nat BY <1>3, <1>4, <1>5
<1>13. /\ tx' \in Tx
       /\ tx'.votedGroup = NextToVote(next, g)
       /\ tx'.kind = tx.kind /\ tx'.celo = tx.celo - votes /\ tx'.stCelo = tx.stCelo - stCelo
       /\ tx'.moved = tx.moved /\ tx'.rate = tx.rate /\ tx'.before = tx.before
  BY <1>1, <1>3, <1>5, <1>8, <1>11, <1>12 DEF Tx
<1>14. ToPlace'
  <2>1. books.totalStCeloInStrategy + tx.stCelo
          = tx.before.totalStCeloInStrategy + IF tx.kind = "deposit" THEN tx.moved ELSE 0
    BY <1>1, <1>3 DEF ToPlace
  <2>2. (books.totalStCeloInStrategy + stCelo) + (tx.stCelo - stCelo)
          = books.totalStCeloInStrategy + tx.stCelo
    BY <1>3, <1>6, StateFact
  <2> QED BY <1>1, <1>8, <1>9, <1>13, <2>1, <2>2 DEF ToPlace
<1>15. ToTake' BY <1>1, <1>13 DEF ToTake
<1>16. /\ Sound(books', adjusted) /\ Sound(tx'.before, adjusted)
       /\ owed <= tx'.before.totalStCeloInStrategy
       /\ tx'.votedGroup \in Active(books') \cup {None} /\ Active(books') # {}
       /\ UNCHANGED <<owner, owed, adjusted>>
  BY <1>1, <1>2, <1>3, <1>9, <1>10, <1>13, TxFact
<1> QED BY <1>13, <1>14, <1>15, <1>16, InTxInv

(* The loop is over: what rounding left goes to one more group.            *)
LEMMA EndDepositInv ==
  ASSUME IInv, EndDeposit
  PROVE  IInv'
<1> DEFINE g == IF tx.votedGroup = None THEN TailOf(books.activeGroups) ELSE tx.votedGroup
           next == TrySort(AddStCelo(books, g, tx.stCelo), g, TRUE)
<1>1. /\ tx.kind \in {"deposit", "deactivate"}
      /\ IF tx.stCelo = 0 THEN UNCHANGED books
         ELSE CanTrySort(AddStCelo(books, g, tx.stCelo), g, TRUE) /\ books' = next
      /\ owed' = owed + IF tx.kind = "deposit" THEN tx.moved ELSE 0
      /\ tx' = NoTx
      /\ UNCHANGED <<owner, adjusted>>
  BY DEF EndDeposit
<1>2. tx # NoTx BY <1>1 DEF NoTx
<1>3. /\ tx.stCelo \in Nat /\ tx.moved \in Nat /\ ToPlace
      /\ tx.before.totalStCeloInStrategy \in Nat /\ owed <= tx.before.totalStCeloInStrategy
      /\ tx.votedGroup \in Active(books) \cup {None} /\ Active(books) # {}
  BY <1>2, TxFact
<1>4. g \in Active(books) BY <1>3, StateFact, EndsFact
<1>5. /\ Sound(books', adjusted)
      /\ books'.totalStCeloInStrategy = books.totalStCeloInStrategy + tx.stCelo
  <2>1. CASE tx.stCelo = 0 BY <1>1, <2>1, StateFact
  <2>2. CASE tx.stCelo # 0
    <3>1. CanTrySort(AddStCelo(books, g, tx.stCelo), g, TRUE) /\ books' = next BY <1>1, <2>2
    <3>2. /\ Sound(next, adjusted)
          /\ next.totalStCeloInStrategy = books.totalStCeloInStrategy + tx.stCelo
      <4> HIDE DEF g
      <4> QED BY <1>3, <1>4, <3>1, StateFact, GrowFact
    <3> QED BY <3>1, <3>2
  <2> QED BY <2>1, <2>2
<1>6. owed' <= books'.totalStCeloInStrategy /\ owed' \in Nat
  BY <1>1, <1>3, <1>5, StateFact DEF ToPlace
<1>7. books' \in Books BY <1>5 DEF Sound
<1>8. TypeOK' BY <1>1, <1>6, <1>7 DEF IInv, TypeOK, owner
<1> QED BY <1>1, <1>5, <1>6, <1>8, IdleInv

(* The loop takes from a group.                                            *)
LEMMA WithdrawFromInv ==
  ASSUME IInv, NEW celoForGroup \in Answers, WithdrawFrom(celoForGroup)
  PROVE  IInv'
<1> DEFINE g == tx.votedGroup
           votes == Withdrawable(g, celoForGroup)
           stCelo == toStakedCelo(tx.rate, votes)
           next == TrySort(SubStCelo(books, g, stCelo), g, FALSE)
<1>1. /\ tx.kind = "withdraw" /\ g # None
      /\ HasStCelo(books, g, stCelo)
      /\ CanTrySort(SubStCelo(books, g, stCelo), g, FALSE)
      /\ books' = next
      /\ tx' = [tx EXCEPT !.celo = tx.celo - votes,
                          !.votes[g] = tx.votes[g] + votes,
                          !.answers[g] = celoForGroup,
                          !.votedGroup = NextToWithdraw(next, g),
                          !.groupsIndex = tx.groupsIndex + 1]
      /\ UNCHANGED <<owner, owed, adjusted>>
  BY DEF WithdrawFrom, InLoop
<1>2. tx # NoTx BY <1>1 DEF NoTx
<1>3. /\ tx \in Tx /\ tx.celo \in Nat /\ tx.stCelo \in Nat /\ tx.groupsIndex \in Nat
      /\ tx.moved \in Nat /\ tx.before.totalStCeloInStrategy \in Nat
      /\ tx.rate \in Rates /\ tx.votes \in [Groups -> Nat]
      /\ g \in Active(books) \cup {None} /\ Active(books) # {} /\ ToTake
  BY <1>2, TxFact
<1>4. g \in Active(books) /\ g \in Groups BY <1>1, <1>3, StateFact
<1>5. votes \in Nat /\ votes <= tx.celo /\ tx.celo - votes \in Nat
  <2>1. books.stCeloInGroup[g] \in Nat BY <1>4, StateFact
  <2>2. toCelo(tx.rate, books.stCeloInGroup[g]) \in Nat BY <1>3, <2>1, RateFact
  <2> QED BY <1>3, <2>2 DEF Withdrawable, MinOf
<1>6. /\ stCelo \in Nat /\ toStakedCelo(tx.rate, tx.celo - votes) \in Nat
      /\ stCelo + toStakedCelo(tx.rate, tx.celo - votes) <= toStakedCelo(tx.rate, tx.celo)
      /\ toStakedCelo(tx.rate, tx.celo) \in Nat
  <2> HIDE DEF votes
  <2> QED BY <1>3, <1>5, RateFact
<1> HIDE DEF votes, stCelo
<1>7. /\ Sound(next, adjusted) /\ Active(next) = Active(books)
      /\ next.totalStCeloInStrategy = books.totalStCeloInStrategy - stCelo
      /\ stCelo <= books.totalStCeloInStrategy
  BY <1>1, <1>4, <1>6, StateFact, ShrinkFact
<1> HIDE DEF next
<1>8. NextToWithdraw(next, g) \in Active(next) \cup {None}
  <2>1. Good(next.activeGroups) /\ Active(next) = Keys(next.activeGroups)
    BY <1>7, SoundGood
  <2> QED BY <2>1, EndsFact DEF NextToWithdraw
<1>9. NextToWithdraw(next, g) \in Groups \cup {None} BY <1>7, <1>8, StateFact
<1>10. tx.votes[g] + votes \in Nat /\ tx.groupsIndex + 1 \in Nat BY <1>3, <1>4, <1>5
<1>11. /\ tx' \in Tx
       /\ tx'.votedGroup = NextToWithdraw(next, g)
       /\ tx'.kind = tx.kind /\ tx'.celo = tx.celo - votes
       /\ tx'.moved = tx.moved /\ tx'.rate = tx.rate /\ tx'.before = tx.before
  BY <1>1, <1>3, <1>5, <1>9, <1>10 DEF Tx
<1>12. ToPlace' BY <1>1, <1>11 DEF ToPlace
<1>13. ToTake'
  <2>1. /\ tx.before.totalStCeloInStrategy + toStakedCelo(tx.rate, tx.celo)
             <= books.totalStCeloInStrategy + tx.moved
        /\ tx.moved <= owed
    BY <1>1, <1>3 DEF ToTake
  <2>2. tx.before.totalStCeloInStrategy + toStakedCelo(tx.rate, tx.celo - votes)
             <= (books.totalStCeloInStrategy - stCelo) + tx.moved
    BY <1>3, <1>6, <1>7, <2>1, StateFact
  <2> QED BY <1>1, <1>7, <1>11, <2>1, <2>2 DEF ToTake
<1>14. /\ Sound(books', adjusted) /\ Sound(tx'.before, adjusted)
       /\ owed <= tx'.before.totalStCeloInStrategy
       /\ tx'.votedGroup \in Active(books') \cup {None} /\ Active(books') # {}
       /\ UNCHANGED <<owner, owed, adjusted>>
  BY <1>1, <1>2, <1>3, <1>7, <1>8, <1>11, TxFact
<1> QED BY <1>11, <1>12, <1>13, <1>14, InTxInv

(* A withdrawal is over: it took no more than is burned.                   *)
LEMMA EndWithdrawalInv ==
  ASSUME IInv, EndWithdrawal
  PROVE  IInv'
<1>1. /\ tx.kind = "withdraw" /\ tx.celo = 0 /\ owed' = owed - tx.moved /\ tx' = NoTx
      /\ UNCHANGED <<books, owner, adjusted>>
  BY DEF EndWithdrawal
<1>2. tx # NoTx BY <1>1 DEF NoTx
<1>3. /\ tx.moved \in Nat /\ tx.before.totalStCeloInStrategy \in Nat /\ ToTake
      /\ owed <= tx.before.totalStCeloInStrategy /\ tx.rate \in Rates /\ tx.celo \in Nat
  BY <1>2, TxFact
<1>4. toStakedCelo(tx.rate, tx.celo) \in Nat BY <1>3, RateFact
<1>5. owed' <= books'.totalStCeloInStrategy /\ owed' \in Nat
  BY <1>1, <1>3, <1>4, StateFact DEF ToTake
<1>6. Sound(books', adjusted') BY <1>1, StateFact
<1>7. TypeOK' BY <1>1, <1>5 DEF IInv, TypeOK, owner
<1> QED BY <1>1, <1>5, <1>6, <1>7, IdleInv

(* A transaction that reverts brings back books that were good.            *)
LEMMA RevertInv ==
  ASSUME IInv, Revert
  PROVE  IInv'
<1>1. /\ tx # NoTx /\ books' = tx.before /\ tx' = NoTx
      /\ UNCHANGED <<owner, owed, adjusted>>
  BY DEF Revert, Idle
<1>2. /\ Sound(tx.before, adjusted) /\ tx.before \in Books
      /\ owed <= tx.before.totalStCeloInStrategy
  BY <1>1, TxFact
<1>3. TypeOK' BY <1>1, <1>2 DEF IInv, TypeOK, owner
<1> QED BY <1>1, <1>2, <1>3, IdleInv

(* A group leaves the list.  Whatever it had is nobody's until it is spread, *)
(* so the books are as good as if the owner had corrected it.              *)
LEMMA WithoutFact ==
  ASSUME NEW adj, NEW b, Sound(b, adj), NEW g \in Active(b)
  PROVE  /\ Sound(Without(b, g), adj \cup {g})
         /\ Active(Without(b, g)) = Active(b) \ {g}
         /\ Without(b, g).totalStCeloInStrategy = b.totalStCeloInStrategy
         /\ Without(b, g).stCeloInGroup = b.stCeloInGroup
<1> DEFINE l == Remove(b.activeGroups, g)
           r == Without(b, g)
<1>1. /\ Good(b.activeGroups) /\ Active(b) = Keys(b.activeGroups) /\ Active(b) \subseteq Groups
      /\ b \in Books
  BY SoundGood DEF Sound
<1>2. /\ Good(l) /\ Keys(l) = Active(b) \ {g}
      /\ \A h \in Groups : h # g => l.values[h] = b.activeGroups.values[h]
  BY <1>1, RemoveFact
<1>3. r = [b EXCEPT !.activeGroups = l, !.unsortedGroups = b.unsortedGroups \ {g}]
  BY DEF Without
<1> HIDE DEF l, r
<1>4. /\ r.activeGroups = l /\ r.stCeloInGroup = b.stCeloInGroup
      /\ r.totalStCeloInStrategy = b.totalStCeloInStrategy
      /\ r.sorted = b.sorted /\ r.unsortedGroups = b.unsortedGroups \ {g}
      /\ r \in Books
  BY <1>1, <1>2, <1>3 DEF Books, Good, Lists
<1>5. Active(r) = Active(b) \ {g} BY <1>2, <1>4 DEF Active
<1>6. Sound(r, adj \cup {g})
  <2>1. Ordered(r.activeGroups) BY <1>2, <1>4 DEF Good
  <2>2. r.unsortedGroups \subseteq Active(r) BY <1>4, <1>5 DEF Sound
  <2>3. r.sorted => r.unsortedGroups = {} BY <1>4 DEF Sound
  <2>4. \A h \in Active(r) \ (r.unsortedGroups \cup adj \cup {g}) :
          r.activeGroups.values[h] = r.stCeloInGroup[h]
    BY <1>1, <1>2, <1>4, <1>5 DEF Sound
  <2>5. \A h \in Groups \ (Active(r) \cup adj \cup {g}) : r.stCeloInGroup[h] = 0
    BY <1>4, <1>5 DEF Sound
  <2> QED BY <1>4, <2>1, <2>2, <2>3, <2>4, <2>5 DEF Sound
<1> QED BY <1>4, <1>5, <1>6 DEF r

(* ... and a group with nothing needs no excuse.                           *)
LEMMA EmptiedFact ==
  ASSUME NEW adj, NEW b, NEW g, Sound(b, adj \cup {g}), g \notin Active(b),
         b.stCeloInGroup[g] = 0
  PROVE  Sound(b, adj)
BY DEF Sound

(* A group leaves the list and gives up all it has.                        *)
LEMMA EmptyOutFact ==
  ASSUME NEW adj, NEW b, Sound(b, adj), NEW g \in Active(b), NEW n \in Nat,
         n = b.stCeloInGroup[g], HasStCelo(b, g, n)
  PROVE  /\ Sound(SubStCelo(Without(b, g), g, n), adj)
         /\ Active(SubStCelo(Without(b, g), g, n)) = Active(b) \ {g}
         /\ SubStCelo(Without(b, g), g, n).totalStCeloInStrategy
              = b.totalStCeloInStrategy - n
         /\ n <= b.totalStCeloInStrategy
<1> DEFINE w == Without(b, g)
           r == SubStCelo(w, g, n)
           more == adj \cup {g}
<1>1. g \in Groups BY SoundGood
<1>2. /\ Sound(w, more) /\ Active(w) = Active(b) \ {g}
      /\ w.totalStCeloInStrategy = b.totalStCeloInStrategy
      /\ w.stCeloInGroup = b.stCeloInGroup
  BY WithoutFact
<1>3. HasStCelo(w, g, n) BY <1>2 DEF HasStCelo
<1> HIDE DEF w, more
<1>4. /\ Sound(r, more \cup {g}) /\ Active(r) = Active(w)
      /\ r.totalStCeloInStrategy = w.totalStCeloInStrategy - n
      /\ r.stCeloInGroup[g] = w.stCeloInGroup[g] - n
      /\ n <= w.totalStCeloInStrategy
  <2>1. Sound(w, more) BY <1>2
  <2>2. n \in Nat OBVIOUS
  <2> QED BY ONLY <1>1, <1>3, <2>1, <2>2, SubFact
<1>5. more \cup {g} = adj \cup {g} BY DEF more
<1> HIDE DEF r
<1>6. r.stCeloInGroup[g] = 0 /\ g \notin Active(r) BY <1>2, <1>4
<1>7. Sound(r, adj) BY <1>4, <1>5, <1>6, EmptiedFact
<1> QED BY <1>2, <1>4, <1>7 DEF r, w

(* deactivateGroup and deactivateUnhealthyGroup.                           *)
LEMMA DeactivateInv ==
  ASSUME IInv, NEW g \in Groups, NEW rate \in Rates, Deactivate(g, rate)
  PROVE  IInv'
<1> DEFINE removed == Without(books, g)
           stCelo == books.stCeloInGroup[g]
           rest == SubStCelo(removed, g, stCelo)
<1>1. /\ tx = NoTx /\ g \in Active(books)
      /\ UNCHANGED <<owner, owed, adjusted>>
      /\ owed <= books.totalStCeloInStrategy
  BY DEF Deactivate, Idle, IInv, Covered
<1>2. stCelo \in Nat BY StateFact
<1>3. /\ Sound(removed, adjusted \cup {g}) /\ Active(removed) = Active(books) \ {g}
      /\ removed.totalStCeloInStrategy = books.totalStCeloInStrategy
      /\ removed.stCeloInGroup = books.stCeloInGroup
  BY <1>1, StateFact, WithoutFact
<1>4. CASE stCelo = 0
  <2>1. books' = removed /\ tx' = NoTx BY <1>1, <1>4 DEF Deactivate
  <2> HIDE DEF removed
  <2>2. Sound(removed, adjusted) BY <1>3, <1>4, EmptiedFact
  <2>3. removed \in Books BY <2>2 DEF Sound
  <2>4. TypeOK' BY <1>1, <2>1, <2>3 DEF IInv, TypeOK, owner
  <2> QED BY <1>1, <1>3, <2>1, <2>2, <2>4, IdleInv
<1>5. CASE stCelo # 0
  <2>1. /\ HasStCelo(books, g, stCelo)
        /\ removed.activeGroups.keys # <<>>
        /\ books' = rest
        /\ tx' = [kind |-> "deactivate", celo |-> toCelo(rate, stCelo),
                  stCelo |-> stCelo, moved |-> stCelo,
                  votedGroup |-> TailOf(removed.activeGroups), groupsIndex |-> 0,
                  ignore |-> None, answers |-> NoAnswers, rate |-> rate,
                  votes |-> NoVotes, before |-> books]
    BY <1>5 DEF Deactivate
  <2>2. /\ Sound(rest, adjusted) /\ Active(rest) = Active(books) \ {g}
        /\ rest.totalStCeloInStrategy = books.totalStCeloInStrategy - stCelo
        /\ stCelo <= books.totalStCeloInStrategy
    <3> HIDE DEF stCelo
    <3> QED BY <1>1, <1>2, <2>1, StateFact, EmptyOutFact DEF stCelo
  <2> HIDE DEF rest, removed
  <2>3. /\ TailOf(removed.activeGroups) \in Active(rest) \cup {None} /\ Active(rest) # {}
        /\ Active(rest) \subseteq Groups
    <3>1. Good(removed.activeGroups) /\ Active(removed) = Keys(removed.activeGroups)
      BY <1>3, SoundGood
    <3> QED BY <1>3, <2>1, <2>2, <3>1, StateFact, EndsFact
  <2>4. /\ toCelo(rate, stCelo) \in Nat
        /\ toStakedCelo(rate, toCelo(rate, stCelo)) <= stCelo
    <3> HIDE DEF stCelo
    <3> QED BY <1>2, RateFact
  <2>5. NoAnswers \in [Groups -> Answers \cup {Unasked}] /\ NoVotes \in [Groups -> Nat]
    BY DEF NoAnswers, NoVotes
  <2> HIDE DEF stCelo
  <2>6. tx' \in Tx BY <1>2, <2>1, <2>3, <2>4, <2>5, StateFact DEF Tx
  <2>7. ToPlace' /\ ToTake'
    BY <1>2, <1>3, <2>1, <2>2, <2>4, StateFact DEF ToPlace, ToTake
  <2>8. tx'.before = books /\ tx'.votedGroup = TailOf(removed.activeGroups) BY <2>1
  <2> QED BY <1>1, <2>1, <2>2, <2>3, <2>6, <2>7, <2>8, StateFact, InTxInv
<1> QED BY <1>4, <1>5

(* updateActiveGroupOrder: the list learns what the group has, and the     *)
(* flag is set again by the last of the unsorted groups.                   *)
LEMMA UpdateActiveGroupOrderInv ==
  ASSUME IInv, NEW g \in Groups, NEW lesser, NEW greater,
         UpdateActiveGroupOrder(g, lesser, greater)
  PROVE  IInv'
<1> DEFINE value == books.stCeloInGroup[g]
           unsorted == books.unsortedGroups \ {g}
           l == Update(books.activeGroups, g, value, lesser, greater)
<1>1. /\ tx = NoTx /\ tx' = NoTx
      /\ g \in books.unsortedGroups
      /\ CanUpdate(books.activeGroups, g, value, lesser, greater)
      /\ books' = [books EXCEPT !.activeGroups = l, !.unsortedGroups = unsorted,
                                !.sorted = books.sorted \/ unsorted = {}]
      /\ UNCHANGED <<owner, owed, adjusted>>
      /\ owed <= books.totalStCeloInStrategy
  BY DEF UpdateActiveGroupOrder, Idle, IInv, Covered
<1>2. value \in Nat BY StateFact
<1> HIDE DEF value
<1>3. /\ Good(l) /\ Keys(l) = Active(books) /\ l.values[g] = value
      /\ \A h \in Groups : h # g => l.values[h] = books.activeGroups.values[h]
  BY <1>1, <1>2, StateFact, UpdateFact
<1> HIDE DEF l
<1>4. /\ books'.activeGroups = l /\ books'.stCeloInGroup = books.stCeloInGroup
      /\ books'.totalStCeloInStrategy = books.totalStCeloInStrategy
      /\ books'.sorted = (books.sorted \/ unsorted = {})
      /\ books'.unsortedGroups = unsorted
      /\ books' \in Books
  <2>1. books \in Books BY StateFact
  <2> QED BY <1>1, <1>3, <2>1 DEF Books, Good, Lists
<1>5. Active(books') = Active(books) BY <1>3, <1>4 DEF Active
<1>6. Sound(books', adjusted)
  <2>1. Ordered(books'.activeGroups) BY <1>3, <1>4 DEF Good
  <2>2. books'.unsortedGroups \subseteq Active(books') BY <1>4, <1>5, StateFact DEF Sound
  <2>3. books'.sorted => books'.unsortedGroups = {} BY <1>1, <1>4, StateFact DEF Sound
  <2>4. \A h \in Active(books') \ (books'.unsortedGroups \cup adjusted) :
          books'.activeGroups.values[h] = books'.stCeloInGroup[h]
    BY <1>3, <1>4, <1>5, StateFact DEF Sound, value
  <2>5. \A h \in Groups \ (Active(books') \cup adjusted) : books'.stCeloInGroup[h] = 0
    BY <1>4, <1>5, StateFact DEF Sound
  <2> QED BY <1>4, <2>1, <2>2, <2>3, <2>4, <2>5 DEF Sound
<1>7. TypeOK' BY <1>1, <1>4 DEF IInv, TypeOK, owner
<1> QED BY <1>1, <1>4, <1>6, <1>7, IdleInv

(* activateGroup: the group enters with nothing, which is what it has.     *)
LEMMA ActivateGroupInv ==
  ASSUME IInv, NEW g \in Groups, NEW valid, NEW lesser, NEW greater,
         ActivateGroup(g, valid, lesser, greater)
  PROVE  IInv'
<1> DEFINE l == Insert(books.activeGroups, g, 0, lesser, greater)
<1>1. /\ tx = NoTx /\ tx' = NoTx
      /\ CanInsert(books.activeGroups, g, 0, lesser, greater)
      /\ books' = [books EXCEPT !.activeGroups = l]
      /\ activatableGroups' = activatableGroups \ {g}
      /\ UNCHANGED <<minCountOfActiveGroups, sortingParams, paused, owed, adjusted>>
      /\ owed <= books.totalStCeloInStrategy
  BY DEF ActivateGroup, Idle, IInv, Covered
<1>2. /\ Good(l) /\ Keys(l) = Active(books) \cup {g} /\ l.values[g] = 0
      /\ \A h \in Groups : h # g => l.values[h] = books.activeGroups.values[h]
  BY <1>1, StateFact, InsertFact
<1>3. g \notin Active(books) BY <1>1, StateFact DEF CanInsert
<1> HIDE DEF l
<1>4. /\ books'.activeGroups = l /\ books'.stCeloInGroup = books.stCeloInGroup
      /\ books'.totalStCeloInStrategy = books.totalStCeloInStrategy
      /\ books'.sorted = books.sorted /\ books'.unsortedGroups = books.unsortedGroups
      /\ books' \in Books
  <2>1. books \in Books BY StateFact
  <2> QED BY <1>1, <1>2, <2>1 DEF Books, Good, Lists
<1>5. Active(books') = Active(books) \cup {g} BY <1>2, <1>4 DEF Active
<1>6. Sound(books', adjusted)
  <2>1. Ordered(books'.activeGroups) BY <1>2, <1>4 DEF Good
  <2>2. books'.unsortedGroups \subseteq Active(books') BY <1>4, <1>5, StateFact DEF Sound
  <2>3. books'.sorted => books'.unsortedGroups = {} BY <1>4, StateFact DEF Sound
  <2>4. \A h \in Active(books') \ (books'.unsortedGroups \cup adjusted) :
          books'.activeGroups.values[h] = books'.stCeloInGroup[h]
    BY <1>2, <1>3, <1>4, <1>5, StateFact DEF Sound
  <2>5. \A h \in Groups \ (Active(books') \cup adjusted) : books'.stCeloInGroup[h] = 0
    BY <1>4, <1>5, StateFact DEF Sound
  <2> QED BY <1>4, <2>1, <2>2, <2>3, <2>4, <2>5 DEF Sound
<1>7. TypeOK' BY <1>1, <1>4 DEF IInv, TypeOK
<1> QED BY <1>1, <1>4, <1>6, <1>7, IdleInv

(* Settings and lists that the books do not depend on.                     *)
LEMMA SettingInv ==
  ASSUME IInv, Idle, UNCHANGED <<books, tx, owed, adjusted>>, TypeOK'
  PROVE  IInv'
<1>1. tx' = NoTx /\ owed' <= books'.totalStCeloInStrategy BY DEF Idle, IInv, Covered
<1>2. Sound(books', adjusted') BY StateFact
<1> QED BY <1>1, <1>2, IdleInv

(* rebalance moves what the richer group can spare and the poorer needs.   *)
LEMMA RebalanceInv ==
  ASSUME IInv, NEW from \in Groups, NEW to \in Groups, Rebalance(from, to)
  PROVE  IInv'
<1> DEFINE toMove == MinOf(Surplus(from), -Surplus(to))
           taken == SubStCelo(books, from, toMove)
           between == TrySort(taken, from, FALSE)
           moved == AddStCelo(between, to, toMove)
<1>1. /\ tx = NoTx /\ tx' = NoTx
      /\ from \in Active(books) /\ to \in Active(books)
      /\ Surplus(from) > 0 /\ Surplus(to) < 0
      /\ HasStCelo(books, from, toMove)
      /\ CanTrySort(taken, from, FALSE)
      /\ CanTrySort(moved, to, TRUE)
      /\ books' = TrySort(moved, to, TRUE)
      /\ UNCHANGED <<owner, owed, adjusted>>
      /\ owed <= books.totalStCeloInStrategy
  BY DEF Rebalance, Idle, IInv, Covered
<1>2. toMove \in Nat
  <2> DEFINE n == Len(books.activeGroups.keys)
             share == books.totalStCeloInStrategy \div n
  <2>1. n \in Nat /\ n > 0
    <3>1. n \in Nat /\ DOMAIN books.activeGroups.keys = 1 .. n BY StateFact, KeyAtFact
    <3> QED BY <1>1, <3>1, StateFact DEF Keys
  <2>2. share \in Nat /\ books.totalStCeloInStrategy \in Nat BY <2>1, StateFact, DivFact
  <2>3. share * n \in Nat BY <2>1, <2>2, ProductNat
  <2>4. \A g \in {from, to} : ExpectedStCelo(g) \in Int
    <3>1. \A g \in {from, to} :
            ExpectedStCelo(g) = share + IF g = HeadOf(books.activeGroups)
                                        THEN books.totalStCeloInStrategy - share * n ELSE 0
      BY DEF ExpectedStCelo
    <3> HIDE DEF share, n
    <3> QED BY <2>2, <2>3, <3>1
  <2>5. Surplus(from) \in Int /\ Surplus(to) \in Int BY <2>4, StateFact DEF Surplus
  <2> QED BY <1>1, <2>5 DEF MinOf
<1> HIDE DEF toMove
<1>3. /\ Sound(between, adjusted) /\ Active(between) = Active(books)
      /\ between.totalStCeloInStrategy = books.totalStCeloInStrategy - toMove
      /\ toMove <= books.totalStCeloInStrategy
  BY <1>1, <1>2, StateFact, ShrinkFact
<1> HIDE DEF between
<1>4. /\ Sound(books', adjusted) /\ Active(books') = Active(between)
      /\ books'.totalStCeloInStrategy = between.totalStCeloInStrategy + toMove
  BY <1>1, <1>2, <1>3, GrowFact
<1>5. owed' <= books'.totalStCeloInStrategy
  <2>1. books'.totalStCeloInStrategy = books.totalStCeloInStrategy
    <3>1. books.totalStCeloInStrategy \in Nat BY StateFact
    <3> QED BY ONLY <1>2, <1>3, <1>4, <3>1
  <2> QED BY <1>1, <2>1
<1>6. books' \in Books BY <1>4 DEF Sound
<1>7. TypeOK' BY <1>1, <1>6 DEF IInv, TypeOK, owner
<1> QED BY <1>1, <1>4, <1>5, <1>7, IdleInv

(* updateGroupStCelo: the owner is answerable for the group from now on.   *)
LEMMA UpdateGroupStCeloInv ==
  ASSUME IInv, NEW g \in Groups, NEW n \in Adjustments, NEW add \in BOOLEAN,
         UpdateGroupStCelo(g, n, add)
  PROVE  IInv'
<1>1. /\ tx = NoTx /\ tx' = NoTx /\ adjusted' = adjusted \cup {g} /\ n \in Nat
      /\ UNCHANGED owner
      /\ owed <= books.totalStCeloInStrategy
  BY DEF UpdateGroupStCelo, Idle, IInv, Covered
<1>2. /\ Sound(books', adjusted \cup {g})
      /\ owed' \in Nat /\ owed' <= books'.totalStCeloInStrategy
  <2>1. CASE add
    <3>1. books' = AddStCelo(books, g, n) /\ owed' = owed + n
      BY <2>1 DEF UpdateGroupStCelo
    <3>2. /\ Sound(books', adjusted \cup {g})
          /\ books'.totalStCeloInStrategy = books.totalStCeloInStrategy + n
      BY <1>1, <3>1, StateFact, AddFact
    <3> QED BY <1>1, <3>1, <3>2, StateFact
  <2>2. CASE ~add
    <3>1. HasStCelo(books, g, n) /\ books' = SubStCelo(books, g, n) /\ owed' = Monus(owed, n)
      BY <2>2 DEF UpdateGroupStCelo
    <3>2. /\ Sound(books', adjusted \cup {g})
          /\ books'.totalStCeloInStrategy = books.totalStCeloInStrategy - n
          /\ n <= books.totalStCeloInStrategy
      BY <1>1, <3>1, StateFact, SubFact
    <3> QED BY <1>1, <3>1, <3>2, StateFact DEF Monus
  <2> QED BY <2>1, <2>2
<1>3. books' \in Books /\ adjusted' \subseteq Groups BY <1>1, <1>2, StateFact DEF Sound
<1>4. TypeOK' BY <1>1, <1>2, <1>3 DEF IInv, TypeOK, owner
<1> QED BY <1>1, <1>2, <1>4, IdleInv

(* So every step keeps the invariant.                                      *)
LEMMA NextInv == IInv /\ [Next]_vars => IInv'
<1> SUFFICES ASSUME IInv, [Next]_vars PROVE IInv' OBVIOUS
<1>1. CASE LoopStep
  <2>1. ASSUME NEW answer \in Answers, PassOver(answer) PROVE IInv' BY <2>1, PassOverInv
  <2>2. ASSUME NEW answer \in Answers, VoteFor(answer) PROVE IInv' BY <2>2, VoteForInv
  <2>3. ASSUME NEW answer \in Answers, WithdrawFrom(answer) PROVE IInv'
    BY <2>3, WithdrawFromInv
  <2> QED BY <1>1, <2>1, <2>2, <2>3, EndDepositInv, EndWithdrawalInv, RevertInv DEF LoopStep
<1>2. CASE DistributionStep
  <2>1. PICK rate \in Rates, n \in 0 .. MaxStCelo :
          \/ \E ignore \in Groups \cup {None} :
               \/ StartDeposit(n, toStakedCelo(rate, n), ignore, rate)
               \/ \E celo \in 0 .. toCelo(rate, n) : StartDeposit(celo, n, ignore, rate)
          \/ StartWithdrawal(n, toStakedCelo(rate, n), rate)
          \/ StartWithdrawal(toCelo(rate, n), n, rate)
    BY <1>2 DEF DistributionStep
  <2>2. n \in Nat /\ toStakedCelo(rate, n) \in Nat /\ toCelo(rate, n) \in Nat BY RateFact
  <2>3. ASSUME NEW ignore \in Groups \cup {None},
               \/ StartDeposit(n, toStakedCelo(rate, n), ignore, rate)
               \/ \E celo \in 0 .. toCelo(rate, n) : StartDeposit(celo, n, ignore, rate)
        PROVE  IInv'
    <3>1. ASSUME NEW celo \in 0 .. toCelo(rate, n), StartDeposit(celo, n, ignore, rate)
          PROVE  IInv'
      <4>1. celo \in Nat BY <2>2
      <4> QED BY <2>2, <3>1, <4>1, StartDepositInv
    <3>2. CASE StartDeposit(n, toStakedCelo(rate, n), ignore, rate)
      BY <2>2, <3>2, StartDepositInv
    <3> QED BY <2>3, <3>1, <3>2
  <2>4. ASSUME \/ StartWithdrawal(n, toStakedCelo(rate, n), rate)
               \/ StartWithdrawal(toCelo(rate, n), n, rate)
        PROVE  IInv'
    BY <2>2, <2>4, StartWithdrawalInv, Zenon
  <2> QED BY <2>1, <2>3, <2>4
<1>3. CASE DeactivationStep
  <2>1. PICK g \in Groups, rate \in Rates : Deactivate(g, rate)
    BY <1>3 DEF DeactivationStep, DeactivateGroup, DeactivateUnhealthyGroup
  <2> QED BY <2>1, DeactivateInv
<1>4. CASE ActivationStep
  <2>1. PICK g \in Groups, valid \in BOOLEAN :
          \/ AddActivatableGroup(g, valid)
          \/ \E lesser, greater \in Groups \cup {None} : ActivateGroup(g, valid, lesser, greater)
    BY <1>4 DEF ActivationStep
  <2>2. CASE AddActivatableGroup(g, valid)
    <3>1. TypeOK' BY <2>2 DEF AddActivatableGroup, IInv, TypeOK
    <3> QED BY <2>2, <3>1, SettingInv DEF AddActivatableGroup
  <2>3. ASSUME NEW lesser \in Groups \cup {None}, NEW greater \in Groups \cup {None},
               ActivateGroup(g, valid, lesser, greater)
        PROVE  IInv'
    BY <2>3, ActivateGroupInv
  <2> QED BY <2>1, <2>2, <2>3
<1>5. CASE SortStep
  <2>1. PICK g \in Groups, lesser, greater \in Groups \cup {None} :
          UpdateActiveGroupOrder(g, lesser, greater)
    BY <1>5 DEF SortStep
  <2> QED BY <2>1, UpdateActiveGroupOrderInv
<1>6. CASE RebalanceStep
  <2>1. PICK from, to \in Groups : Rebalance(from, to) BY <1>6 DEF RebalanceStep
  <2> QED BY <2>1, RebalanceInv
<1>7. CASE CorrectionStep
  <2>1. PICK g \in Groups, n \in Adjustments, add \in BOOLEAN : UpdateGroupStCelo(g, n, add)
    BY <1>7 DEF CorrectionStep
  <2> QED BY <2>1, UpdateGroupStCeloInv
<1>8. CASE SettingStep
  <2>1. Idle /\ UNCHANGED <<books, tx, owed, adjusted>>
    BY <1>8 DEF SettingStep, SetMinCountOfActiveGroups, SetSortingParams, SetPaused
  <2>2. TypeOK'
    BY <1>8, <2>1 DEF SettingStep, SetMinCountOfActiveGroups, SetSortingParams, SetPaused,
                      IInv, TypeOK
  <2> QED BY <2>1, <2>2, SettingInv
<1>9. CASE UNCHANGED vars
  <2>1. UNCHANGED <<books, owner, tx, owed, adjusted>> BY <1>9 DEF vars
  <2>2. TypeOK' /\ Sound(books', adjusted') /\ Covered'
    BY <2>1 DEF IInv, TypeOK, owner, Covered, Idle
  <2>3. InTx'
    BY <2>1 DEF IInv, InTx, ToPlace, ToTake
  <2> QED BY <2>2, <2>3 DEF IInv
<1> QED BY <1>1, <1>2, <1>3, <1>4, <1>5, <1>6, <1>7, <1>8, <1>9 DEF Next

----------------------------------------------------------------------------
(* What the invariant says of the properties.                              *)
LEMMA InvSorted == IInv => SortedMeansSorted
<1> SUFFICES ASSUME IInv, books.sorted, adjusted = {},
                    NEW i \in DOMAIN books.activeGroups.keys,
                    NEW j \in DOMAIN books.activeGroups.keys, i < j
             PROVE  books.stCeloInGroup[books.activeGroups.keys[i]]
                      <= books.stCeloInGroup[books.activeGroups.keys[j]]
  BY DEF SortedMeansSorted
<1> DEFINE g == books.activeGroups.keys[i]
           h == books.activeGroups.keys[j]
<1>1. Sound(books, adjusted) BY StateFact
<1>2. g \in Active(books) /\ h \in Active(books) BY DEF Active, Keys
<1>3. books.activeGroups.values[g] <= books.activeGroups.values[h]
  BY <1>1 DEF Sound, Ordered
<1> HIDE DEF g, h
<1>4. /\ books.activeGroups.values[g] = books.stCeloInGroup[g]
      /\ books.activeGroups.values[h] = books.stCeloInGroup[h]
  BY <1>1, <1>2 DEF Sound
<1> QED BY <1>3, <1>4 DEF g, h

(* Without the group the list is still in order, and there is a place in   *)
(* it for any value.                                                       *)
LEMMA InvSortable == IInv => AlwaysSortable
<1> SUFFICES ASSUME IInv, NEW g \in books.unsortedGroups
             PROVE  \E lesser, greater \in Groups \cup {None} :
                      CanUpdate(books.activeGroups, g, books.stCeloInGroup[g], lesser, greater)
  BY DEF AlwaysSortable
<1> DEFINE l == Remove(books.activeGroups, g)
           value == books.stCeloInGroup[g]
<1>1. g \in Active(books) /\ g \in Groups BY StateFact DEF Sound
<1>2. value \in Nat BY <1>1, StateFact
<1>3. Good(l) /\ g \notin Keys(l) BY <1>1, StateFact, RemoveFact
<1> HIDE DEF l, value
<1>4. PICK lesser, greater \in Groups \cup {None} : CanInsert(l, g, value, lesser, greater)
  BY <1>1, <1>2, <1>3, HintExists
<1>5. CanUpdate(books.activeGroups, g, value, lesser, greater)
  BY <1>1, <1>4, StateFact DEF CanUpdate, l
<1> QED BY <1>5 DEF value

(* The invariant holds in every state, for any groups, rates and answers.  *)
THEOREM AlwaysSound == Spec => []IInv
BY InitInv, NextInv, PTL DEF Spec

(* Every variable keeps its type: in particular no amount that the code    *)
(* subtracts from goes below zero, so none of its subtractions reverts for *)
(* want of stCELO in the books.                                            *)
THEOREM TypeCorrect == Spec => []TypeOK
<1>1. IInv => TypeOK BY DEF IInv
<1> QED BY <1>1, AlwaysSound, PTL

(* The list agrees with the books about every group that neither a short   *)
(* walk nor the owner left out of order.                                   *)
THEOREM AlwaysTracksStCelo == Spec => []ListTracksStCelo
<1>1. IInv => ListTracksStCelo BY DEF IInv, Sound, ListTracksStCelo
<1> QED BY <1>1, AlwaysSound, PTL

(* While the flag says sorted, the list ascends by the stCELO the groups   *)
(* really have, also in the middle of a loop.                              *)
THEOREM FlagReliable == Spec => []SortedMeansSorted
<1> QED BY InvSorted, AlwaysSound, PTL

(* A group that left the list, or never was in it, holds no stCELO.        *)
THEOREM NeverStranded == Spec => []NoneStranded
<1>1. IInv => NoneStranded BY DEF IInv, Sound, NoneStranded
<1> QED BY <1>1, AlwaysSound, PTL

(* Between transactions the books cover the stCELO of every depositor: at  *)
(* any rate and however many groups a withdrawal is split over, rounding   *)
(* never takes more out of the books than is burned.                       *)
THEOREM AlwaysCovered == Spec => []Covered
<1>1. IInv => Covered BY DEF IInv
<1> QED BY <1>1, AlwaysSound, PTL

(* A deposit or deactivation loses and creates no stCELO, whatever rate    *)
(* its parts are rounded at.                                               *)
THEOREM NeverLost == Spec => []NothingLost
<1>1. IInv => NothingLost
  <2> SUFFICES ASSUME IInv, tx.kind \in {"deposit", "deactivate"}
               PROVE  books.totalStCeloInStrategy + tx.stCelo
                        = tx.before.totalStCeloInStrategy
                            + IF tx.kind = "deposit" THEN tx.moved ELSE 0
    BY DEF NothingLost
  <2>1. tx # NoTx BY DEF NoTx
  <2> QED BY <2>1, TxFact DEF ToPlace
<1> QED BY <1>1, AlwaysSound, PTL

(* An unsorted group can always be put in order: for any list and any      *)
(* amount there are hints with which updateActiveGroupOrder succeeds.      *)
THEOREM CanAlwaysSort == Spec => []AlwaysSortable
<1> QED BY InvSortable, AlwaysSound, PTL
============================================================================
