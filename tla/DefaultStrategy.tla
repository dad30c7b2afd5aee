-------------------------- MODULE DefaultStrategy --------------------------
(***************************************************************************)
(* src/contracts/DefaultStrategy.sol: how stCELO deposited without a       *)
(* choice of group is spread over the active groups.  New votes go to the  *)
(* tail of the sorted list of groups, withdrawals come from its head.      *)
(*                                                                         *)
(* Nothing interleaves with a transaction, but a deposit, withdrawal or    *)
(* deactivation visits groups in a loop, and the loop reads what its       *)
(* earlier turns wrote.  So these three run in steps, one for each turn:   *)
(* tx holds their local variables, and everything else waits until it is   *)
(* NoTx again.  They may revert at any step, by a check of their own, of   *)
(* the caller after they return, or for want of gas; that restores the     *)
(* storage they started from.  All other transactions are a single step,   *)
(* and their reverts are guards.                                           *)
(*                                                                         *)
(* What the other contracts answer is an input of the transaction:         *)
(* Manager's rate between CELO and stCELO, its receivable votes, Account's *)
(* CELO for a group, GroupHealth's verdict.  None changes meanwhile, so    *)
(* the same question gets the same answer every time a loop asks it.       *)
(***************************************************************************)
EXTENDS SortedGroups, Amounts

CONSTANTS
  Rates,        \* rates between stCELO and CELO
  Answers,      \* bound: numbers of votes or CELO that a group is said to have
  SortingParams, \* what the owner may set with setSortingParams
  MinCounts,    \* what the owner may set with setMinCountOfActiveGroups
  Adjustments,  \* amounts the owner may pass to updateGroupStCelo
  MaxStCelo,    \* bound: stCELO in the strategy
  MaxAdjusted   \* bound: groups that the owner corrects

Rate == [stCelo : Nat \ {0}, celo : Nat \ {0}]
Params == [distributeTo : Nat, withdrawFrom : Nat, loopLimit : Nat]

ASSUME GroupsAssumption == IsFiniteSet(Groups)
ASSUME InputsAssumption == /\ Rates \subseteq Rate
                           /\ Answers \subseteq Nat
                           /\ SortingParams \subseteq Params
                           /\ MinCounts \subseteq Nat
                           /\ Adjustments \subseteq Nat
                           /\ {MaxStCelo, MaxAdjusted} \subseteq Nat

VARIABLES
  books,             \* the storage that transactions in steps write
  activatableGroups,
  minCountOfActiveGroups,
  sortingParams,     \* the two maxima and sortingLoopLimit
  paused,            \* Pausable
  tx,                \* the transaction in progress
  owed,              \* history: stCELO of those whose votes the strategy casts
  adjusted           \* history: groups the owner corrected

owner == <<activatableGroups, minCountOfActiveGroups, sortingParams, paused>>
vars == <<books, owner, tx, owed, adjusted>>

Bug_RoundsUp(r, celo) == (celo * r.stCelo + r.celo - 1) \div r.celo

(* Manager.toStakedCelo and toCelo at a rate r.  With no stCELO or no CELO *)
(* in the system they are the identity, as at the rate one to one.         *)
toStakedCelo(r, celo) == (celo * r.stCelo) \div r.celo
toCelo(r, stCelo) == (stCelo * r.celo) \div r.stCelo

Active(b) == Keys(b.activeGroups)

Unasked == -1

NoAnswers == [g \in Groups |-> Unasked]
NoVotes == [g \in Groups |-> 0]

NoTx == [kind |-> "none"]

----------------------------------------------------------------------------
(* Changes to the books b.                                                 *)

(* _updateGroupStCelo.                                                     *)
AddStCelo(b, g, n) ==
  [b EXCEPT !.stCeloInGroup[g] = @ + n, !.totalStCeloInStrategy = @ + n]

HasStCelo(b, g, n) == n <= b.stCeloInGroup[g] /\ n <= b.totalStCeloInStrategy

Bug_KeepsGroup(b, g, n) == [b EXCEPT !.totalStCeloInStrategy = @ - n]

SubStCelo(b, g, n) ==
  [b EXCEPT !.stCeloInGroup[g] = @ - n, !.totalStCeloInStrategy = @ - n]

(* trySort, once the stCELO of g has grown or shrunk.                      *)
Hint(b, g, increased) ==
  IF increased
  THEN NeighboursIfIncreased(b.activeGroups, g, b.stCeloInGroup[g], sortingParams.loopLimit)
  ELSE NeighboursIfDecreased(b.activeGroups, g, b.stCeloInGroup[g], sortingParams.loopLimit)

Hinted(b, g, increased) ==
  LET hint == Hint(b, g, increased)
  IN  hint[1] # hint[2] \/ Len(b.activeGroups.keys) = 1

CanTrySort(b, g, increased) ==
  g \notin b.unsortedGroups /\ Hinted(b, g, increased) =>
    LET hint == Hint(b, g, increased)
    IN  CanUpdate(b.activeGroups, g, b.stCeloInGroup[g], hint[1], hint[2])

Bug_ForgetsUnsorted(b, g, increased) ==
  LET hint == Hint(b, g, increased)
  IN  IF g \notin b.unsortedGroups /\ Hinted(b, g, increased)
      THEN [b EXCEPT !.activeGroups = Update(@, g, b.stCeloInGroup[g], hint[1], hint[2])]
      ELSE b

Bug_KeepsFlag(b, g, increased) ==
  LET hint == Hint(b, g, increased)
  IN  IF g \in b.unsortedGroups THEN b
      ELSE IF Hinted(b, g, increased)
      THEN [b EXCEPT !.activeGroups = Update(@, g, b.stCeloInGroup[g], hint[1], hint[2])]
      ELSE [b EXCEPT !.unsortedGroups = @ \cup {g}]

TrySort(b, g, increased) ==
  LET hint == Hint(b, g, increased)
  IN  IF g \in b.unsortedGroups THEN b
      ELSE IF Hinted(b, g, increased)
      THEN [b EXCEPT !.activeGroups = Update(@, g, b.stCeloInGroup[g], hint[1], hint[2])]
      ELSE [b EXCEPT !.sorted = FALSE, !.unsortedGroups = @ \cup {g}]

(* Where the loops go on after a turn: back to the end of the list, or on  *)
(* along the list from where the group is now.                             *)
NextToVote(b, g) ==
  IF b.sorted THEN TailOf(b.activeGroups) ELSE NextOf(b.activeGroups, g)

NextToWithdraw(b, g) ==
  IF b.sorted THEN HeadOf(b.activeGroups) ELSE PreviousOf(b.activeGroups, g)

----------------------------------------------------------------------------
Init ==
  /\ books = [activeGroups |-> EmptyList,
              stCeloInGroup |-> [g \in Groups |-> 0],
              totalStCeloInStrategy |-> 0,
              sorted |-> TRUE,
              unsortedGroups |-> {}]
  /\ activatableGroups = {}
  /\ minCountOfActiveGroups = 0
  /\ sortingParams \in SortingParams
  /\ paused = FALSE
  /\ tx = NoTx
  /\ owed = 0
  /\ adjusted = {}

Idle == tx = NoTx

(* The while loops and the checks around them.                             *)
MaxGroupCount ==
  MinOf(IF tx.kind = "withdraw" THEN sortingParams.withdrawFrom
                                ELSE sortingParams.distributeTo,
        Len(books.activeGroups.keys))

InLoop == /\ tx.groupsIndex < MaxGroupCount
          /\ tx.celo # 0
          /\ tx.votedGroup # None

(* generateDepositVoteDistribution, called by Manager for a deposit or a   *)
(* transfer and by SpecificGroupStrategy for what it cannot place.  celo   *)
(* may be less than stCelo is worth, when a group that turned unhealthy    *)
(* has not all of its CELO yet.                                            *)
StartDeposit(celo, stCelo, ignore, rate) ==
  /\ Idle
  /\ celo <= toCelo(rate, stCelo) \/ stCelo = toStakedCelo(rate, celo)
  /\ books.totalStCeloInStrategy + stCelo <= MaxStCelo
  /\ books.activeGroups.keys # <<>>
  /\ tx' = [kind |-> "deposit", celo |-> celo, stCelo |-> stCelo, moved |-> stCelo,
            votedGroup |-> TailOf(books.activeGroups), groupsIndex |-> 0,
            ignore |-> ignore, answers |-> NoAnswers, rate |-> rate,
            votes |-> NoVotes, before |-> books]
  /\ UNCHANGED <<books, owner, owed, adjusted>>

(* The answers to Manager.getReceivableVotesForGroup or, in a withdrawal,  *)
(* to Account.getCeloForGroup.                                             *)
AnswersFor(g) == IF tx.answers[g] = Unasked THEN Answers ELSE {tx.answers[g]}

(* _generateDepositVoteDistribution: a turn of the loop that passes over a *)
(* group, one that votes for it, and the end, where stCELO left over from  *)
(* rounding goes to the group the loop stopped at.                         *)
Passed(g, receivable) == g = tx.ignore \/ receivable = 0

PassOver(receivable) ==
  /\ tx.kind \in {"deposit", "deactivate"}
  /\ InLoop
  /\ receivable \in AnswersFor(tx.votedGroup)
  /\ Passed(tx.votedGroup, receivable)
  /\ tx' = [tx EXCEPT !.votedGroup = NextOf(books.activeGroups, @),
                      !.answers[tx.votedGroup] = receivable]
  /\ UNCHANGED <<books, owner, owed, adjusted>>

VoteFor(receivable) ==
  LET g == tx.votedGroup
      votes == MinOf(receivable, tx.celo)
      stCelo == toStakedCelo(tx.rate, votes)
      added == AddStCelo(books, g, stCelo)
      next == TrySort(added, g, TRUE)
  IN  /\ tx.kind \in {"deposit", "deactivate"}
      /\ InLoop
      /\ receivable \in AnswersFor(g)
      /\ ~Passed(g, receivable)
      /\ CanTrySort(added, g, TRUE)
      /\ books' = next
      /\ tx' = [tx EXCEPT !.celo = @ - votes,
                          !.stCelo = Monus(@, stCelo),
                          !.votes[g] = @ + votes,
                          !.answers[g] = receivable,
                          !.votedGroup = NextToVote(next, g),
                          !.groupsIndex = @ + 1]
      /\ UNCHANGED <<owner, owed, adjusted>>

Bug_DropsResidue ==
  /\ tx.kind \in {"deposit", "deactivate"}
  /\ tx.celo = 0
  /\ owed' = owed + IF tx.kind = "deposit" THEN tx.moved ELSE 0
  /\ tx' = NoTx
  /\ UNCHANGED <<books, owner, adjusted>>

EndDeposit ==
  LET g == IF tx.votedGroup = None THEN TailOf(books.activeGroups) ELSE tx.votedGroup
      added == AddStCelo(books, g, tx.stCelo)
  IN  /\ tx.kind \in {"deposit", "deactivate"}
      /\ tx.celo = 0
      /\ IF tx.stCelo = 0 THEN UNCHANGED books
         ELSE /\ CanTrySort(added, g, TRUE)
              /\ books' = TrySort(added, g, TRUE)
      /\ owed' = owed + IF tx.kind = "deposit" THEN tx.moved ELSE 0
      /\ tx' = NoTx
      /\ UNCHANGED <<owner, adjusted>>

Without(b, g) == [b EXCEPT !.activeGroups = Remove(@, g), !.unsortedGroups = @ \ {g}]

(* _deactivateGroup: what the group holds is spread like a deposit.        *)
Deactivate(g, rate) ==
  LET removed == Without(books, g)
      stCelo == books.stCeloInGroup[g]
  IN  /\ Idle
      /\ g \in Active(books)
      /\ Len(books.activeGroups.keys) > minCountOfActiveGroups
      /\ IF stCelo = 0 THEN books' = removed /\ UNCHANGED tx
         ELSE /\ HasStCelo(books, g, stCelo)
              /\ removed.activeGroups.keys # <<>>
              /\ books' = SubStCelo(removed, g, stCelo)
              /\ tx' = [kind |-> "deactivate", celo |-> toCelo(rate, stCelo),
                        stCelo |-> stCelo, moved |-> stCelo,
                        votedGroup |-> TailOf(removed.activeGroups), groupsIndex |-> 0,
                        ignore |-> None, answers |-> NoAnswers, rate |-> rate,
                        votes |-> NoVotes, before |-> books]
      /\ UNCHANGED <<owner, owed, adjusted>>

DeactivateGroup(g, rate) == Deactivate(g, rate)

DeactivateUnhealthyGroup(g, isGroupValid, rate) ==
  /\ ~paused
  /\ ~isGroupValid
  /\ Deactivate(g, rate)

(* generateWithdrawalVoteDistribution, called for the celo that stCelo is  *)
(* worth, up to rounding either way.                                       *)
StartWithdrawal(celo, stCelo, rate) ==
  /\ Idle
  /\ celo = toCelo(rate, stCelo) \/ stCelo = toStakedCelo(rate, celo)
  /\ stCelo <= owed
  /\ books.activeGroups.keys # <<>>
  /\ tx' = [kind |-> "withdraw", celo |-> celo, stCelo |-> 0, moved |-> stCelo,
            votedGroup |-> HeadOf(books.activeGroups), groupsIndex |-> 0,
            ignore |-> None, answers |-> NoAnswers, rate |-> rate,
            votes |-> NoVotes, before |-> books]
  /\ UNCHANGED <<books, owner, owed, adjusted>>

(* What a turn of the loop takes from g.                                   *)
Withdrawable(g, celoForGroup) ==
  MinOf(MinOf(celoForGroup, toCelo(tx.rate, books.stCeloInGroup[g])), tx.celo)

WithdrawFrom(celoForGroup) ==
  LET g == tx.votedGroup
      votes == Withdrawable(g, celoForGroup)
      stCelo == toStakedCelo(tx.rate, votes)
      taken == SubStCelo(books, g, stCelo)
      next == TrySort(taken, g, FALSE)
  IN  /\ tx.kind = "withdraw"
      /\ InLoop
      /\ celoForGroup \in AnswersFor(g)
      /\ HasStCelo(books, g, stCelo)
      /\ CanTrySort(taken, g, FALSE)
      /\ books' = next
      /\ tx' = [tx EXCEPT !.celo = @ - votes,
                          !.votes[g] = @ + votes,
                          !.answers[g] = celoForGroup,
                          !.votedGroup = NextToWithdraw(next, g),
                          !.groupsIndex = @ + 1]
      /\ UNCHANGED <<owner, owed, adjusted>>

EndWithdrawal ==
  /\ tx.kind = "withdraw"
  /\ tx.celo = 0
  /\ owed' = owed - tx.moved
  /\ tx' = NoTx
  /\ UNCHANGED <<books, owner, adjusted>>

Revert ==
  /\ ~Idle
  /\ books' = tx.before
  /\ tx' = NoTx
  /\ UNCHANGED <<owner, owed, adjusted>>

(* updateActiveGroupOrder, open to anyone.                                 *)
UpdateActiveGroupOrder(g, lesser, greater) ==
  LET value == books.stCeloInGroup[g]
      unsorted == books.unsortedGroups \ {g}
  IN  /\ Idle
      /\ ~paused
      /\ g \in books.unsortedGroups
      /\ CanUpdate(books.activeGroups, g, value, lesser, greater)
      /\ books' = [books EXCEPT !.activeGroups = Update(@, g, value, lesser, greater),
                                !.unsortedGroups = unsorted,
                                !.sorted = @ \/ unsorted = {}]
      /\ UNCHANGED <<owner, tx, owed, adjusted>>

AddActivatableGroup(g, isGroupValid) ==
  /\ Idle
  /\ isGroupValid
  /\ g \notin Active(books) \cup activatableGroups
  /\ activatableGroups' = activatableGroups \cup {g}
  /\ UNCHANGED <<books, minCountOfActiveGroups, sortingParams, paused, tx, owed, adjusted>>

(* activateGroup, open to anyone, paused or not.                           *)
ActivateGroup(g, isGroupValid, lesser, greater) ==
  /\ Idle
  /\ g \in activatableGroups
  /\ isGroupValid
  /\ CanInsert(books.activeGroups, g, 0, lesser, greater)
  /\ books' = [books EXCEPT !.activeGroups = Insert(@, g, 0, lesser, greater)]
  /\ activatableGroups' = activatableGroups \ {g}
  /\ UNCHANGED <<minCountOfActiveGroups, sortingParams, paused, tx, owed, adjusted>>

Bug_DropsRemainder(g) ==
  books.totalStCeloInStrategy \div Len(books.activeGroups.keys)

(* getExpectedAndActualStCeloForGroup: equal shares, the remainder of the  *)
(* division to the head.                                                   *)
ExpectedStCelo(g) ==
  LET n == Len(books.activeGroups.keys)
      share == books.totalStCeloInStrategy \div n
  IN  share + IF g = HeadOf(books.activeGroups)
              THEN books.totalStCeloInStrategy - share * n ELSE 0

Surplus(g) == books.stCeloInGroup[g] - ExpectedStCelo(g)

(* rebalance, open to anyone.                                              *)
Rebalance(from, to) ==
  LET toMove == MinOf(Surplus(from), -Surplus(to))
  IN  /\ Idle
      /\ ~paused
      /\ {from, to} \subseteq Active(books)
      /\ Surplus(from) > 0
      /\ Surplus(to) < 0
      /\ HasStCelo(books, from, toMove)
      /\ \E taken \in {SubStCelo(books, from, toMove)} :
           /\ CanTrySort(taken, from, FALSE)
           /\ \E moved \in {AddStCelo(TrySort(taken, from, FALSE), to, toMove)} :
                /\ CanTrySort(moved, to, TRUE)
                /\ books' = TrySort(moved, to, TRUE)
      /\ UNCHANGED <<owner, tx, owed, adjusted>>

(* updateGroupStCelo: the owner corrects the books, and nothing is sorted. *)
UpdateGroupStCelo(g, n, add) ==
  /\ Idle
  /\ Cardinality(adjusted \cup {g}) <= MaxAdjusted
  /\ IF add THEN /\ books.totalStCeloInStrategy + n <= MaxStCelo
                 /\ books' = AddStCelo(books, g, n)
                 /\ owed' = owed + n
            ELSE /\ HasStCelo(books, g, n)
                 /\ books' = SubStCelo(books, g, n)
                 /\ owed' = Monus(owed, n)
  /\ adjusted' = adjusted \cup {g}
  /\ UNCHANGED <<owner, tx>>

SetMinCountOfActiveGroups(n) ==
  /\ Idle
  /\ minCountOfActiveGroups' = n
  /\ UNCHANGED <<books, activatableGroups, sortingParams, paused, tx, owed, adjusted>>

SetSortingParams(params) ==
  /\ Idle
  /\ sortingParams' = params
  /\ UNCHANGED <<books, activatableGroups, minCountOfActiveGroups, paused, tx, owed, adjusted>>

(* Pausable, inherited.                                                    *)
SetPaused(p) ==
  /\ Idle
  /\ paused' = p
  /\ UNCHANGED <<books, activatableGroups, minCountOfActiveGroups, sortingParams, tx,
                 owed, adjusted>>

LoopStep ==
  \/ \E answer \in Answers : PassOver(answer) \/ VoteFor(answer) \/ WithdrawFrom(answer)
  \/ EndDeposit \/ EndWithdrawal
  \/ Revert

DistributionStep ==
  \E rate \in Rates, n \in 0 .. MaxStCelo :
    \/ \E ignore \in Groups \cup {None} :
         \/ StartDeposit(n, toStakedCelo(rate, n), ignore, rate)
         \/ \E celo \in 0 .. toCelo(rate, n) : StartDeposit(celo, n, ignore, rate)
    \/ StartWithdrawal(n, toStakedCelo(rate, n), rate)
    \/ StartWithdrawal(toCelo(rate, n), n, rate)

DeactivationStep ==
  \E g \in Groups, rate \in Rates :
    \/ DeactivateGroup(g, rate)
    \/ \E valid \in BOOLEAN : DeactivateUnhealthyGroup(g, valid, rate)

ActivationStep ==
  \E g \in Groups, valid \in BOOLEAN :
    \/ AddActivatableGroup(g, valid)
    \/ \E lesser, greater \in Groups \cup {None} : ActivateGroup(g, valid, lesser, greater)

SortStep ==
  \E g \in Groups, lesser, greater \in Groups \cup {None} :
    UpdateActiveGroupOrder(g, lesser, greater)

RebalanceStep == \E from, to \in Groups : Rebalance(from, to)

CorrectionStep ==
  \E g \in Groups, n \in Adjustments, add \in BOOLEAN : UpdateGroupStCelo(g, n, add)

SettingStep ==
  \/ \E n \in MinCounts : SetMinCountOfActiveGroups(n)
  \/ \E params \in SortingParams : SetSortingParams(params)
  \/ \E p \in BOOLEAN : SetPaused(p)

Next == \/ LoopStep \/ DistributionStep \/ DeactivationStep \/ ActivationStep
        \/ SortStep \/ RebalanceStep \/ CorrectionStep \/ SettingStep

Spec == Init /\ [][Next]_vars

----------------------------------------------------------------------------
Books ==
  [activeGroups : [keys : Seq(Groups), values : [Groups -> Nat]],
   stCeloInGroup : [Groups -> Nat],
   totalStCeloInStrategy : Nat,
   sorted : BOOLEAN,
   unsortedGroups : SUBSET Groups]

Tx ==
  [kind : {"deposit", "deactivate", "withdraw"}, celo : Nat, stCelo : Nat, moved : Nat,
   votedGroup : Groups \cup {None}, groupsIndex : Nat, ignore : Groups \cup {None},
   answers : [Groups -> Answers \cup {Unasked}], rate : Rates, votes : [Groups -> Nat], before : Books]

(* Every variable has its type, and amounts that are subtracted from never *)
(* go below zero.                                                          *)
TypeOK ==
  /\ books \in Books
  /\ activatableGroups \subseteq Groups
  /\ minCountOfActiveGroups \in Nat
  /\ sortingParams \in Params
  /\ paused \in BOOLEAN
  /\ tx \in Tx \cup {NoTx}
  /\ owed \in Nat
  /\ adjusted \subseteq Groups

(* The list ascends by its own values, whatever hints it was given.        *)
ListOrdered == Ordered(books.activeGroups)

(* What the list believes a group to have is what it has, unless the group *)
(* is known to be unsorted or the owner has corrected it.                  *)
ListTracksStCelo ==
  \A g \in Active(books) \ (books.unsortedGroups \cup adjusted) :
    books.activeGroups.values[g] = books.stCeloInGroup[g]

(* The flag can be relied on: while it says sorted, the groups ascend by   *)
(* the stCELO they really have, so deposits go to the poorest group and    *)
(* withdrawals come from the richest.                                      *)
SortedMeansSorted ==
  books.sorted /\ adjusted = {} =>
    \A i, j \in DOMAIN books.activeGroups.keys :
      i < j => books.stCeloInGroup[books.activeGroups.keys[i]]
                 <= books.stCeloInGroup[books.activeGroups.keys[j]]

(* The total is what the groups add up to.                                 *)
TotalAgrees == books.totalStCeloInStrategy = Total(books.stCeloInGroup)

(* A group that is not active holds no stCELO, which rebalancing and       *)
(* withdrawals would not find.                                             *)
NoneStranded ==
  \A g \in Groups \ (Active(books) \cup adjusted) : books.stCeloInGroup[g] = 0

(* Between transactions the strategy accounts for all stCELO whose votes   *)
(* it casts: rounding, withdrawals from several groups and deactivations   *)
(* never leave it short.                                                   *)
Covered == Idle => owed <= books.totalStCeloInStrategy

(* A deposit of stCelo adds exactly that, and a deactivation exactly what  *)
(* the group had, in however many roundings it is spread.                  *)
NothingLost ==
  tx.kind \in {"deposit", "deactivate"} =>
    books.totalStCeloInStrategy + tx.stCelo
      = tx.before.totalStCeloInStrategy + IF tx.kind = "deposit" THEN tx.moved ELSE 0

(* A group that a short walk left unsorted can always be put in order:     *)
(* there are hints with which updateActiveGroupOrder succeeds.             *)
AlwaysSortable ==
  Idle => \A g \in books.unsortedGroups :
            \E lesser, greater \in Groups \cup {None} :
              CanUpdate(books.activeGroups, g, books.stCeloInGroup[g], lesser, greater)

----------------------------------------------------------------------------
(* What rebalancing achieves when nothing else happens, from any books     *)
(* that satisfy the invariants above (Consistent).  Anyone may call it at  *)
(* any time.                                                               *)

Consistent == /\ adjusted = {} /\ Idle
              /\ ListOrdered /\ ListTracksStCelo /\ SortedMeansSorted
              /\ TotalAgrees /\ NoneStranded
              /\ books.unsortedGroups \subseteq Active(books)

SettlingFairness == WF_vars(RebalanceStep)

Balanced == \A g \in Active(books) : Surplus(g) = 0

(* Rebalancing one pair of groups after the other ends, with every group   *)
(* at its share, even though a move may change the head, which takes the   *)
(* remainder of the division, and the list may be out of order.            *)
RebalanceSettles == <>[]Balanced

----------------------------------------------------------------------------
(* test-ts/manager.test.ts:496: a deposit "reverts when the deposit total  *)
(* would push all groups over their capacity".  So one that the loop could *)
(* place, having asked every group, fits in what they said.                *)
OverCapacityReverts ==
  tx.kind = "deposit" /\ tx.celo = 0 /\ tx.ignore = None
    /\ (\A g \in Active(books) : tx.answers[g] # Unasked)
    => Total(tx.votes) <= Total([g \in Active(books) |-> tx.answers[g]])
============================================================================
