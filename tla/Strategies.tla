----------------------------- MODULE Strategies -----------------------------
(***************************************************************************)
(* src/contracts/Manager.sol with src/contracts/SpecificGroupStrategy.sol: *)
(* every holder of stCELO has a strategy, a validator group of his choice  *)
(* or the default.  stCELO of a group that cannot take all votes, or that  *)
(* is unhealthy or blocked, is voted with by the default strategy, as      *)
(* overflowed or unhealthy stCELO of the group.  When stCELO changes its   *)
(* strategy only the books change; the CELO follows when somebody calls    *)
(* rebalance.                                                              *)
(*                                                                         *)
(* DefaultStrategy is taken for what module DefaultStrategy shows of it: a *)
(* deposit adds exactly its stCELO to the active groups, a withdrawal      *)
(* takes at most what its CELO is worth from them, from whichever it       *)
(* likes, since nothing here says how its list is sorted.  HeadFirst is    *)
(* what the loop takes while the list is sorted; from it follows whether a *)
(* withdrawal goes through.  Account is the CELO it attributes to each     *)
(* group, without what anyone sends it.                                    *)
(*                                                                         *)
(* Left out: the totals that nothing reads, pausing and vote locks, which  *)
(* only make calls fail, what DefaultStrategy does by itself (activation,  *)
(* deactivation, rebalancing), and the owner's updateGroupStCelo.          *)
(***************************************************************************)
EXTENDS Amounts

CONSTANTS
  Groups,        \* validator groups
  ActiveGroups,  \* those of the default strategy
  Accounts,      \* holders of stCELO
  Default,       \* address(0), the default strategy
  MaxGroupsToWithdrawFrom,  \* DefaultStrategy.maxGroupsToWithdrawFrom
  SpecificGroups,  \* bound: groups that holders choose and whose health varies
  MaxCelo,       \* bound: CELO in the protocol
  MaxStCelo,     \* bound: stCELO in existence
  MaxBooked,     \* bound: stCELO booked by the default strategy, roundings included
  MaxRounded     \* bound: withdrawals from a group that lose a rounding

ASSUME GroupsAssumption == /\ IsFiniteSet(Groups)
                           /\ ActiveGroups \subseteq Groups /\ ActiveGroups # {}
                           /\ SpecificGroups \subseteq Groups
                           /\ Default \notin Groups
ASSUME AccountsAssumption == IsFiniteSet(Accounts)
ASSUME LimitAssumption == MaxGroupsToWithdrawFrom \in Nat
ASSUME BoundsAssumption == {MaxCelo, MaxStCelo, MaxBooked, MaxRounded} \subseteq Nat

VARIABLES
  strategies,     \* Manager: each account's strategy
  balances,       \* StakedCelo: the stCELO of each account, locked or not
  books,          \* what the two strategies record of each group
  blockedGroups,  \* SpecificGroupStrategy
  healthy,        \* GroupHealth.isGroupValid
  celo,           \* Account.getCeloForGroup
  rounded         \* history: withdrawals from a group that lost a rounding

vars == <<strategies, balances, books, blockedGroups, healthy, celo, rounded>>
verdicts == <<blockedGroups, healthy>>

Supply == Total(balances)
TotalCelo == Total(celo)

toStakedCelo(n) ==
  LET supply == Supply
      total == TotalCelo
  IN  IF supply = 0 \/ total = 0 THEN n ELSE (n * supply) \div total

toCelo(n) ==
  LET supply == Supply
      total == TotalCelo
  IN  IF supply = 0 \/ total = 0 THEN n ELSE (n * total) \div supply

AtPar == Supply = TotalCelo

Eligible(g) == g \in healthy \ blockedGroups

(* stCELO of g that the default strategy votes with.                       *)
Lent(b, g) == b.overflow[g] + b.unhealthy[g]

NoVotes == [g \in Groups |-> 0]

(* The ways to share n among the default strategy's groups, and to take    *)
(* stCELO from them.                                                       *)
OverGroups(f) == [g \in Groups |-> IF g \in ActiveGroups THEN f[g] ELSE 0]

Spreads(n) == {OverGroups(f) : f \in {h \in [ActiveGroups -> 0 .. n] : Total(h) = n}}

Takings(b) ==
  {OverGroups(f) : f \in {h \in [ActiveGroups -> 0 .. Total(b.default)] :
                           \A g \in ActiveGroups : h[g] <= b.default[g]}}

----------------------------------------------------------------------------
(* DefaultStrategy.generateDepositVoteDistribution: the votes the loop     *)
(* gives and the stCELO added with them, the remainder included (up to     *)
(* MaxBooked), when maxGroupsToDistributeTo groups can receive them all.   *)
DefaultDeposits(b, n, stCelo, ignore) ==
  {d \in [votes : Spreads(n), added : Spreads(stCelo)] :
     /\ ignore \in Groups => d.votes[ignore] = 0
     /\ Total(b.default) + stCelo <= MaxBooked}

DefaultDeposit(b, d) == [b EXCEPT !.default = Plus(@, d.added)]

(* generateWithdrawalVoteDistribution, whatever the order of the list: the *)
(* loop visits as many groups as there are, some perhaps twice, and rounds *)
(* stCELO down each time.                                                  *)
DefaultWithdrawals(b, n) ==
  {w \in [votes : Spreads(n), taken : Takings(b)] :
     \A g \in Groups :
       /\ w.votes[g] > 0 => celo[g] > 0 /\ b.default[g] > 0
       /\ w.taken[g] <= toStakedCelo(w.votes[g])
       /\ toStakedCelo(w.votes[g]) < w.taken[g] + Cardinality(ActiveGroups)
       /\ AtPar => w.taken[g] = w.votes[g]}

DefaultWithdrawal(b, w) == [b EXCEPT !.default = Minus(@, w.taken)]

(* The same loop while the list is sorted and every update finds its place *)
(* in it: each turn takes from the head, which is a group with the most    *)
(* stCELO.                                                                 *)
Bug_FromTail(d) == {g \in ActiveGroups : \A h \in ActiveGroups : d[g] <= d[h]}

Heads(d) == {g \in ActiveGroups : \A h \in ActiveGroups : d[h] <= d[g]}

Bug_AllItsCelo(r, g) ==
  LET votes == MinOf(celo[g], r.left)
  IN  [default |-> [r.default EXCEPT ![g] = @ - toStakedCelo(votes)],
       votes |-> [r.votes EXCEPT ![g] = @ + votes],
       left |-> r.left - votes]

TurnAt(r, g) ==
  LET votes == MinOf(MinOf(celo[g], toCelo(r.default[g])), r.left)
  IN  [default |-> [r.default EXCEPT ![g] = @ - toStakedCelo(votes)],
       votes |-> [r.votes EXCEPT ![g] = @ + votes],
       left |-> r.left - votes]

Turns(r) == IF r.left = 0 THEN {r} ELSE {TurnAt(r, g) : g \in Heads(r.default)}

MaxTurns == MinOf(MaxGroupsToWithdrawFrom, Cardinality(ActiveGroups))

(* What the loop may have come to when it ends; it reverts unless nothing  *)
(* is left.                                                                *)
LoopEnds(b, n) ==
  LET after[k \in 0 .. MaxTurns] ==
        IF k = 0 THEN {[default |-> b.default, votes |-> NoVotes, left |-> n]}
        ELSE UNION {Turns(r) : r \in after[k - 1]}
  IN  after[MaxTurns]

HeadFirst(b, n) ==
  {[votes |-> r.votes, taken |-> Minus(b.default, r.default)] :
     r \in {e \in LoopEnds(b, n) : e.left = 0}}

(* The CELO that a withdrawal of n from s takes from the default strategy. *)
FromDefault(b, s, n) == IF s = Default THEN n ELSE MinOf(n, toCelo(Lent(b, s)))

Bug_OverflowOnly(b, g, n) ==
  [b EXCEPT !.overflow[g] = Monus(@, toStakedCelo(n))]

(* handleWithdrawalOverflowAndUnhealthyAccounting.                         *)
Returned(b, g, n) ==
  LET moved == toStakedCelo(n)
      overflow == MinOf(b.overflow[g], moved)
  IN  [b EXCEPT !.overflow[g] = @ - overflow,
                !.unhealthy[g] = @ - (moved - overflow)]

(* distributeWithdrawals, for the CELO that stCelo is worth: of a specific *)
(* strategy, what it lent is withdrawn first.                              *)
Withdrawals(b, s, stCelo) ==
  IF toCelo(stCelo) > 0 /\ (s # Default => stCelo <= b.total[s])
  THEN DefaultWithdrawals(b, FromDefault(b, s, toCelo(stCelo))) ELSE {}

DistributeWithdrawals(b, s, stCelo, w) ==
  LET less == DefaultWithdrawal(b, w)
  IN  IF s = Default THEN less
      ELSE Returned([less EXCEPT !.total[s] = @ - stCelo], s,
                    FromDefault(b, s, toCelo(stCelo)))

WithdrawalVotes(b, s, stCelo, w) ==
  IF s = Default THEN w.votes
  ELSE [w.votes EXCEPT ![s] = @ + toCelo(stCelo) - FromDefault(b, s, toCelo(stCelo))]

(* The answers of Manager.getReceivableVotesForGroup that make a difference *)
(* to a deposit of n.                                                      *)
Receivables(s, n) == IF s # Default /\ Eligible(s) THEN 0 .. n ELSE {0}

(* distributeVotes: a group in good health gets what it can receive, and   *)
(* the default strategy the rest.                                          *)
Placed(s, n, receivable) ==
  IF s # Default /\ Eligible(s) THEN MinOf(receivable, n) ELSE 0

Spilled(s, n, stCelo, receivable) ==
  IF s # Default /\ Eligible(s)
  THEN MinOf(toStakedCelo(n - Placed(s, n, receivable)), stCelo)
  ELSE stCelo

Deposits(b, s, n, stCelo, receivable) ==
  DefaultDeposits(b, n - Placed(s, n, receivable), Spilled(s, n, stCelo, receivable), s)

DistributeVotes(b, s, n, stCelo, receivable, d) ==
  LET spilled == Spilled(s, n, stCelo, receivable)
      more == DefaultDeposit(b, d)
  IN  IF s = Default THEN more
      ELSE IF Eligible(s)
      THEN [more EXCEPT !.total[s] = @ + stCelo, !.overflow[s] = @ + spilled]
      ELSE [more EXCEPT !.total[s] = @ + stCelo, !.unhealthy[s] = @ + spilled]

DepositVotes(s, n, receivable, d) ==
  IF s = Default THEN d.votes ELSE [d.votes EXCEPT ![s] = @ + Placed(s, n, receivable)]

(* Withdrawals that return less stCELO than the group lent of it, because  *)
(* the amount is converted to CELO and back.                               *)
Rounds(b, s, stCelo) ==
  /\ s # Default
  /\ toStakedCelo(FromDefault(b, s, toCelo(stCelo))) < MinOf(stCelo, Lent(b, s))

CountRounding(s, stCelo) ==
  rounded' = IF Rounds(books, s, stCelo) THEN [rounded EXCEPT ![s] = @ + 1] ELSE rounded

RoundingBound(s, stCelo) == Rounds(books, s, stCelo) => rounded[s] < MaxRounded

----------------------------------------------------------------------------
Init ==
  /\ strategies = [a \in Accounts |-> Default]
  /\ balances = [a \in Accounts |-> 0]
  /\ books = [total |-> NoVotes, overflow |-> NoVotes, unhealthy |-> NoVotes,
              default |-> NoVotes]
  /\ blockedGroups = {}
  /\ healthy = {}
  /\ celo = NoVotes
  /\ rounded = NoVotes

Deposit(a, n, receivable) ==
  LET stCelo == toStakedCelo(n)
      s == strategies[a]
  IN  /\ TotalCelo + n <= MaxCelo
      /\ Supply + stCelo <= MaxStCelo
      /\ \E d \in Deposits(books, s, n, stCelo, receivable) :
           /\ books' = DistributeVotes(books, s, n, stCelo, receivable, d)
           /\ celo' = Plus(celo, DepositVotes(s, n, receivable, d))
      /\ balances' = [balances EXCEPT ![a] = @ + stCelo]
      /\ UNCHANGED <<strategies, verdicts, rounded>>

(* Account schedules no withdrawal of more than a group has.               *)
Withdraw(a, stCelo) ==
  LET s == strategies[a]
  IN  /\ stCelo <= balances[a]
      /\ RoundingBound(s, stCelo)
      /\ \E w \in Withdrawals(books, s, stCelo) :
           LET withdrawals == WithdrawalVotes(books, s, stCelo, w)
           IN  /\ \A g \in Groups : withdrawals[g] <= celo[g]
               /\ books' = DistributeWithdrawals(books, s, stCelo, w)
               /\ celo' = Minus(celo, withdrawals)
      /\ balances' = [balances EXCEPT ![a] = @ - stCelo]
      /\ CountRounding(s, stCelo)
      /\ UNCHANGED <<strategies, verdicts>>

(* _transferWithoutChecks: both strategies' books change, and no CELO is   *)
(* scheduled to move.                                                      *)
TransferWithoutChecks(from, to, stCelo) ==
  \E w \in Withdrawals(books, from, stCelo), receivable \in Receivables(to, toCelo(stCelo)) :
    LET less == DistributeWithdrawals(books, from, stCelo, w)
    IN  \E d \in Deposits(less, to, toCelo(stCelo), stCelo, receivable) :
          books' = DistributeVotes(less, to, toCelo(stCelo), stCelo, receivable, d)

(* _transfer.                                                              *)
MoveStCelo(from, to, stCelo) ==
  IF from = to \/ stCelo = 0
  THEN UNCHANGED <<books, rounded>>
  ELSE /\ RoundingBound(from, stCelo)
       /\ TransferWithoutChecks(from, to, stCelo)
       /\ CountRounding(from, stCelo)

(* A transfer of stCELO, and the hook it calls.                            *)
Transfer(a, b, stCelo) ==
  /\ a # b
  /\ stCelo <= balances[a]
  /\ MoveStCelo(strategies[a], strategies[b], stCelo)
  /\ balances' = [balances EXCEPT ![a] = @ - stCelo, ![b] = @ + stCelo]
  /\ UNCHANGED <<strategies, verdicts, celo>>

Bug_MovesFree(a, s, forced) ==
  /\ s = Default \/ Eligible(s) \/ forced
  /\ strategies' = [strategies EXCEPT ![a] = s]
  /\ UNCHANGED <<balances, books, verdicts, celo, rounded>>

(* changeStrategy, and forceChangeStrategy by the owner.                   *)
ChangeStrategy(a, s, forced) ==
  /\ s = Default \/ Eligible(s) \/ forced
  /\ MoveStCelo(strategies[a], s, balances[a])
  /\ strategies' = [strategies EXCEPT ![a] = s]
  /\ UNCHANGED <<balances, verdicts, celo>>

----------------------------------------------------------------------------
(* GroupHealth: an update finds what Validators and Election say.          *)
UpdateGroupHealth(g) ==
  /\ healthy' = IF g \in healthy THEN healthy \ {g} ELSE healthy \cup {g}
  /\ UNCHANGED <<strategies, balances, books, blockedGroups, celo, rounded>>

BlockGroup(g) ==
  /\ g \notin blockedGroups
  /\ blockedGroups' = blockedGroups \cup {g}
  /\ UNCHANGED <<strategies, balances, books, healthy, celo, rounded>>

UnblockGroup(g) ==
  /\ g \in healthy \cap blockedGroups
  /\ blockedGroups' = blockedGroups \ {g}
  /\ UNCHANGED <<strategies, balances, books, healthy, celo, rounded>>

(* scheduleTransfer of Account.                                            *)
MoveCelo(from, to) ==
  /\ \A g \in Groups : from[g] <= celo[g]
  /\ celo' = Plus(Minus(celo, from), to)

(* transferFromDefaultStrategy and transferToDefaultStrategy: the CELO of  *)
(* a group that has not all of its own yet is less than its stCELO's worth. *)
FromDefaultStrategy(g, stCelo, w) == MoveCelo(w.votes, Only(Groups, g, toCelo(stCelo)))

ToDefaultStrategy(g, stCelo, d) ==
  LET toMoveCelo == MinOf(celo[g], toCelo(stCelo))
  IN  /\ d \in DefaultDeposits(books, toMoveCelo, stCelo, Default)
      /\ MoveCelo(Only(Groups, g, toMoveCelo), d.votes)

(* rebalanceWhenHealthChanged, of a group in good health (the default      *)
(* strategy makes one of these withdrawals for it) and of another.         *)
ReturnUnhealthy(g, withdrawals) ==
  /\ Eligible(g)
  /\ books.unhealthy[g] > 0
  /\ \E w \in withdrawals :
       /\ FromDefaultStrategy(g, books.unhealthy[g], w)
       /\ books' = [DefaultWithdrawal(books, w) EXCEPT !.unhealthy[g] = 0]
  /\ UNCHANGED <<strategies, balances, verdicts, rounded>>

Bug_IgnoresOverflow(g) ==
  LET toMove == books.total[g] - books.unhealthy[g]
  IN  /\ ~Eligible(g)
      /\ toMove > 0
      /\ \E d \in DefaultDeposits(books, MinOf(celo[g], toCelo(toMove)), toMove, Default) :
           /\ ToDefaultStrategy(g, toMove, d)
           /\ books' = [DefaultDeposit(books, d) EXCEPT !.unhealthy[g] = @ + toMove]
      /\ UNCHANGED <<strategies, balances, verdicts, rounded>>

LendUnhealthy(g) ==
  LET toMove == books.total[g] - Lent(books, g)
  IN  /\ ~Eligible(g)
      /\ books.total[g] # books.unhealthy[g]
      /\ toMove >= 0
      /\ \E d \in DefaultDeposits(books, MinOf(celo[g], toCelo(toMove)), toMove, Default) :
           /\ ToDefaultStrategy(g, toMove, d)
           /\ books' = [DefaultDeposit(books, d) EXCEPT !.unhealthy[g] = @ + toMove]
      /\ UNCHANGED <<strategies, balances, verdicts, rounded>>

OverflowToMove(g, receivable) == MinOf(toStakedCelo(receivable), books.overflow[g])

RebalanceOverflowedGroup(g, receivable, withdrawals) ==
  LET toMove == OverflowToMove(g, receivable)
  IN  /\ Eligible(g)
      /\ books.overflow[g] > 0
      /\ receivable > 0
      /\ \E w \in withdrawals :
           /\ FromDefaultStrategy(g, toMove, w)
           /\ books' = [DefaultWithdrawal(books, w) EXCEPT !.overflow[g] = @ - toMove]
      /\ UNCHANGED <<strategies, balances, verdicts, rounded>>

Bug_ForgetsLent(g) ==
  toCelo((IF g \in blockedGroups THEN 0 ELSE books.total[g])
           + IF g \in ActiveGroups THEN books.default[g] ELSE 0)

(* getExpectedAndActualCeloForGroup: of a group's stCELO, what its own     *)
(* CELO stands for.                                                        *)
ExpectedCelo(g) ==
  toCelo((IF g \in blockedGroups THEN 0 ELSE Monus(books.total[g], Lent(books, g)))
           + IF g \in ActiveGroups THEN books.default[g] ELSE 0)

(* Manager.rebalance, open to anyone: as much as from has too much, as to  *)
(* is short of, and as to can receive.                                     *)
Rebalance(from, to) ==
  /\ UNCHANGED <<strategies, balances, books, verdicts, rounded>>
  /\ to \in ActiveGroups \/ to \notin blockedGroups
  /\ \E receivable \in 1 .. MinOf(celo[from] - ExpectedCelo(from), ExpectedCelo(to) - celo[to]) :
       celo' = Plus(Minus(celo, Only(Groups, from, receivable)),
                    Only(Groups, to, receivable))

(* rebalanceOverflow: CELO that Election does not take for a group may go  *)
(* to any active group.                                                    *)
RebalanceOverflow(from, to, n) ==
  /\ to \in ActiveGroups
  /\ n \in 1 .. celo[from]
  /\ celo' = Plus(Minus(celo, Only(Groups, from, n)), Only(Groups, to, n))
  /\ UNCHANGED <<strategies, balances, books, verdicts, rounded>>

(* Election's rewards.                                                     *)
Rewards(g) ==
  /\ celo[g] > 0
  /\ TotalCelo < MaxCelo
  /\ celo' = [celo EXCEPT ![g] = @ + 1]
  /\ UNCHANGED <<strategies, balances, books, verdicts, rounded>>

----------------------------------------------------------------------------
UserStep ==
  \E a \in Accounts :
    \/ \E n \in 1 .. MaxCelo : \E receivable \in Receivables(strategies[a], n) :
         Deposit(a, n, receivable)
    \/ \E stCelo \in 1 .. balances[a] :
         \/ Withdraw(a, stCelo)
         \/ \E b \in Accounts : Transfer(a, b, stCelo)
    \/ \E s \in SpecificGroups \cup {Default}, forced \in BOOLEAN : ChangeStrategy(a, s, forced)

VerdictStep ==
  \E g \in SpecificGroups : UpdateGroupHealth(g) \/ BlockGroup(g) \/ UnblockGroup(g)

(* What anyone may call to make the CELO follow the stCELO.  (Saying first *)
(* what each of these leaves alone saves TLC much work on the liveness.)   *)
RebalanceStep ==
  /\ UNCHANGED <<strategies, balances, verdicts, rounded>>
  /\ \E g \in Groups :
       \/ LendUnhealthy(g)
       \/ ReturnUnhealthy(g, DefaultWithdrawals(books, toCelo(books.unhealthy[g])))
       \/ \E to \in Groups : Rebalance(g, to)
       \/ \E receivable \in 1 .. MaxCelo :
            RebalanceOverflowedGroup(g, receivable,
              DefaultWithdrawals(books, toCelo(OverflowToMove(g, receivable))))

(* The same while the default strategy's list is sorted.                   *)
SortedRebalanceStep ==
  /\ UNCHANGED <<strategies, balances, verdicts, rounded>>
  /\ \E g \in Groups :
       \/ LendUnhealthy(g)
       \/ ReturnUnhealthy(g, HeadFirst(books, toCelo(books.unhealthy[g])))
       \/ \E to \in Groups : Rebalance(g, to)
       \/ \E receivable \in 1 .. MaxCelo :
            RebalanceOverflowedGroup(g, receivable,
              HeadFirst(books, toCelo(OverflowToMove(g, receivable))))

OtherStep ==
  \/ \E g \in Groups : Rewards(g)
  \/ \E from, to \in Groups, n \in 1 .. MaxCelo : RebalanceOverflow(from, to, n)

Next == UserStep \/ VerdictStep \/ RebalanceStep \/ OtherStep

Spec == Init /\ [][Next]_vars

(* Users, verdicts and Election rest some day; from then on groups that    *)
(* can be voted for receive votes, and the default strategy's list is      *)
(* sorted (anyone may call updateActiveGroupOrder until it is); and        *)
(* somebody calls what there is to call, in any order.                     *)
FairSpec ==
  /\ Spec
  /\ WF_vars(SortedRebalanceStep)
  /\ <>[][SortedRebalanceStep]_vars

----------------------------------------------------------------------------
Books == [total : [Groups -> Nat], overflow : [Groups -> Nat],
          unhealthy : [Groups -> Nat], default : [Groups -> Nat]]

(* Every variable has its type; in particular no amount that the strategies *)
(* subtract from goes below zero.                                          *)
TypeOK ==
  /\ strategies \in [Accounts -> Groups \cup {Default}]
  /\ balances \in [Accounts -> Nat]
  /\ books \in Books
  /\ blockedGroups \subseteq Groups /\ healthy \subseteq Groups
  /\ celo \in [Groups -> Nat]
  /\ rounded \in [Groups -> Nat]

(* The stCELO of those who chose s.                                        *)
Chosen(s) == Total([a \in Accounts |-> IF strategies[a] = s THEN balances[a] ELSE 0])

(* Three contracts agree: what SpecificGroupStrategy books for a group is  *)
(* the stCELO that StakedCelo holds for those whose strategy Manager has   *)
(* as that group, through transfers, changes of strategy, overflow and     *)
(* bad health.                                                             *)
HoldersBooked == \A g \in Groups : books.total[g] = Chosen(g)

(* The default strategy accounts for the stCELO of everyone it votes for:  *)
(* those who chose it, and what every group lent it.                       *)
LentCovered ==
  Total(books.default)
    >= Chosen(Default) + Total([g \in Groups |-> Lent(books, g)])

(* A group lends no more than it has, but for one unit at each withdrawal  *)
(* that was rounded.  Beyond that, rebalanceWhenHealthChanged and          *)
(* withdrawals would revert.                                               *)
LentWithinTotal ==
  \A g \in Groups : Lent(books, g) <= books.total[g] + rounded[g]

(* Nothing was ever rounded.                                               *)
Exact ==
  /\ AtPar
  /\ Total(books.default)
       = Chosen(Default) + Total([g \in Groups |-> Lent(books, g)])
  /\ \A g \in Groups : Lent(books, g) <= books.total[g]

(* CELO is where the stCELO is: each group has what it should, groups in   *)
(* good health lend nothing, and the others everything.                    *)
Balanced ==
  \A g \in Groups :
    /\ celo[g] = ExpectedCelo(g)
    /\ Lent(books, g) = IF Eligible(g) THEN 0 ELSE books.total[g]

(* Each run of the loop that goes through is one of the withdrawals that   *)
(* the invariants above are shown for: a group visited at several turns    *)
(* gives up no more stCELO than its votes are worth, and loses less than a *)
(* unit a turn to rounding.                                                *)
LoopsCovered ==
  \A n \in 0 .. MaxCelo : HeadFirst(books, n) \subseteq DefaultWithdrawals(books, n)

(* No limit keeps the loop from any of the active groups.                  *)
AllInReach == Cardinality(ActiveGroups) <= MaxGroupsToWithdrawFrom

(* A withdrawal of stCelo from s goes through, whichever of groups with as *)
(* much stCELO come first in the sorted list.                              *)
Served(s, stCelo) ==
  /\ s # Default => stCelo <= books.total[s]
  /\ \A r \in LoopEnds(books, FromDefault(books, s, toCelo(stCelo))) :
       /\ r.left = 0
       /\ \A g \in Groups : WithdrawalVotes(books, s, stCelo, r)[g] <= celo[g]

(* Changing strategy moves no CELO, so that a holder may have to wait for  *)
(* a rebalancing to withdraw.  But then he can, whatever he chose, as long *)
(* as the list is sorted and no limit cuts the loop short.                 *)
BalancedServes ==
  AllInReach /\ Exact /\ Balanced =>
    \A a \in Accounts : \A stCelo \in 1 .. balances[a] : Served(strategies[a], stCelo)

(* And rebalancing gets there, from wherever deposits, changes of          *)
(* strategy, verdicts and overflow have led, under the same conditions.    *)
GetsBalanced == AllInReach => (<>[]Exact => <>[]Balanced)
=============================================================================
