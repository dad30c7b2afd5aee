-------------------------------- MODULE Bots --------------------------------
(***************************************************************************)
(* src/lib/account-tasks and src/lib/task-utils.ts: the tasks that turn    *)
(* what Manager scheduled into votes and payments.  A task is a program    *)
(* that reads the chain call by call and sends one transaction at a time.  *)
(* Every await is a point where blocks may be mined, so what a task acts   *)
(* on may be stale: the reads of one group, up to the transaction they     *)
(* prepare, are one step, and upToDate tells whether they still hold when  *)
(* the transaction is mined.  The first error ends the run; the task only  *)
(* logs it.                                                                *)
(*                                                                         *)
(* One host runs the tasks one after another, in any order; whatever other *)
(* hosts, or anybody else, send to Account is OtherCaller.  Left out: a    *)
(* paused Account, which fails every transaction; groups for which         *)
(* Election accepts no votes (see Account); and votes of others that move  *)
(* a group in Election's order between a read and its transaction.         *)
(***************************************************************************)
EXTENDS AccountClaims

CONSTANTS
  NoGroup,  \* ADDRESS_ZERO
  MaxSkew,  \* bound: how far the host's clock is from block.timestamp
  Bounds    \* bound: the limits of the systems looked at, see bounds

ASSUME NoGroupAssumption == NoGroup \notin Groups
ASSUME MaxSkewAssumption == MaxSkew \in Nat
ASSUME BoundsListAssumption ==
  \A limits \in Bounds :
    /\ limits.celo \in 0 .. MaxCelo
    /\ limits.list \in Seq(Groups)
    /\ \A i, j \in DOMAIN limits.list : limits.list[i] = limits.list[j] => i = j

VARIABLES
  activeGroups,  \* external: DefaultStrategy's list, from its head
  votedGroups,   \* external: SpecificGroupStrategy's array, which only grows
  run,           \* the task at work, where it waits, and its local variables
  listStable,    \* history: no change of the list during the walk at work
  upToDate,      \* history: what the next transaction is based on still stands
  bounds         \* bound: the limits that hold in this behaviour

(* bounds.list: the groups active at first.  bounds.moves: those that join *)
(* the strategies, leave and change places later.  bounds.celo: CELO that  *)
(* ever enters the system.  bounds.withdrawals: whether Manager withdraws. *)
(* bounds.epochs: whether epochs end, with rewards.                        *)
strategies == <<activeGroups, votedGroups, bounds>>
botVars == <<vars, strategies, run, listStable, upToDate>>

ActivateAndVoteTask == <<"activateAndVote">>
RevokeTask == <<"revoke">>
WithdrawTask(b) == <<"withdraw", b>>
FinishPendingWithdrawalTask(b) == <<"finishPendingWithdrawals", b>>

Tasks == {ActivateAndVoteTask, RevokeTask}
           \cup {WithdrawTask(b) : b \in Beneficiaries}
           \cup {FinishPendingWithdrawalTask(b) : b \in Beneficiaries}

Kind == run.task[1]
Beneficiary == run.task[2]

(* left, key: the walk through the list.  groups: those read so far, then  *)
(* those still to be handled.  entry, index: the withdrawal to finish and  *)
(* its place in the two arrays.                                            *)
Idle == [task |-> <<"none">>, at |-> "idle", left |-> 0, key |-> NoGroup,
         groups |-> <<>>, entry |-> <<>>, index |-> <<>>]

Listed == SeqExt!ToSet(activeGroups) \cup SeqExt!ToSet(votedGroups)

First(S) == CHOOSE i \in S : \A j \in S : i <= j

----------------------------------------------------------------------------
(* What the reads return.                                                  *)

GroupsHead == IF activeGroups = <<>> THEN NoGroup ELSE Head(activeGroups)

(* getGroupPreviousAndNext: zero for the last group, and for a group that  *)
(* has left the list since it was read.                                    *)
PreviousGroup(g) ==
  LET places == {i \in 1 .. Len(activeGroups) - 1 : activeGroups[i] = g}
  IN  IF places = {} THEN NoGroup ELSE activeGroups[1 + First(places)]

(* new Set(activeGroups.concat(specificStrategies)), in insertion order.   *)
WithoutDuplicates(s) ==
  LET firsts == {i \in DOMAIN s : \A j \in 1 .. i - 1 : s[j] # s[i]}
      nth(n) == CHOOSE i \in firsts : Cardinality({j \in firsts : j <= i}) = n
  IN  [n \in 1 .. Cardinality(firsts) |-> s[nth(n)]]

NeedsVote(g) == toVote[g] > 0 \/ HasActivatablePendingVotes(g)

NeedsRevoke(g) == toRevoke[g] > 0

NeedsWithdrawal(g) == toWithdrawFor[g][Beneficiary] > 0

(* The amounts a task reads to decide whether a group needs a transaction; *)
(* all are zero for ADDRESS_ZERO.                                          *)
NeedsTransaction(g) ==
  /\ g \in Groups
  /\ CASE Kind = "activateAndVote" -> NeedsVote(g)
       [] Kind = "revoke" -> NeedsRevoke(g)
       [] Kind = "withdraw" -> NeedsWithdrawal(g)

(* findAddressIndex: Election lists the groups the account has votes for.  *)
(* For any other the index is -1, which does not encode as a uint256, and  *)
(* the task fails before it sends anything.                                *)
IndexEncodes(g) == Kind = "activateAndVote" \/ votesForGroup(g) > 0

(* lesser and greater, the group's new neighbours in Election's order, are *)
(* looked up for the amount the task expects to be voted or revoked.  It   *)
(* is not what Account arrives at while CELO is in transit: then balance   *)
(* and non-voting gold fall short of what is to be voted.                  *)
VoteHintFits(g) == toVote[g] = FinalVoteAmount(g)

RevokeHintFits(g) == Monus(toRevoke[g], toVote[g]) = Revokable(g)

WithdrawHintFits(g) ==
  Monus(toWithdrawFor[g][Beneficiary], toVote[g]) = RevokeAmount(Beneficiary, g)

HintFits(g) ==
  CASE Kind = "activateAndVote" -> VoteHintFits(g)
    [] Kind = "revoke" -> RevokeHintFits(g)
    [] Kind = "withdraw" -> WithdrawHintFits(g)

Bug_IndexZeroIsNone(clock) ==
  {i \in DOMAIN pendingWithdrawals[Beneficiary] \ {1} :
     pendingWithdrawals[Beneficiary][i].timestamp < clock}

(* localIndexPredicate, against the host's clock.                          *)
DueAt(clock) ==
  {i \in DOMAIN pendingWithdrawals[Beneficiary] :
     pendingWithdrawals[Beneficiary][i].timestamp < clock}

(* getPendingWithdrawals returns values and timestamps as two lists.       *)
LocalEntry(i) == [value |-> pendingWithdrawals[Beneficiary][i].value,
                  timestamp |-> pendingWithdrawals[Beneficiary][i].timestamp]

(* goldIndexPredicate.                                                     *)
Matches(entry) == {k \in DOMAIN lockedPending : lockedPending[k] = entry}

----------------------------------------------------------------------------
(* The transactions.                                                       *)

(* Whether Account accepts the call for g; see there for the guards.       *)
Accepted(g) ==
  CASE Kind = "activateAndVote" ->
         NetToVote(g, 0, 0) > 0 => FinalVoteAmount(g) > 0 /\ g \in votable
    [] Kind = "revoke" -> TRUE
    [] Kind = "withdraw" -> /\ toWithdrawFor[g][Beneficiary] > 0
                            /\ RevokeAmount(Beneficiary, g) <= votesForGroup(g)

----------------------------------------------------------------------------
BotInit ==
  /\ Init
  /\ bounds \in Bounds
  /\ activeGroups = bounds.list
  /\ votedGroups = <<>>
  /\ run = Idle
  /\ listStable = TRUE
  /\ upToDate = TRUE

Reads == UNCHANGED <<vars, strategies>>

(* The task is started, by hand or by a scheduler.                         *)
Start(t) ==
  /\ run.at = "idle"
  /\ run' = [Idle EXCEPT !.task = t,
               !.at = IF t[1] = "finishPendingWithdrawals" THEN "local" ELSE "length"]
  /\ Reads /\ UNCHANGED <<listStable, upToDate>>

Fail == run' = Idle /\ listStable' = TRUE /\ upToDate' = TRUE /\ Reads

Bug_OneGroupShort ==
  /\ run.at = "length"
  /\ run' = [run EXCEPT !.at = "head", !.left = Monus(Len(activeGroups), 1)]
  /\ Reads /\ UNCHANGED <<listStable, upToDate>>

(* getDefaultGroupsHHTask: the length first, once.                         *)
ReadLength ==
  /\ run.at = "length"
  /\ run' = [run EXCEPT !.at = "head", !.left = Len(activeGroups)]
  /\ Reads /\ UNCHANGED <<listStable, upToDate>>

ReadHead ==
  /\ run.at = "head"
  /\ run' = [run EXCEPT !.at = "walk", !.key = GroupsHead]
  /\ Reads /\ UNCHANGED <<listStable, upToDate>>

ReadPrevious ==
  /\ run.at = "walk"
  /\ run.left > 0
  /\ run' = [run EXCEPT !.groups = Append(@, run.key), !.left = @ - 1,
                        !.key = PreviousGroup(run.key)]
  /\ Reads /\ UNCHANGED <<listStable, upToDate>>

(* getSpecificGroupsHHTask: the calls for all elements go out at once, and *)
(* as the array only grows they return its state when its length was read. *)
ReadVotedGroups ==
  /\ run.at = "walk"
  /\ run.left = 0
  /\ run' = [run EXCEPT !.at = "check", !.key = NoGroup,
                        !.groups = WithoutDuplicates(@ \o votedGroups)]
  /\ listStable' = TRUE
  /\ Reads /\ UNCHANGED upToDate

(* One turn of the loop over the groups, up to its transaction: amounts,   *)
(* then lesser and greater, then the index.                                *)
Check ==
  /\ run.at = "check"
  /\ run.groups # <<>>
  /\ LET g == Head(run.groups)
     IN  IF ~NeedsTransaction(g)
         THEN run' = [run EXCEPT !.groups = Tail(@)]
         ELSE /\ IndexEncodes(g)
              /\ run' = [run EXCEPT !.at = "send"]
  /\ Reads /\ UNCHANGED <<listStable, upToDate>>

NoIndex ==
  /\ run.at = "check"
  /\ run.groups # <<>>
  /\ NeedsTransaction(Head(run.groups))
  /\ ~IndexEncodes(Head(run.groups))
  /\ Fail

GroupsDone ==
  /\ run.at = "check"
  /\ run.groups = <<>>
  /\ Fail

Sent ==
  /\ run' = [run EXCEPT !.at = "check", !.groups = Tail(@)]
  /\ upToDate' = TRUE
  /\ UNCHANGED <<strategies, listStable>>

SendVote ==
  /\ run.at = "send"
  /\ Kind = "activateAndVote"
  /\ ActivateAndVote(Head(run.groups))
  /\ Sent

(* Somebody else may have revoked the votes: then Account returns early.   *)
SendRevoke ==
  /\ run.at = "send"
  /\ Kind = "revoke"
  /\ LET g == Head(run.groups)
     IN  IF NetToRevoke(g, 0, 0) = 0 THEN UNCHANGED vars ELSE RevokeVotes(g)
  /\ Sent

SendWithdraw ==
  /\ run.at = "send"
  /\ Kind = "withdraw"
  /\ Withdraw(Beneficiary, Head(run.groups))
  /\ Sent

(* Refused by Account, or by Election because the places in its order, or  *)
(* in the account's list of groups, are not those that were read.          *)
Refused ==
  /\ run.at = "send"
  /\ Kind # "finishPendingWithdrawals"
  /\ LET g == Head(run.groups)
     IN  ~Accepted(g) \/ ~HintFits(g) \/ ~upToDate
  /\ Fail

(* getPendingWithdrawalIndexesAndValidate: the first local entry that is   *)
(* due by the host's clock.  Without one the run is over.                  *)
ReadLocal ==
  /\ run.at = "local"
  /\ \E clock \in (now - MaxSkew) .. (now + MaxSkew) :
       IF DueAt(clock) = {}
       THEN run' = Idle
       ELSE LET i == First(DueAt(clock))
            IN  run' = [run EXCEPT !.at = "locked", !.entry = LocalEntry(i), !.index = <<i>>]
  /\ Reads /\ UNCHANGED <<listStable, upToDate>>

ReadLocked ==
  /\ run.at = "locked"
  /\ Matches(run.entry) # {}
  /\ run' = [run EXCEPT !.at = "send", !.entry = <<>>,
                        !.index = Append(@, First(Matches(run.entry)))]
  /\ Reads /\ UNCHANGED <<listStable, upToDate>>

NoMatch ==
  /\ run.at = "locked"
  /\ Matches(run.entry) = {}
  /\ Fail

SendFinish ==
  /\ run.at = "send"
  /\ Kind = "finishPendingWithdrawals"
  /\ FinishPendingWithdrawal(Beneficiary, run.index[1], run.index[2])
  /\ run' = [run EXCEPT !.at = "local", !.index = <<>>]
  /\ upToDate' = TRUE
  /\ UNCHANGED <<strategies, listStable>>

FinishRefused ==
  /\ run.at = "send"
  /\ Kind = "finishPendingWithdrawals"
  /\ ValidRequest(Beneficiary, run.index[1], run.index[2])
       => lockedPending[run.index[2]].timestamp > now
  /\ Fail

RunStep ==
  \/ ReadLength \/ ReadHead \/ ReadPrevious \/ ReadVotedGroups
  \/ Check \/ NoIndex \/ GroupsDone
  \/ SendVote \/ SendRevoke \/ SendWithdraw \/ Refused
  \/ ReadLocal \/ ReadLocked \/ NoMatch \/ SendFinish \/ FinishRefused

(* The host goes down; nothing is kept between runs.                       *)
Crash ==
  /\ run.at # "idle"
  /\ Fail

----------------------------------------------------------------------------
(* What happens meanwhile.                                                 *)

Meanwhile ==
  /\ UNCHANGED run
  /\ upToDate' = \/ run.at \notin {"locked", "send"}
                 \/ /\ upToDate
                    /\ IF Kind = "finishPendingWithdrawals"
                       THEN UNCHANGED <<pendingWithdrawals, lockedPending>>
                       ELSE UNCHANGED <<scheduled, balance, nonvoting,
                                        pendingVotes, activeVotes>>

ListKept == UNCHANGED <<strategies, listStable>>

ListChanged == listStable' = (run.at \notin {"head", "walk"})

OtherCaller == BotStep /\ ListKept /\ Meanwhile

Enters(n) == IssuedCelo + n <= bounds.celo

OnlyListed ==
  {[g \in Groups |-> IF g \in Listed THEN f[g] ELSE 0] : f \in [Listed -> 0 .. bounds.celo]}

(* Manager deposits into, moves between and withdraws from groups of the   *)
(* two strategies.                                                         *)
ManagerCall ==
  /\ \/ \E votes \in OnlyListed : Enters(Total(votes)) /\ ScheduleVotes(votes)
     \/ \E from, to \in OnlyListed : ScheduleTransfer(from, to)
     \/ /\ bounds.withdrawals
        /\ \E b \in Beneficiaries, withdrawals \in OnlyListed :
             ScheduleWithdrawals(b, withdrawals)
  /\ ListKept /\ Meanwhile

(* The first deposit with a specific strategy.                             *)
DepositWithStrategy(g) ==
  /\ g \in bounds.moves
  /\ g \notin SeqExt!ToSet(votedGroups)
  /\ votedGroups' = Append(votedGroups, g)
  /\ \E n \in 1 .. MaxCelo : Enters(n) /\ ScheduleVotes(Only(Groups, g, n))
  /\ UNCHANGED <<activeGroups, bounds, listStable>> /\ Meanwhile

ActivateGroup(g) ==
  /\ g \in bounds.moves
  /\ ~SeqExt!Contains(activeGroups, g)
  /\ activeGroups' = Append(activeGroups, g)
  /\ ListChanged
  /\ UNCHANGED <<vars, votedGroups, bounds>> /\ Meanwhile

(* deactivateGroup: the group leaves the list and its CELO, as far as it   *)
(* stands for the strategy's stCELO, is scheduled to move to the others.   *)
DeactivateGroup(g) ==
  /\ g \in bounds.moves
  /\ \E i \in DOMAIN activeGroups :
       /\ activeGroups[i] = g
       /\ activeGroups' = SeqExt!RemoveAt(activeGroups, i)
  /\ ListChanged
  /\ \E n \in 0 .. getCeloForGroup(g), to \in OnlyListed :
       /\ to[g] = 0
       /\ ScheduleTransfer(Only(Groups, g, n), to)
  /\ UNCHANGED <<votedGroups, bounds>> /\ Meanwhile

(* stCELO of the groups changes and with it their order.                   *)
ReorderGroups ==
  /\ bounds.moves # {}
  /\ \E i \in 1 .. Len(activeGroups) - 1 :
       activeGroups' = [activeGroups EXCEPT ![i] = activeGroups[i + 1],
                                            ![i + 1] = activeGroups[i]]
  /\ ListChanged
  /\ UNCHANGED <<vars, votedGroups, bounds>> /\ Meanwhile

(* Time passes until every withdrawal is due by every clock.               *)
Wait ==
  /\ \E k \in DOMAIN lockedPending : now <= lockedPending[k].timestamp + MaxSkew
  /\ now' = now + 1
  /\ UNCHANGED <<scheduled, pendingWithdrawals, paused, balance, paid, nonvoting,
                 lockedPending, election, donated>>
  /\ ListKept /\ Meanwhile

ElectionChange ==
  /\ bounds.epochs
  /\ \E rewards \in Allocations : Enters(Total(rewards)) /\ NextEpoch(rewards)
  /\ ListKept /\ Meanwhile

BotNext ==
  \/ \E t \in Tasks : Start(t)
  \/ RunStep \/ Crash
  \/ OtherCaller \/ ManagerCall \/ ReorderGroups \/ Wait \/ ElectionChange
  \/ \E g \in Groups : DepositWithStrategy(g) \/ ActivateGroup(g) \/ DeactivateGroup(g)

BotSpec == BotInit /\ [][BotNext]_botVars

----------------------------------------------------------------------------
(* Fairness.  A task that runs goes on, every task is run again and again, *)
(* and time passes.  Some day the hosts stay up, Manager moves no more     *)
(* CELO between groups, the list keeps its order, and no group that is off *)
(* the lists has anything scheduled (see ScheduledIsListed).               *)
Scheduled(g) == toVote[g] + toRevoke[g] + toWithdraw[g] > 0

Settled == \A g \in Groups : Scheduled(g) => g \in Listed

Disturbance == (Crash /\ ~RunStep) \/ Transfer \/ activeGroups' # activeGroups

FairBotSpec ==
  /\ BotSpec
  /\ WF_botVars(RunStep) /\ WF_botVars(Wait)
  /\ \A t \in Tasks : SF_botVars(Start(t))
  /\ <>[]Settled
  /\ <>[][~Disturbance]_botVars

(* A walk call by call through the list gathers every group of both        *)
(* strategies, unless the list changed under it.                           *)
WalkGathersAll ==
  [][ReadVotedGroups /\ listStable => Listed \subseteq SeqExt!ToSet(run'.groups)]_botVars

(* revoke.ts always finds the index of a group it must revoke votes from:  *)
(* whatever was netted, transferred or withdrawn in between, CELO to be    *)
(* revoked is votes that have been cast.                                   *)
RevokeFindsIndex == \A g \in Groups : toRevoke[g] > 0 => votesForGroup(g) > 0

(* What a beneficiary is owed is paid, by tasks that may be refused, crash *)
(* and act on stale lists: AllPaid.  CELO scheduled for a group becomes    *)
(* votes: AllVoted.  See AccountClaims.                                    *)

============================================================================
