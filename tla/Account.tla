------------------------------ MODULE Account ------------------------------
(***************************************************************************)
(* src/contracts/Account.sol: the contract that holds every CELO of the    *)
(* protocol, votes with it in Election and pays withdrawals through        *)
(* LockedGold.                                                             *)
(*                                                                         *)
(* A transaction that reverts changes nothing, so every require, revert    *)
(* and checked subtraction is a guard, and a call that returns early       *)
(* without effect is a stuttering step.  One transaction is one step: no   *)
(* call made here hands control to an untrusted party (the beneficiary is  *)
(* paid with GoldToken.transfer, which runs no code of his).               *)
(*                                                                         *)
(* A definition named Bug_... is not part of the model: it is the mistaken *)
(* form of the definition it precedes, against which the properties below  *)
(* are known to fail.                                                      *)
(*                                                                         *)
(* External contracts, modelled from how Account uses them: the balances   *)
(* kept by GoldToken (balance, paid), LockedGold's non-voting gold and     *)
(* pending withdrawals, Election's pending and active votes.  Slashing of  *)
(* the account's own locked gold is left out.                              *)
(***************************************************************************)
EXTENDS Amounts, Sequences

CONSTANTS
  Groups,           \* validator groups
  Beneficiaries,    \* accounts that withdraw
  UnlockingPeriod,  \* LockedGold.unlockingPeriod()
  MaxCelo,          \* bound: CELO that ever enters the system
  MaxTime           \* bound: the clock stops here once nothing is locked

ASSUME GroupsAssumption == IsFiniteSet(Groups)
ASSUME BeneficiariesAssumption == IsFiniteSet(Beneficiaries)
ASSUME BoundsAssumption == /\ UnlockingPeriod \in Nat
                           /\ MaxCelo \in Nat
                           /\ MaxTime \in Nat

VARIABLES
  toVote,                    \* scheduledVotes[g].toVote
  toRevoke,                  \* scheduledVotes[g].toRevoke
  toWithdraw,                \* scheduledVotes[g].toWithdraw
  toWithdrawFor,             \* scheduledVotes[g].toWithdrawFor[b]
  totalScheduledWithdrawals,
  pendingWithdrawals,        \* pendingWithdrawals[b], an array
  paused,                    \* Pausable
  balance,                   \* external: CELO held by the contract
  paid,                      \* external: CELO received by each beneficiary
  nonvoting,                 \* external: non-voting locked gold
  lockedPending,             \* external: LockedGold's pending withdrawals
  pendingVotes,              \* external: Election's pending votes
  activeVotes,               \* external: Election's active votes
  activatable,               \* external: groups last voted for in an older epoch
  votable,                   \* external: groups Election.vote accepts votes for
  now,                       \* external: block.timestamp
  donated                    \* history: CELO that came in through receive()

scheduled == <<toVote, toRevoke, toWithdraw, toWithdrawFor, totalScheduledWithdrawals>>
election == <<pendingVotes, activeVotes, activatable, votable>>
vars == <<scheduled, pendingWithdrawals, paused, balance, paid, nonvoting,
          lockedPending, election, now, donated>>

PendingWithdrawal == [value : Nat, timestamp : Nat]

Allocations == [Groups -> 0 .. MaxCelo]

----------------------------------------------------------------------------
(* Views.                                                                  *)

votesForGroup(g) == pendingVotes[g] + activeVotes[g]

Bug_IgnoresToWithdraw(g) ==
  Monus(votesForGroup(g) + toVote[g], toRevoke[g])

Bug_IgnoresToRevoke(g) ==
  Monus(votesForGroup(g) + toVote[g], toWithdraw[g])

getCeloForGroup(g) ==
  Monus(votesForGroup(g) + toVote[g], toRevoke[g] + toWithdraw[g])

(* Before the checked subtraction of totalScheduledWithdrawals.            *)
TotalVotes == Total(pendingVotes) + Total(activeVotes)
HeldCelo == balance + nonvoting + TotalVotes
getTotalCelo == HeldCelo - totalScheduledWithdrawals

Values(s) == [i \in DOMAIN s |-> s[i].value]

(* Every CELO that ever entered the system, for the bound MaxCelo.         *)
IssuedCelo == HeldCelo + Total(Values(lockedPending)) + Total(paid)

(* Removal from an array by moving its last element into the hole.         *)
SwapRemove(s, i) == SubSeq([s EXCEPT ![i] = s[Len(s)]], 1, Len(s) - 1)

(* The two results of getAndUpdateToVoteAndToRevoke: what is to be voted   *)
(* for a group and what is to be revoked from it cancel out.               *)
NetToVote(g, addToVote, addToRevoke) ==
  Monus(toVote[g] + addToVote, toRevoke[g] + addToRevoke)

Bug_RevokeNotNetted(g, addToVote, addToRevoke) == toRevoke[g] + addToRevoke

NetToRevoke(g, addToVote, addToRevoke) ==
  Monus(toRevoke[g] + addToRevoke, toVote[g] + addToVote)

Bug_PaysAllToVote(b, g) == MinOf(balance, NetToVote(g, 0, 0))

(* withdraw: what is paid at once out of the CELO still to be voted for    *)
(* the group, as far as the contract holds it, and what must be revoked.   *)
ImmediateWithdrawal(b, g) ==
  MinOf(MinOf(balance, NetToVote(g, 0, 0)), toWithdrawFor[g][b])

Bug_PaidTwice(b, g) == toWithdrawFor[g][b]

RevokeAmount(b, g) == toWithdrawFor[g][b] - ImmediateWithdrawal(b, g)

Bug_LeavesNonvotingIdle(g) == NetToVote(g, 0, 0)

(* activateAndVote: CELO to lock on top of the non-voting gold left by     *)
(* earlier revocations, what the balance allows, and the votes to cast.    *)
ToLock(g) == Monus(NetToVote(g, 0, 0), nonvoting)
AvailableToLock(g) == MinOf(balance, ToLock(g))

FinalVoteAmount(g) == NetToVote(g, 0, 0) - (ToLock(g) - AvailableToLock(g))

(* Election.hasActivatablePendingVotes: an epoch must have passed since    *)
(* the last vote for the group.                                            *)
HasActivatablePendingVotes(g) == g \in activatable /\ pendingVotes[g] > 0

(* revokeVotes: what can be revoked now.                                   *)
Revokable(g) == MinOf(votesForGroup(g), NetToRevoke(g, 0, 0))

Bug_IgnoresTimestamp(b, i, k) ==
  /\ i \in DOMAIN pendingWithdrawals[b]
  /\ k \in DOMAIN lockedPending
  /\ pendingWithdrawals[b][i].value = lockedPending[k].value

(* validatePendingWithdrawalRequest: entry i of the beneficiary's array    *)
(* and entry k of LockedGold's are equal in value and timestamp.           *)
ValidRequest(b, i, k) ==
  /\ i \in DOMAIN pendingWithdrawals[b]
  /\ k \in DOMAIN lockedPending
  /\ pendingWithdrawals[b][i] = lockedPending[k]

----------------------------------------------------------------------------
Init ==
  /\ toVote = [g \in Groups |-> 0]
  /\ toRevoke = [g \in Groups |-> 0]
  /\ toWithdraw = [g \in Groups |-> 0]
  /\ toWithdrawFor = [g \in Groups |-> [b \in Beneficiaries |-> 0]]
  /\ totalScheduledWithdrawals = 0
  /\ pendingWithdrawals = [b \in Beneficiaries |-> <<>>]
  /\ paused = FALSE
  /\ balance = 0
  /\ paid = [b \in Beneficiaries |-> 0]
  /\ nonvoting = 0
  /\ lockedPending = <<>>
  /\ pendingVotes = [g \in Groups |-> 0]
  /\ activeVotes = [g \in Groups |-> 0]
  /\ activatable = {}
  /\ votable = Groups
  /\ now = 0
  /\ donated = 0

(* scheduleVotes, called by Manager.deposit with votes that sum up to the  *)
(* CELO sent along.                                                        *)
ScheduleVotes(votes) ==
  /\ ~paused
  /\ IssuedCelo + Total(votes) <= MaxCelo
  /\ toVote' = [g \in Groups |-> NetToVote(g, votes[g], 0)]
  /\ toRevoke' = [g \in Groups |-> NetToRevoke(g, votes[g], 0)]
  /\ balance' = balance + Total(votes)
  /\ UNCHANGED <<toWithdraw, toWithdrawFor, totalScheduledWithdrawals,
                 pendingWithdrawals, paused, paid, nonvoting, lockedPending,
                 election, now, donated>>

(* scheduleTransfer: the strategies move CELO between groups.  A group may *)
(* be on both sides.                                                       *)
ScheduleTransfer(from, to) ==
  /\ ~paused
  /\ \A g \in Groups : from[g] <= getCeloForGroup(g)
  /\ Total(from) = Total(to)
  /\ toVote' = [g \in Groups |-> NetToVote(g, to[g], from[g])]
  /\ toRevoke' = [g \in Groups |-> NetToRevoke(g, to[g], from[g])]
  /\ UNCHANGED <<toWithdraw, toWithdrawFor, totalScheduledWithdrawals,
                 pendingWithdrawals, paused, balance, paid, nonvoting,
                 lockedPending, election, now, donated>>

Bug_OverwritesToWithdrawFor(b, withdrawals) ==
  /\ ~paused
  /\ \A g \in Groups : withdrawals[g] <= getCeloForGroup(g)
  /\ toWithdraw' = Plus(toWithdraw, withdrawals)
  /\ toWithdrawFor' = [g \in Groups |-> [toWithdrawFor[g] EXCEPT ![b] = withdrawals[g]]]
  /\ totalScheduledWithdrawals' = totalScheduledWithdrawals + Total(withdrawals)
  /\ UNCHANGED <<toVote, toRevoke, pendingWithdrawals, paused, balance, paid,
                 nonvoting, lockedPending, election, now, donated>>

(* scheduleWithdrawals, called by Manager.withdraw after it has burnt the  *)
(* beneficiary's stCELO.                                                   *)
ScheduleWithdrawals(b, withdrawals) ==
  /\ ~paused
  /\ \A g \in Groups : withdrawals[g] <= getCeloForGroup(g)
  /\ toWithdraw' = Plus(toWithdraw, withdrawals)
  /\ toWithdrawFor' = [g \in Groups |->
                        [toWithdrawFor[g] EXCEPT ![b] = @ + withdrawals[g]]]
  /\ totalScheduledWithdrawals' = totalScheduledWithdrawals + Total(withdrawals)
  /\ UNCHANGED <<toVote, toRevoke, pendingWithdrawals, paused, balance, paid,
                 nonvoting, lockedPending, election, now, donated>>

(* _revokeVotes: n votes for g are revoked, the pending ones first.        *)
RevokeFromElection(g, n) ==
  LET fromPending == MinOf(n, pendingVotes[g])
      fromActive == n - fromPending
  IN  /\ fromActive <= activeVotes[g]
      /\ pendingVotes' = [pendingVotes EXCEPT ![g] = @ - fromPending]
      /\ activeVotes' = [activeVotes EXCEPT ![g] = @ - fromActive]
      /\ UNCHANGED <<activatable, votable>>

(* withdraw: anyone starts the withdrawal of all that is scheduled for b   *)
(* from g.  The part that is revoked is unlocked, not left non-voting, and *)
(* is recorded both here and in LockedGold.                                *)
Withdraw(b, g) ==
  LET amount == toWithdrawFor[g][b]
      immediate == ImmediateWithdrawal(b, g)
      rest == RevokeAmount(b, g)
      entry == [value |-> rest, timestamp |-> now + UnlockingPeriod]
  IN  /\ ~paused
      /\ amount > 0
      /\ amount <= toWithdraw[g]
      /\ amount <= totalScheduledWithdrawals
      /\ RevokeFromElection(g, rest)
      /\ toWithdrawFor' = [toWithdrawFor EXCEPT ![g][b] = 0]
      /\ toWithdraw' = [toWithdraw EXCEPT ![g] = @ - amount]
      /\ totalScheduledWithdrawals' = totalScheduledWithdrawals - amount
      /\ toVote' = [toVote EXCEPT ![g] = NetToVote(g, 0, 0) - immediate]
      /\ toRevoke' = [toRevoke EXCEPT ![g] = NetToRevoke(g, 0, 0)]
      /\ balance' = balance - immediate
      /\ paid' = [paid EXCEPT ![b] = @ + immediate]
      /\ IF rest = 0
         THEN UNCHANGED <<pendingWithdrawals, lockedPending>>
         ELSE /\ pendingWithdrawals' = [pendingWithdrawals EXCEPT ![b] = Append(@, entry)]
              /\ lockedPending' = Append(lockedPending, entry)
      /\ UNCHANGED <<paused, nonvoting, now, donated>>

(* activateAndVote: anyone turns CELO scheduled for g into votes.  The     *)
(* activation comes first, so votes cast now wait for the next epoch.      *)
(* Election.vote refuses a vote of zero, or for a group that is            *)
(* deregistered or full, and that undoes the activation too.               *)
ActivateAndVote(g) ==
  LET final == FinalVoteAmount(g)
      locked == AvailableToLock(g)
      activated == IF HasActivatablePendingVotes(g) THEN pendingVotes[g] ELSE 0
  IN  /\ ~paused
      /\ NetToVote(g, 0, 0) > 0 => final > 0 /\ g \in votable
      /\ toVote' = [toVote EXCEPT ![g] = NetToVote(g, 0, 0) - final]
      /\ toRevoke' = [toRevoke EXCEPT ![g] = NetToRevoke(g, 0, 0)]
      /\ balance' = balance - locked
      /\ nonvoting' = nonvoting + locked - final
      /\ pendingVotes' = [pendingVotes EXCEPT ![g] = @ - activated + final]
      /\ activeVotes' = [activeVotes EXCEPT ![g] = @ + activated]
      /\ activatable' = IF final > 0 THEN activatable \ {g} ELSE activatable
      /\ UNCHANGED <<toWithdraw, toWithdrawFor, totalScheduledWithdrawals,
                     pendingWithdrawals, paused, paid, lockedPending, votable,
                     now, donated>>

(* revokeVotes: anyone turns votes scheduled for revocation into           *)
(* non-voting gold.                                                        *)
RevokeVotes(g) ==
  /\ ~paused
  /\ NetToRevoke(g, 0, 0) > 0
  /\ RevokeFromElection(g, Revokable(g))
  /\ toVote' = [toVote EXCEPT ![g] = NetToVote(g, 0, 0)]
  /\ toRevoke' = [toRevoke EXCEPT ![g] = NetToRevoke(g, 0, 0) - Revokable(g)]
  /\ nonvoting' = nonvoting + Revokable(g)
  /\ UNCHANGED <<toWithdraw, toWithdrawFor, totalScheduledWithdrawals,
                 pendingWithdrawals, paused, balance, paid, lockedPending,
                 now, donated>>

(* finishPendingWithdrawal: anyone hands out a matured withdrawal.  Both   *)
(* arrays lose an entry by SwapRemove; LockedGold pays the contract, which *)
(* passes the value of its own entry on to the beneficiary.                *)
FinishPendingWithdrawal(b, i, k) ==
  /\ ~paused
  /\ ValidRequest(b, i, k)
  /\ lockedPending[k].timestamp <= now
  /\ pendingWithdrawals' = [pendingWithdrawals EXCEPT ![b] = SwapRemove(@, i)]
  /\ lockedPending' = SwapRemove(lockedPending, k)
  /\ paid' = [paid EXCEPT ![b] = @ + pendingWithdrawals[b][i].value]
  /\ balance' = balance + lockedPending[k].value - pendingWithdrawals[b][i].value
  /\ UNCHANGED <<scheduled, paused, nonvoting, election, now, donated>>

(* receive(): CELO sent to the contract by anyone, paused or not.          *)
Receive(value) ==
  /\ IssuedCelo + value <= MaxCelo
  /\ balance' = balance + value
  /\ donated' = donated + value
  /\ UNCHANGED <<scheduled, pendingWithdrawals, paused, paid, nonvoting,
                 lockedPending, election, now>>

(* Election: a new epoch pays rewards into the active votes, and votes     *)
(* cast before it can be activated.                                        *)
NextEpoch(rewards) ==
  /\ \A g \in Groups : activeVotes[g] = 0 => rewards[g] = 0
  /\ IssuedCelo + Total(rewards) <= MaxCelo
  /\ activeVotes' = Plus(activeVotes, rewards)
  /\ activatable' = Groups
  /\ UNCHANGED <<scheduled, pendingWithdrawals, paused, balance, paid,
                 nonvoting, lockedPending, pendingVotes, votable, now, donated>>

(* A group is deregistered or full, or again accepts votes.                *)
VotableChange(g) ==
  /\ votable' = IF g \in votable THEN votable \ {g} ELSE votable \cup {g}
  /\ UNCHANGED <<scheduled, pendingWithdrawals, paused, balance, paid,
                 nonvoting, lockedPending, pendingVotes, activeVotes,
                 activatable, now, donated>>

(* Time passes, up to MaxTime and on until nothing is locked any more.     *)
Tick ==
  /\ \/ now < MaxTime
     \/ \E k \in DOMAIN lockedPending : lockedPending[k].timestamp > now
  /\ now' = now + 1
  /\ UNCHANGED <<scheduled, pendingWithdrawals, paused, balance, paid,
                 nonvoting, lockedPending, election, donated>>

(* Pausable, inherited: the pauser stops and resumes the operations above. *)
Pause ==
  /\ paused' = TRUE
  /\ UNCHANGED <<scheduled, pendingWithdrawals, balance, paid, nonvoting,
                 lockedPending, election, now, donated>>

Unpause ==
  /\ paused' = FALSE
  /\ UNCHANGED <<scheduled, pendingWithdrawals, balance, paid, nonvoting,
                 lockedPending, election, now, donated>>

(* What anyone may call, in practice the operators' bots.                  *)
BotStep ==
  \/ \E b \in Beneficiaries, g \in Groups : Withdraw(b, g)
  \/ \E g \in Groups : ActivateAndVote(g) \/ RevokeVotes(g)
  \/ \E b \in Beneficiaries : \E i \in DOMAIN pendingWithdrawals[b],
                                 k \in DOMAIN lockedPending :
       FinishPendingWithdrawal(b, i, k)

(* What only Manager may call.                                             *)
ManagerStep ==
  \/ \E votes \in Allocations : ScheduleVotes(votes)
  \/ \E from, to \in Allocations : ScheduleTransfer(from, to)
  \/ \E b \in Beneficiaries, withdrawals \in Allocations :
       ScheduleWithdrawals(b, withdrawals)

EnvironmentStep ==
  \/ \E value \in 1 .. MaxCelo : Receive(value)
  \/ \E rewards \in Allocations : NextEpoch(rewards)
  \/ \E g \in Groups : VotableChange(g)
  \/ Tick
  \/ Pause
  \/ Unpause

Next == ManagerStep \/ BotStep \/ EnvironmentStep

Spec == Init /\ [][Next]_vars

----------------------------------------------------------------------------
(* Type correctness.                                                       *)
TypeOK ==
  /\ toVote \in [Groups -> Nat]
  /\ toRevoke \in [Groups -> Nat]
  /\ toWithdraw \in [Groups -> Nat]
  /\ toWithdrawFor \in [Groups -> [Beneficiaries -> Nat]]
  /\ totalScheduledWithdrawals \in Nat
  /\ pendingWithdrawals \in [Beneficiaries -> Seq(PendingWithdrawal)]
  /\ paused \in BOOLEAN
  /\ balance \in Nat
  /\ paid \in [Beneficiaries -> Nat]
  /\ nonvoting \in Nat
  /\ lockedPending \in Seq(PendingWithdrawal)
  /\ pendingVotes \in [Groups -> Nat]
  /\ activeVotes \in [Groups -> Nat]
  /\ activatable \subseteq Groups
  /\ votable \subseteq Groups
  /\ now \in Nat
  /\ donated \in Nat

(* No group is at once waiting for votes and for their revocation, through *)
(* any sequence of deposits, transfers and partial revocations.            *)
Netted == \A g \in Groups : toVote[g] = 0 \/ toRevoke[g] = 0

(* What is scheduled to leave a group never exceeds what it has: getCelo-  *)
(* ForGroup's truncation to zero hides no debt, whatever the bots do       *)
(* between two schedulings.                                                *)
GroupSolvent ==
  \A g \in Groups :
    toRevoke[g] + toWithdraw[g] <= votesForGroup(g) + toVote[g]

(* The three levels of withdrawal bookkeeping agree, so withdraw's checked *)
(* subtractions never revert.                                              *)
WithdrawalBooksAgree ==
  /\ \A g \in Groups : toWithdraw[g] = Total(toWithdrawFor[g])
  /\ totalScheduledWithdrawals = Total(toWithdraw)

(* Unspent CELO, in the balance or locked and not voting, is what is still *)
(* to be voted for beyond what is still to be revoked, plus donations:     *)
(* between them the bots always find the CELO for every scheduled vote.    *)
Conserved ==
  balance + nonvoting + Total(toRevoke) = Total(toVote) + donated

(* getTotalCelo never underflows and attributes every CELO it reports to   *)
(* exactly one group, but for CELO sent in by receive(): the in-transit    *)
(* funds of pending transfers are counted once.                            *)
CeloAttributed ==
  getTotalCelo = Total([g \in Groups |-> getCeloForGroup(g)]) + donated

(* The contract's per-beneficiary arrays and LockedGold's array hold the   *)
(* same entries with the same multiplicity, whatever order entries were    *)
(* finished in, so every local entry can be matched and no LockedGold      *)
(* entry is orphaned.                                                      *)
Occurrences(s, e) == Cardinality({i \in DOMAIN s : s[i] = e})
PendingMatched ==
  LET entries == UNION ({{s[i] : i \in DOMAIN s} :
                          s \in {pendingWithdrawals[b] : b \in Beneficiaries}
                                \cup {lockedPending}})
  IN  \A e \in entries :
        Occurrences(lockedPending, e) =
          Total([b \in Beneficiaries |-> Occurrences(pendingWithdrawals[b], e)])

(* The calls open to anyone move CELO between balance, locked gold and     *)
(* votes but never change what getCeloForGroup reports for any group: the  *)
(* strategies compute with it between any two of them.                     *)
BotsPreserveGroupCelo ==
  [][BotStep => \A g \in Groups : getCeloForGroup(g)' = getCeloForGroup(g)]_vars
============================================================================
