--------------------------- MODULE AccountProofs ---------------------------
(***************************************************************************)
(* Theorems about Account, about the promise Claims that it implements and *)
(* about the tasks of Bots that use it, for every finite set of groups and *)
(* beneficiaries and every unlocking period, clock skew and bound.         *)
(***************************************************************************)
EXTENDS Bots, AmountsProofs

USE GroupsAssumption, BeneficiariesAssumption, BoundsAssumption

(* Removing an entry by moving the last one into its place leaves an array *)
(* of the same kind of entries.                                            *)
LEMMA SwapRemoveType ==
  ASSUME NEW S, NEW s \in Seq(S), NEW i \in DOMAIN s
  PROVE  SwapRemove(s, i) \in Seq(S)
<1>1. Len(s) \in Nat /\ Len(s) > 0 /\ s[Len(s)] \in S
  OBVIOUS
<1>2. [s EXCEPT ![i] = s[Len(s)]] \in Seq(S) /\ Len([s EXCEPT ![i] = s[Len(s)]]) = Len(s)
  BY <1>1
<1> QED BY <1>1, <1>2 DEF SwapRemove

(* What the two arithmetic helpers return.                                 *)
LEMMA MinOfFact ==
  ASSUME NEW a \in Nat, NEW b \in Nat
  PROVE  MinOf(a, b) \in Nat /\ MinOf(a, b) <= a /\ MinOf(a, b) <= b
BY DEF MinOf

(* What truncated subtraction yields: the two directions differ by the     *)
(* plain difference, and one of them is zero.                              *)
LEMMA MonusFact ==
  ASSUME NEW a \in Nat, NEW b \in Nat
  PROVE  /\ Monus(a, b) \in Nat
         /\ Monus(a, b) - Monus(b, a) = a - b
         /\ Monus(a, b) = 0 \/ Monus(b, a) = 0
         /\ b = 0 => Monus(a, b) = a
BY DEF Monus

(* Netting yields two amounts of which one is zero and whose difference is *)
(* what was scheduled before plus what is added.                           *)
LEMMA NetFact ==
  ASSUME TypeOK, NEW g \in Groups, NEW add \in Nat, NEW sub \in Nat
  PROVE  /\ NetToVote(g, add, sub) \in Nat
         /\ NetToRevoke(g, add, sub) \in Nat
         /\ NetToVote(g, add, sub) = 0 \/ NetToRevoke(g, add, sub) = 0
         /\ NetToVote(g, add, sub) - NetToRevoke(g, add, sub)
              = toVote[g] + add - (toRevoke[g] + sub)
<1> DEFINE v == toVote[g] + add
           r == toRevoke[g] + sub
<1>1. v \in Nat /\ r \in Nat
  BY DEF TypeOK
<1>2. NetToVote(g, add, sub) = Monus(v, r) /\ NetToRevoke(g, add, sub) = Monus(r, v)
  BY DEF NetToVote, NetToRevoke
<1>3. v - r = toVote[g] + add - (toRevoke[g] + sub)
  BY <1>1 DEF TypeOK
<1> HIDE DEF v, r
<1>4. /\ Monus(v, r) \in Nat /\ Monus(r, v) \in Nat
      /\ Monus(v, r) - Monus(r, v) = v - r
      /\ Monus(v, r) = 0 \/ Monus(r, v) = 0
  BY <1>1, MonusFact
<1> QED BY <1>2, <1>3, <1>4

(* Revoking n votes lowers the group's votes by n and no other group's.    *)
LEMMA RevokeFact ==
  ASSUME TypeOK, NEW g \in Groups, NEW n \in Nat, RevokeFromElection(g, n)
  PROVE  /\ pendingVotes' \in [Groups -> Nat]
         /\ activeVotes' \in [Groups -> Nat]
         /\ UNCHANGED <<activatable, votable>>
         /\ votesForGroup(g)' = votesForGroup(g) - n
         /\ \A h \in Groups \ {g} : votesForGroup(h)' = votesForGroup(h)
<1> DEFINE p == MinOf(n, pendingVotes[g])
<1>1. p \in Nat /\ p <= n /\ p <= pendingVotes[g]
  BY MinOfFact DEF TypeOK
<1> HIDE DEF p
<1>2. /\ n - p <= activeVotes[g]
      /\ pendingVotes' = [pendingVotes EXCEPT ![g] = @ - p]
      /\ activeVotes' = [activeVotes EXCEPT ![g] = @ - (n - p)]
      /\ UNCHANGED <<activatable, votable>>
  BY DEF RevokeFromElection, p
<1>3. pendingVotes' \in [Groups -> Nat] /\ activeVotes' \in [Groups -> Nat]
  BY <1>1, <1>2 DEF TypeOK
<1>4. /\ pendingVotes'[g] = pendingVotes[g] - p
      /\ activeVotes'[g] = activeVotes[g] - (n - p)
  BY <1>2 DEF TypeOK
<1>5. \A h \in Groups \ {g} : pendingVotes'[h] = pendingVotes[h] /\ activeVotes'[h] = activeVotes[h]
  BY <1>2 DEF TypeOK
<1>6. votesForGroup(g)' = votesForGroup(g) - n
  BY <1>1, <1>4 DEF TypeOK, votesForGroup
<1>7. \A h \in Groups \ {g} : votesForGroup(h)' = votesForGroup(h)
  BY <1>5 DEF votesForGroup
<1> QED BY <1>2, <1>3, <1>6, <1>7

(* The initial state is well typed.                                        *)
LEMMA TypeInit == Init => TypeOK
<1> SUFFICES ASSUME Init PROVE TypeOK
  OBVIOUS
<1>1. <<>> \in Seq(PendingWithdrawal)
  OBVIOUS
<1> QED BY <1>1 DEF Init, TypeOK

(* Types are kept by every step, whatever else holds.                      *)
LEMMA TypeStep == TypeOK /\ [Next]_vars => TypeOK'
<1> SUFFICES ASSUME TypeOK, [Next]_vars PROVE TypeOK'
  OBVIOUS
<1> USE DEF TypeOK, Allocations
<1>1. ASSUME NEW votes \in Allocations, ScheduleVotes(votes) PROVE TypeOK'
  <2>1. Total(votes) \in Nat
    <3>1. votes \in [Groups -> Nat] OBVIOUS
    <3> QED BY <3>1, UnitsFinite
  <2>2. toVote' \in [Groups -> Nat] /\ toRevoke' \in [Groups -> Nat]
    <3>1. \A h \in Groups : NetToVote(h, votes[h], 0) \in Nat /\ NetToRevoke(h, votes[h], 0) \in Nat
      <4> TAKE h \in Groups
      <4>1. votes[h] \in Nat OBVIOUS
      <4> QED BY <4>1, NetFact
    <3> QED BY <1>1, <3>1 DEF ScheduleVotes
  <2> QED BY <1>1, <2>1, <2>2 DEF ScheduleVotes, election
<1>2. ASSUME NEW from \in Allocations, NEW to \in Allocations, ScheduleTransfer(from, to)
      PROVE  TypeOK'
  <2>1. toVote' \in [Groups -> Nat] /\ toRevoke' \in [Groups -> Nat]
    <3>1. \A h \in Groups : /\ NetToVote(h, to[h], from[h]) \in Nat
                             /\ NetToRevoke(h, to[h], from[h]) \in Nat
      <4> TAKE h \in Groups
      <4>1. to[h] \in Nat /\ from[h] \in Nat OBVIOUS
      <4> QED BY <4>1, NetFact
    <3> QED BY <1>2, <3>1 DEF ScheduleTransfer
  <2> QED BY <1>2, <2>1 DEF ScheduleTransfer, election
<1>3. ASSUME NEW b \in Beneficiaries, NEW withdrawals \in Allocations,
             ScheduleWithdrawals(b, withdrawals)
      PROVE  TypeOK'
  <2>1. Total(withdrawals) \in Nat
    <3>1. withdrawals \in [Groups -> Nat] OBVIOUS
    <3> QED BY <3>1, UnitsFinite
  <2>2. toWithdraw' \in [Groups -> Nat]
    BY <1>3 DEF ScheduleWithdrawals, Plus
  <2>3. toWithdrawFor' \in [Groups -> [Beneficiaries -> Nat]]
    BY <1>3 DEF ScheduleWithdrawals
  <2> QED BY <1>3, <2>1, <2>2, <2>3 DEF ScheduleWithdrawals, election
<1>4. ASSUME NEW b \in Beneficiaries, NEW g \in Groups, Withdraw(b, g) PROVE TypeOK'
  <2> DEFINE amount == toWithdrawFor[g][b]
             immediate == ImmediateWithdrawal(b, g)
             rest == RevokeAmount(b, g)
             entry == [value |-> rest, timestamp |-> now + UnlockingPeriod]
  <2>1. /\ amount \in Nat /\ immediate \in Nat /\ rest \in Nat
        /\ immediate <= balance /\ immediate <= NetToVote(g, 0, 0)
        /\ NetToVote(g, 0, 0) \in Nat /\ NetToRevoke(g, 0, 0) \in Nat
    <3>1. amount \in Nat /\ NetToVote(g, 0, 0) \in Nat /\ NetToRevoke(g, 0, 0) \in Nat
      BY NetFact
    <3>2. /\ MinOf(balance, NetToVote(g, 0, 0)) \in Nat
          /\ MinOf(balance, NetToVote(g, 0, 0)) <= balance
          /\ MinOf(balance, NetToVote(g, 0, 0)) <= NetToVote(g, 0, 0)
      BY <3>1, MinOfFact
    <3>3. immediate \in Nat /\ immediate <= MinOf(balance, NetToVote(g, 0, 0)) /\ immediate <= amount
      BY <3>1, <3>2, MinOfFact DEF ImmediateWithdrawal
    <3> QED BY <3>1, <3>2, <3>3 DEF RevokeAmount
  <2>2. /\ amount <= toWithdraw[g] /\ amount <= totalScheduledWithdrawals
        /\ toWithdraw' = [toWithdraw EXCEPT ![g] = @ - amount]
        /\ totalScheduledWithdrawals' = totalScheduledWithdrawals - amount
        /\ toWithdrawFor' = [toWithdrawFor EXCEPT ![g][b] = 0]
        /\ toVote' = [toVote EXCEPT ![g] = NetToVote(g, 0, 0) - immediate]
        /\ toRevoke' = [toRevoke EXCEPT ![g] = NetToRevoke(g, 0, 0)]
        /\ balance' = balance - immediate
        /\ paid' = [paid EXCEPT ![b] = @ + immediate]
        /\ UNCHANGED <<paused, nonvoting, now, donated>>
    BY <1>4 DEF Withdraw
  <2>3. /\ pendingVotes' \in [Groups -> Nat] /\ activeVotes' \in [Groups -> Nat]
        /\ UNCHANGED <<activatable, votable>>
    <3>1. RevokeFromElection(g, rest)
      BY <1>4 DEF Withdraw
    <3> QED BY <2>1, <3>1, RevokeFact
  <2>4. /\ pendingWithdrawals' \in [Beneficiaries -> Seq(PendingWithdrawal)]
        /\ lockedPending' \in Seq(PendingWithdrawal)
    <3>1. entry \in PendingWithdrawal
      BY <2>1 DEF PendingWithdrawal
    <3>2. \/ UNCHANGED <<pendingWithdrawals, lockedPending>>
          \/ /\ pendingWithdrawals' = [pendingWithdrawals EXCEPT ![b] = Append(@, entry)]
             /\ lockedPending' = Append(lockedPending, entry)
      BY <1>4 DEF Withdraw
    <3>3. CASE UNCHANGED <<pendingWithdrawals, lockedPending>>
      BY <3>3
    <3>4. CASE /\ pendingWithdrawals' = [pendingWithdrawals EXCEPT ![b] = Append(@, entry)]
               /\ lockedPending' = Append(lockedPending, entry)
      <4> HIDE DEF entry
      <4>1. Append(pendingWithdrawals[b], entry) \in Seq(PendingWithdrawal)
        BY <3>1
      <4>2. Append(lockedPending, entry) \in Seq(PendingWithdrawal)
        BY <3>1
      <4> QED BY <3>4, <4>1, <4>2
    <3> QED BY <3>2, <3>3, <3>4
  <2> HIDE DEF amount, immediate, rest, entry
  <2>5. /\ toVote' \in [Groups -> Nat] /\ toRevoke' \in [Groups -> Nat]
        /\ toWithdraw' \in [Groups -> Nat] /\ totalScheduledWithdrawals' \in Nat
        /\ balance' \in Nat
    <3>1. toVote' \in [Groups -> Nat] /\ toRevoke' \in [Groups -> Nat]
      BY <2>1, <2>2
    <3>2. toWithdraw' \in [Groups -> Nat]
      BY <2>1, <2>2
    <3>3. totalScheduledWithdrawals' \in Nat /\ balance' \in Nat
      BY <2>1, <2>2
    <3> QED BY <3>1, <3>2, <3>3
  <2>6. toWithdrawFor' \in [Groups -> [Beneficiaries -> Nat]] /\ paid' \in [Beneficiaries -> Nat]
    BY <2>1, <2>2
  <2> QED BY <2>2, <2>3, <2>4, <2>5, <2>6
<1>5. ASSUME NEW g \in Groups, ActivateAndVote(g) PROVE TypeOK'
  <2> DEFINE final == FinalVoteAmount(g)
             locked == AvailableToLock(g)
             activated == IF HasActivatablePendingVotes(g) THEN pendingVotes[g] ELSE 0
  <2>1. /\ final \in Nat /\ locked \in Nat /\ activated \in Nat
        /\ final <= NetToVote(g, 0, 0) /\ final <= nonvoting + locked
        /\ locked <= balance /\ activated <= pendingVotes[g]
        /\ NetToVote(g, 0, 0) \in Nat /\ NetToRevoke(g, 0, 0) \in Nat
    <3> DEFINE C == NetToVote(g, 0, 0)
    <3>1. C \in Nat /\ NetToRevoke(g, 0, 0) \in Nat
      BY NetFact
    <3> HIDE DEF C
    <3>2. ToLock(g) \in Nat /\ ToLock(g) <= C /\ C - ToLock(g) <= nonvoting
      BY <3>1 DEF ToLock, Monus, C
    <3>3. locked \in Nat /\ locked <= balance /\ locked <= ToLock(g)
      BY <3>2, MinOfFact DEF AvailableToLock
    <3>4. final = C - (ToLock(g) - locked)
      BY DEF FinalVoteAmount, C
    <3>5. activated \in Nat /\ activated <= pendingVotes[g]
      OBVIOUS
    <3> HIDE DEF final, locked, activated
    <3>6. final \in Nat /\ final <= C /\ final <= nonvoting + locked
      BY <3>1, <3>2, <3>3, <3>4
    <3> QED BY <3>1, <3>3, <3>5, <3>6 DEF C
  <2> HIDE DEF final, locked, activated
  <2>2. /\ toVote' = [toVote EXCEPT ![g] = NetToVote(g, 0, 0) - final]
        /\ toRevoke' = [toRevoke EXCEPT ![g] = NetToRevoke(g, 0, 0)]
        /\ balance' = balance - locked
        /\ nonvoting' = nonvoting + locked - final
        /\ pendingVotes' = [pendingVotes EXCEPT ![g] = @ - activated + final]
        /\ activeVotes' = [activeVotes EXCEPT ![g] = @ + activated]
        /\ activatable' \subseteq activatable
        /\ UNCHANGED <<toWithdraw, toWithdrawFor, totalScheduledWithdrawals,
                       pendingWithdrawals, paused, paid, lockedPending, votable,
                       now, donated>>
    BY <1>5 DEF ActivateAndVote, final, locked, activated
  <2>3. /\ toVote' \in [Groups -> Nat] /\ toRevoke' \in [Groups -> Nat]
        /\ balance' \in Nat /\ nonvoting' \in Nat
    BY <2>1, <2>2
  <2>4. pendingVotes' \in [Groups -> Nat] /\ activeVotes' \in [Groups -> Nat]
    BY <2>1, <2>2
  <2> QED BY <2>2, <2>3, <2>4
<1>6. ASSUME NEW g \in Groups, RevokeVotes(g) PROVE TypeOK'
  <2>1. /\ NetToVote(g, 0, 0) \in Nat /\ NetToRevoke(g, 0, 0) \in Nat
        /\ Revokable(g) \in Nat /\ Revokable(g) <= NetToRevoke(g, 0, 0)
    <3>1. NetToVote(g, 0, 0) \in Nat /\ NetToRevoke(g, 0, 0) \in Nat
      BY NetFact
    <3>2. votesForGroup(g) \in Nat
      BY DEF votesForGroup
    <3> QED BY <3>1, <3>2, MinOfFact DEF Revokable
  <2>2. /\ pendingVotes' \in [Groups -> Nat] /\ activeVotes' \in [Groups -> Nat]
        /\ UNCHANGED <<activatable, votable>>
    <3>1. RevokeFromElection(g, Revokable(g))
      BY <1>6 DEF RevokeVotes
    <3> QED BY <2>1, <3>1, RevokeFact
  <2>3. toVote' \in [Groups -> Nat] /\ toRevoke' \in [Groups -> Nat] /\ nonvoting' \in Nat
    BY <1>6, <2>1 DEF RevokeVotes
  <2>4. UNCHANGED <<toWithdraw, toWithdrawFor, totalScheduledWithdrawals,
                    pendingWithdrawals, paused, balance, paid, lockedPending,
                    now, donated>>
    BY <1>6 DEF RevokeVotes
  <2> QED BY <2>2, <2>3, <2>4
<1>7. ASSUME NEW b \in Beneficiaries, NEW i \in DOMAIN pendingWithdrawals[b],
             NEW k \in DOMAIN lockedPending, FinishPendingWithdrawal(b, i, k)
      PROVE  TypeOK'
  <2>1. /\ pendingWithdrawals[b] \in Seq(PendingWithdrawal)
        /\ pendingWithdrawals[b][i] \in PendingWithdrawal
        /\ lockedPending[k] = pendingWithdrawals[b][i]
    BY <1>7 DEF FinishPendingWithdrawal, ValidRequest
  <2>2. pendingWithdrawals[b][i].value \in Nat /\ lockedPending[k].value = pendingWithdrawals[b][i].value
    BY <2>1 DEF PendingWithdrawal
  <2>3. /\ SwapRemove(pendingWithdrawals[b], i) \in Seq(PendingWithdrawal)
        /\ SwapRemove(lockedPending, k) \in Seq(PendingWithdrawal)
    BY <2>1, SwapRemoveType
  <2>4. /\ pendingWithdrawals' \in [Beneficiaries -> Seq(PendingWithdrawal)]
        /\ lockedPending' \in Seq(PendingWithdrawal)
    BY <1>7, <2>3 DEF FinishPendingWithdrawal
  <2>5. paid' \in [Beneficiaries -> Nat] /\ balance' \in Nat
    BY <1>7, <2>2 DEF FinishPendingWithdrawal
  <2> QED BY <1>7, <2>4, <2>5 DEF FinishPendingWithdrawal, scheduled, election
<1>8. ASSUME NEW value \in 1 .. MaxCelo, Receive(value) PROVE TypeOK'
  BY <1>8 DEF Receive, scheduled, election
<1>9. ASSUME NEW rewards \in Allocations, NextEpoch(rewards) PROVE TypeOK'
  <2>1. activeVotes' \in [Groups -> Nat] /\ activatable' \subseteq Groups
    BY <1>9 DEF NextEpoch, Plus
  <2> QED BY <1>9, <2>1 DEF NextEpoch, scheduled
<1>10. ASSUME NEW g \in Groups, VotableChange(g) PROVE TypeOK'
  BY <1>10 DEF VotableChange, scheduled
<1>11. CASE Tick
  BY <1>11 DEF Tick, scheduled, election
<1>12. CASE Pause \/ Unpause
  BY <1>12 DEF Pause, Unpause, scheduled, election
<1>13. CASE UNCHANGED vars
  BY <1>13 DEF vars, scheduled, election
<1> QED
  BY <1>1, <1>2, <1>3, <1>4, <1>5, <1>6, <1>7, <1>8, <1>9, <1>10, <1>11, <1>12, <1>13
     DEF Next, ManagerStep, BotStep, EnvironmentStep

(* Every variable keeps its type.                                          *)
THEOREM TypeCorrect == Spec => []TypeOK
<1> QED BY TypeInit, TypeStep, PTL DEF Spec

----------------------------------------------------------------------------
(* The inductive invariant.  Netted makes the netting done by withdraw,    *)
(* activateAndVote and revokeVotes the identity, so that they change the   *)
(* scheduled amounts only by what they pay, vote or revoke; GroupSolvent   *)
(* makes getCeloForGroup the plain difference Free; WithdrawalBooksAgree   *)
(* and Conserved are the sums.                                             *)
Safe == Netted /\ GroupSolvent /\ WithdrawalBooksAgree /\ Conserved
IInv == TypeOK /\ Safe

(* The votes of a group that are not promised to anyone yet.               *)
Free(g) == votesForGroup(g) + toVote[g] - toRevoke[g] - toWithdraw[g]

(* The amounts of a group are natural numbers.                             *)
LEMMA GroupTypes ==
  ASSUME TypeOK, NEW g \in Groups
  PROVE  /\ toVote[g] \in Nat /\ toRevoke[g] \in Nat /\ toWithdraw[g] \in Nat
         /\ pendingVotes[g] \in Nat /\ activeVotes[g] \in Nat
         /\ votesForGroup(g) \in Nat
<1>1. pendingVotes[g] \in Nat /\ activeVotes[g] \in Nat
  BY DEF TypeOK
<1>2. toVote[g] \in Nat /\ toRevoke[g] \in Nat /\ toWithdraw[g] \in Nat
  BY DEF TypeOK
<1> QED BY <1>1, <1>2 DEF votesForGroup

(* In a solvent state, getCeloForGroup truncates nothing.                  *)
LEMMA FreeFact ==
  ASSUME TypeOK, GroupSolvent, NEW g \in Groups
  PROVE  Free(g) \in Nat /\ getCeloForGroup(g) = Free(g)
<1>1. /\ votesForGroup(g) \in Nat /\ toVote[g] \in Nat /\ toRevoke[g] \in Nat
      /\ toWithdraw[g] \in Nat
  BY DEF TypeOK, votesForGroup
<1>2. toRevoke[g] + toWithdraw[g] <= votesForGroup(g) + toVote[g]
  BY DEF GroupSolvent
<1> QED BY <1>1, <1>2 DEF Free, getCeloForGroup, Monus

(* After a step that leaves Free a natural number, the groups are solvent. *)
LEMMA SolventIfFree ==
  ASSUME TypeOK', \A g \in Groups : Free(g)' \in Nat
  PROVE  GroupSolvent'
<1> SUFFICES ASSUME NEW g \in Groups
             PROVE  toRevoke'[g] + toWithdraw'[g] <= votesForGroup(g)' + toVote'[g]
  BY DEF GroupSolvent
<1>1. /\ votesForGroup(g)' \in Nat /\ toVote'[g] \in Nat /\ toRevoke'[g] \in Nat
      /\ toWithdraw'[g] \in Nat /\ Free(g)' \in Nat
  BY DEF TypeOK, votesForGroup
<1> QED BY <1>1 DEF Free

(* With nothing to add, netting a netted group changes nothing.            *)
LEMMA NetIdle ==
  ASSUME TypeOK, Netted, NEW g \in Groups
  PROVE  NetToVote(g, 0, 0) = toVote[g] /\ NetToRevoke(g, 0, 0) = toRevoke[g]
<1>1. toVote[g] \in Nat /\ toRevoke[g] \in Nat /\ (toVote[g] = 0 \/ toRevoke[g] = 0)
  BY DEF TypeOK, Netted
<1> QED BY <1>1 DEF NetToVote, NetToRevoke, Monus

(* What scheduling add and sub does to the sums and to each group.         *)
LEMMA ScheduleFact ==
  ASSUME TypeOK, NEW add \in [Groups -> Nat], NEW sub \in [Groups -> Nat],
         toVote' = [g \in Groups |-> NetToVote(g, add[g], sub[g])],
         toRevoke' = [g \in Groups |-> NetToRevoke(g, add[g], sub[g])]
  PROVE  /\ Netted'
         /\ \A g \in Groups : toVote'[g] - toRevoke'[g]
                                = toVote[g] + add[g] - (toRevoke[g] + sub[g])
         /\ Total(toVote') - Total(toRevoke')
              = Total(toVote) + Total(add) - Total(toRevoke) - Total(sub)
<1>1. ASSUME NEW g \in Groups
      PROVE  /\ toVote'[g] \in Nat /\ toRevoke'[g] \in Nat
             /\ toVote'[g] = 0 \/ toRevoke'[g] = 0
             /\ toVote'[g] - toRevoke'[g] = toVote[g] + add[g] - (toRevoke[g] + sub[g])
  <2>1. add[g] \in Nat /\ sub[g] \in Nat OBVIOUS
  <2>2. toVote'[g] = NetToVote(g, add[g], sub[g]) /\ toRevoke'[g] = NetToRevoke(g, add[g], sub[g])
    OBVIOUS
  <2> QED BY <2>1, <2>2, NetFact
<1>2. toVote' \in [Groups -> Nat] /\ toRevoke' \in [Groups -> Nat]
  BY <1>1
<1>3. toVote \in [Groups -> Nat] /\ toRevoke \in [Groups -> Nat]
  BY DEF TypeOK
<1> DEFINE after == Plus(Plus(toVote', toRevoke), sub)
           before == Plus(Plus(toVote, add), toRevoke')
<1>4. after = before
  <2>1. after = [g \in Groups |-> toVote'[g] + toRevoke[g] + sub[g]]
    BY <1>2, <1>3 DEF Plus
  <2>2. before = [g \in Groups |-> toVote[g] + add[g] + toRevoke'[g]]
    BY <1>2, <1>3 DEF Plus
  <2>3. \A g \in Groups : toVote'[g] + toRevoke[g] + sub[g] = toVote[g] + add[g] + toRevoke'[g]
    <3> TAKE g \in Groups
    <3>1. /\ toVote'[g] \in Nat /\ toRevoke[g] \in Nat /\ sub[g] \in Nat
          /\ toVote[g] \in Nat /\ add[g] \in Nat /\ toRevoke'[g] \in Nat
      BY <1>2, <1>3
    <3> QED BY <1>1, <3>1
  <2> QED BY <2>1, <2>2, <2>3
<1>5. /\ Plus(toVote', toRevoke) \in [Groups -> Nat]
      /\ Plus(toVote, add) \in [Groups -> Nat]
  BY <1>2, <1>3 DEF Plus
<1>6. Total(after) = Total(toVote') + Total(toRevoke) + Total(sub)
  <2>1. Total(after) = Total(Plus(toVote', toRevoke)) + Total(sub)
    BY <1>5, TotalPlus
  <2>2. Total(Plus(toVote', toRevoke)) = Total(toVote') + Total(toRevoke)
    BY <1>2, <1>3, TotalPlus
  <2> QED BY <2>1, <2>2
<1>7. Total(before) = Total(toVote) + Total(add) + Total(toRevoke')
  <2>1. Total(before) = Total(Plus(toVote, add)) + Total(toRevoke')
    BY <1>2, <1>5, TotalPlus
  <2>2. Total(Plus(toVote, add)) = Total(toVote) + Total(add)
    BY <1>3, TotalPlus
  <2> QED BY <2>1, <2>2
<1>8. /\ Total(toVote') \in Nat /\ Total(toRevoke') \in Nat /\ Total(toVote) \in Nat
      /\ Total(toRevoke) \in Nat /\ Total(add) \in Nat /\ Total(sub) \in Nat
  BY <1>2, <1>3, UnitsFinite
<1>9. Total(toVote') - Total(toRevoke')
        = Total(toVote) + Total(add) - Total(toRevoke) - Total(sub)
  <2>1. Total(toVote') + Total(toRevoke) + Total(sub) = Total(toVote) + Total(add) + Total(toRevoke')
    BY <1>4, <1>6, <1>7
  <2> QED BY <1>8, <2>1
<1>10. Netted'
  BY <1>1 DEF Netted
<1> QED BY <1>1, <1>9, <1>10

----------------------------------------------------------------------------
(* The three operations of Manager.                                        *)
LEMMA ScheduleVotesStep ==
  ASSUME IInv, TypeOK', NEW votes \in Allocations, ScheduleVotes(votes)
  PROVE  Safe'
<1> DEFINE none == [g \in Groups |-> 0]
<1>1. votes \in [Groups -> Nat] /\ none \in [Groups -> Nat]
  BY DEF Allocations
<1>2. /\ toVote' = [g \in Groups |-> NetToVote(g, votes[g], none[g])]
      /\ toRevoke' = [g \in Groups |-> NetToRevoke(g, votes[g], none[g])]
      /\ balance' = balance + Total(votes)
      /\ UNCHANGED <<toWithdraw, toWithdrawFor, totalScheduledWithdrawals,
                     nonvoting, pendingVotes, activeVotes, donated>>
  BY DEF ScheduleVotes, election
<1>3. TypeOK /\ Netted /\ GroupSolvent /\ WithdrawalBooksAgree /\ Conserved
  BY DEF IInv, Safe
<1>4. Total(none) = 0 BY TotalZero
<1>5. \A g \in Groups : none[g] = 0 OBVIOUS
<1> HIDE DEF none
<1>6. /\ Netted'
      /\ \A g \in Groups : toVote'[g] - toRevoke'[g]
                             = toVote[g] + votes[g] - (toRevoke[g] + none[g])
      /\ Total(toVote') - Total(toRevoke')
           = Total(toVote) + Total(votes) - Total(toRevoke) - Total(none)
  BY <1>1, <1>2, <1>3, ScheduleFact
<1>7. GroupSolvent'
  <2>1. ASSUME NEW g \in Groups PROVE Free(g)' \in Nat
    <3>1. Free(g) \in Nat BY <1>3, FreeFact
    <3>2. votesForGroup(g)' = votesForGroup(g) /\ toWithdraw'[g] = toWithdraw[g]
      BY <1>2 DEF votesForGroup
    <3>3. toVote'[g] - toRevoke'[g] = toVote[g] + votes[g] - toRevoke[g]
      <4>1. toVote[g] \in Nat /\ toRevoke[g] \in Nat /\ votes[g] \in Nat
        BY <1>1, <1>3 DEF TypeOK
      <4> QED BY <1>5, <1>6, <4>1
    <3>4. /\ toVote[g] \in Nat /\ toRevoke[g] \in Nat /\ votes[g] \in Nat
          /\ toVote'[g] \in Nat /\ toRevoke'[g] \in Nat
          /\ votesForGroup(g) \in Nat /\ toWithdraw[g] \in Nat
      BY <1>1, <1>3 DEF TypeOK, votesForGroup
    <3> QED BY <3>1, <3>2, <3>3, <3>4 DEF Free
  <2>2. \A g \in Groups : Free(g)' \in Nat BY <2>1
  <2> QED BY <2>2, SolventIfFree
<1>8. WithdrawalBooksAgree'
  BY <1>2, <1>3 DEF WithdrawalBooksAgree
<1>9. Conserved'
  <2>1. /\ Total(toVote') \in Nat /\ Total(toRevoke') \in Nat /\ Total(toVote) \in Nat
        /\ Total(toRevoke) \in Nat /\ Total(votes) \in Nat
        /\ balance \in Nat /\ nonvoting \in Nat /\ donated \in Nat
    BY <1>1, <1>3, UnitsFinite DEF TypeOK
  <2> QED BY <1>2, <1>3, <1>4, <1>6, <2>1 DEF Conserved
<1> QED BY <1>6, <1>7, <1>8, <1>9 DEF Safe

(* scheduleTransfer moves what a group has free, and its two sides are     *)
(* equal in sum.                                                           *)
LEMMA ScheduleTransferStep ==
  ASSUME IInv, TypeOK', NEW from \in Allocations, NEW to \in Allocations,
         ScheduleTransfer(from, to)
  PROVE  Safe'
<1>1. from \in [Groups -> Nat] /\ to \in [Groups -> Nat]
  BY DEF Allocations
<1>2. /\ toVote' = [g \in Groups |-> NetToVote(g, to[g], from[g])]
      /\ toRevoke' = [g \in Groups |-> NetToRevoke(g, to[g], from[g])]
      /\ \A g \in Groups : from[g] <= getCeloForGroup(g)
      /\ Total(from) = Total(to)
      /\ UNCHANGED <<toWithdraw, toWithdrawFor, totalScheduledWithdrawals, balance,
                     nonvoting, pendingVotes, activeVotes, donated>>
  BY DEF ScheduleTransfer, election
<1>3. TypeOK /\ Netted /\ GroupSolvent /\ WithdrawalBooksAgree /\ Conserved
  BY DEF IInv, Safe
<1>4. /\ Netted'
      /\ \A g \in Groups : toVote'[g] - toRevoke'[g]
                             = toVote[g] + to[g] - (toRevoke[g] + from[g])
      /\ Total(toVote') - Total(toRevoke')
           = Total(toVote) + Total(to) - Total(toRevoke) - Total(from)
  BY <1>1, <1>2, <1>3, ScheduleFact
<1>5. GroupSolvent'
  <2>1. ASSUME NEW g \in Groups PROVE Free(g)' \in Nat
    <3>1. Free(g) \in Nat /\ from[g] <= Free(g)
      BY <1>2, <1>3, FreeFact
    <3>2. votesForGroup(g)' = votesForGroup(g) /\ toWithdraw'[g] = toWithdraw[g]
      BY <1>2 DEF votesForGroup
    <3>3. /\ toVote[g] \in Nat /\ toRevoke[g] \in Nat /\ to[g] \in Nat /\ from[g] \in Nat
          /\ toVote'[g] \in Nat /\ toRevoke'[g] \in Nat
          /\ votesForGroup(g) \in Nat /\ toWithdraw[g] \in Nat
      BY <1>1, <1>3 DEF TypeOK, votesForGroup
    <3> QED BY <1>4, <3>1, <3>2, <3>3 DEF Free
  <2>2. \A g \in Groups : Free(g)' \in Nat BY <2>1
  <2> QED BY <2>2, SolventIfFree
<1>6. WithdrawalBooksAgree'
  BY <1>2, <1>3 DEF WithdrawalBooksAgree
<1>7. Conserved'
  <2>1. /\ Total(toVote') \in Nat /\ Total(toRevoke') \in Nat /\ Total(toVote) \in Nat
        /\ Total(toRevoke) \in Nat /\ Total(from) \in Nat /\ Total(to) \in Nat
        /\ balance \in Nat /\ nonvoting \in Nat /\ donated \in Nat
    BY <1>1, <1>3, UnitsFinite DEF TypeOK
  <2> QED BY <1>2, <1>3, <1>4, <2>1 DEF Conserved
<1> QED BY <1>4, <1>5, <1>6, <1>7 DEF Safe

(* scheduleWithdrawals adds the same amounts to all three withdrawal       *)
(* books, and no more than a group has free.                               *)
LEMMA ScheduleWithdrawalsStep ==
  ASSUME IInv, TypeOK', NEW b \in Beneficiaries, NEW withdrawals \in Allocations,
         ScheduleWithdrawals(b, withdrawals)
  PROVE  Safe'
<1>1. withdrawals \in [Groups -> Nat]
  BY DEF Allocations
<1>2. /\ \A g \in Groups : withdrawals[g] <= getCeloForGroup(g)
      /\ toWithdraw' = Plus(toWithdraw, withdrawals)
      /\ toWithdrawFor' = [g \in Groups |->
                            [toWithdrawFor[g] EXCEPT ![b] = @ + withdrawals[g]]]
      /\ totalScheduledWithdrawals' = totalScheduledWithdrawals + Total(withdrawals)
      /\ UNCHANGED <<toVote, toRevoke, balance, nonvoting, pendingVotes, activeVotes,
                     donated>>
  BY DEF ScheduleWithdrawals, election
<1>3. TypeOK /\ Netted /\ GroupSolvent /\ WithdrawalBooksAgree /\ Conserved
  BY DEF IInv, Safe
<1>4. \A g \in Groups : toWithdraw'[g] = toWithdraw[g] + withdrawals[g]
  BY <1>2, <1>3 DEF Plus, TypeOK
<1>5. GroupSolvent'
  <2>1. ASSUME NEW g \in Groups PROVE Free(g)' \in Nat
    <3>1. Free(g) \in Nat /\ withdrawals[g] <= Free(g)
      BY <1>2, <1>3, FreeFact
    <3>2. votesForGroup(g)' = votesForGroup(g) /\ toVote'[g] = toVote[g] /\ toRevoke'[g] = toRevoke[g]
      BY <1>2 DEF votesForGroup
    <3>3. /\ toVote[g] \in Nat /\ toRevoke[g] \in Nat /\ withdrawals[g] \in Nat
          /\ votesForGroup(g) \in Nat /\ toWithdraw[g] \in Nat
      <4>1. withdrawals[g] \in Nat BY <1>1
      <4> QED BY <1>3, <4>1, GroupTypes
    <3> QED BY <1>4, <3>1, <3>2, <3>3 DEF Free
  <2>2. \A g \in Groups : Free(g)' \in Nat BY <2>1
  <2> QED BY <2>2, SolventIfFree
<1>6. WithdrawalBooksAgree'
  <2>1. ASSUME NEW g \in Groups PROVE toWithdraw'[g] = Total(toWithdrawFor'[g])
    <3> DEFINE f == toWithdrawFor[g]
               w == withdrawals[g]
    <3>1. f \in [Beneficiaries -> Nat] /\ w \in Nat /\ f[b] + w \in Nat
      <4>1. w \in Nat BY <1>1
      <4>2. f \in [Beneficiaries -> Nat] BY <1>3 DEF TypeOK
      <4> QED BY <4>1, <4>2
    <3>2. toWithdrawFor'[g] = [f EXCEPT ![b] = f[b] + w]
      BY <1>2
    <3>3. toWithdraw[g] = Total(f)
      BY <1>3 DEF WithdrawalBooksAgree
    <3>4. toWithdraw'[g] = toWithdraw[g] + w
      BY <1>4
    <3> HIDE DEF f, w
    <3>5. Total([f EXCEPT ![b] = f[b] + w]) = Total(f) - f[b] + (f[b] + w)
      BY <3>1, TotalExcept
    <3>6. Total(f) \in Nat /\ f[b] \in Nat
      BY <3>1, UnitsFinite
    <3> QED BY <3>1, <3>2, <3>3, <3>4, <3>5, <3>6
  <2>2. totalScheduledWithdrawals' = Total(toWithdraw')
    <3>1. toWithdraw \in [Groups -> Nat] BY <1>3 DEF TypeOK
    <3>2. Total(toWithdraw') = Total(toWithdraw) + Total(withdrawals)
      BY <1>1, <1>2, <3>1, TotalPlus
    <3> QED BY <1>2, <1>3, <3>2 DEF WithdrawalBooksAgree
  <2> QED BY <2>1, <2>2 DEF WithdrawalBooksAgree
<1>7. Netted' /\ Conserved'
  BY <1>2, <1>3 DEF Netted, Conserved
<1> QED BY <1>5, <1>6, <1>7 DEF Safe

----------------------------------------------------------------------------
(* The four operations open to anyone.  Each leaves Free as it is.         *)
LEMMA WithdrawStep ==
  ASSUME IInv, TypeOK', NEW b \in Beneficiaries, NEW g \in Groups, Withdraw(b, g)
  PROVE  Safe' /\ \A h \in Groups : Free(h)' = Free(h)
<1> DEFINE amount == toWithdrawFor[g][b]
           immediate == ImmediateWithdrawal(b, g)
           rest == RevokeAmount(b, g)
<1>1. TypeOK /\ Netted /\ GroupSolvent /\ WithdrawalBooksAgree /\ Conserved
  BY DEF IInv, Safe
<1>2. NetToVote(g, 0, 0) = toVote[g] /\ NetToRevoke(g, 0, 0) = toRevoke[g]
  BY <1>1, NetIdle
<1>3. /\ amount \in Nat /\ immediate \in Nat /\ rest \in Nat /\ amount = immediate + rest
      /\ immediate <= balance /\ immediate <= toVote[g]
  <2>1. amount \in Nat /\ balance \in Nat /\ toVote[g] \in Nat
    BY <1>1 DEF TypeOK
  <2>2. /\ MinOf(balance, toVote[g]) \in Nat /\ MinOf(balance, toVote[g]) <= balance
        /\ MinOf(balance, toVote[g]) <= toVote[g]
    BY <2>1, MinOfFact
  <2>3. immediate = MinOf(MinOf(balance, toVote[g]), amount)
    BY <1>2 DEF ImmediateWithdrawal
  <2>4. immediate \in Nat /\ immediate <= MinOf(balance, toVote[g]) /\ immediate <= amount
    BY <2>1, <2>2, <2>3, MinOfFact
  <2>5. rest = amount - immediate
    BY DEF RevokeAmount
  <2> HIDE DEF amount, immediate, rest
  <2> QED BY <2>1, <2>2, <2>4, <2>5
<1>4. /\ RevokeFromElection(g, rest)
      /\ amount <= toWithdraw[g] /\ amount <= totalScheduledWithdrawals
      /\ toWithdrawFor' = [toWithdrawFor EXCEPT ![g][b] = 0]
      /\ toWithdraw' = [toWithdraw EXCEPT ![g] = @ - amount]
      /\ totalScheduledWithdrawals' = totalScheduledWithdrawals - amount
      /\ toVote' = [toVote EXCEPT ![g] = toVote[g] - immediate]
      /\ toRevoke' = [toRevoke EXCEPT ![g] = toRevoke[g]]
      /\ balance' = balance - immediate
      /\ UNCHANGED <<nonvoting, donated>>
  BY <1>2 DEF Withdraw
<1> HIDE DEF amount, immediate, rest
<1>5. toRevoke' = toRevoke
  BY <1>1, <1>4 DEF TypeOK
<1>6. /\ toVote'[g] = toVote[g] - immediate /\ toWithdraw'[g] = toWithdraw[g] - amount
      /\ \A h \in Groups \ {g} : toVote'[h] = toVote[h] /\ toWithdraw'[h] = toWithdraw[h]
  BY <1>1, <1>4 DEF TypeOK
<1>7. /\ votesForGroup(g)' = votesForGroup(g) - rest
      /\ \A h \in Groups \ {g} : votesForGroup(h)' = votesForGroup(h)
  BY <1>1, <1>3, <1>4, RevokeFact
<1>8. ASSUME NEW h \in Groups PROVE Free(h)' = Free(h)
  <2>1. CASE h = g
    <3>1. /\ toVote[g] \in Nat /\ toRevoke[g] \in Nat /\ toWithdraw[g] \in Nat
          /\ votesForGroup(g) \in Nat
      BY <1>1, GroupTypes
    <3> QED BY <1>3, <1>5, <1>6, <1>7, <2>1, <3>1 DEF Free
  <2>2. CASE h # g
    BY <1>5, <1>6, <1>7, <2>2 DEF Free
  <2> QED BY <2>1, <2>2
<1>9. GroupSolvent'
  <2>1. ASSUME NEW h \in Groups PROVE Free(h)' \in Nat
    BY <1>1, <1>8, FreeFact
  <2>2. \A h \in Groups : Free(h)' \in Nat BY <2>1
  <2> QED BY <2>2, SolventIfFree
<1>10. Netted'
  <2> SUFFICES ASSUME NEW h \in Groups PROVE toVote'[h] = 0 \/ toRevoke'[h] = 0
    BY DEF Netted
  <2>1. toVote[h] = 0 \/ toRevoke[h] = 0 BY <1>1 DEF Netted
  <2>2. toVote[h] \in Nat BY <1>1, GroupTypes
  <2> QED BY <1>3, <1>5, <1>6, <2>1, <2>2
<1>11. WithdrawalBooksAgree'
  <2>1. ASSUME NEW h \in Groups PROVE toWithdraw'[h] = Total(toWithdrawFor'[h])
    <3>1. CASE h # g
      <4>1. toWithdrawFor'[h] = toWithdrawFor[h] /\ toWithdraw'[h] = toWithdraw[h]
        BY <1>1, <1>4, <1>6, <3>1 DEF TypeOK
      <4> QED BY <1>1, <4>1 DEF WithdrawalBooksAgree
    <3>2. CASE h = g
      <4> DEFINE f == toWithdrawFor[g]
      <4>1. f \in [Beneficiaries -> Nat] /\ 0 \in Nat
        BY <1>1 DEF TypeOK
      <4>2. toWithdrawFor'[g] = [f EXCEPT ![b] = 0]
        BY <1>1, <1>4 DEF TypeOK
      <4>3. toWithdraw[g] = Total(f)
        BY <1>1 DEF WithdrawalBooksAgree
      <4>4. f[b] = amount
        BY DEF amount
      <4> HIDE DEF f
      <4>5. Total([f EXCEPT ![b] = 0]) = Total(f) - f[b] + 0
        BY <4>1, TotalExcept
      <4>6. Total(f) \in Nat
        BY <4>1, UnitsFinite
      <4> QED BY <1>3, <1>6, <3>2, <4>2, <4>3, <4>4, <4>5, <4>6
    <3> QED BY <3>1, <3>2
  <2>2. totalScheduledWithdrawals' = Total(toWithdraw')
    <3>1. toWithdraw \in [Groups -> Nat] /\ toWithdraw[g] \in Nat
      BY <1>1 DEF TypeOK
    <3>2. toWithdraw[g] - amount \in Nat
      BY <1>3, <1>4, <3>1
    <3>3. Total([toWithdraw EXCEPT ![g] = toWithdraw[g] - amount])
            = Total(toWithdraw) - toWithdraw[g] + (toWithdraw[g] - amount)
      BY <3>1, <3>2, TotalExcept
    <3>4. Total(toWithdraw) \in Nat
      BY <3>1, UnitsFinite
    <3>5. totalScheduledWithdrawals = Total(toWithdraw)
      BY <1>1 DEF WithdrawalBooksAgree
    <3> QED BY <1>3, <1>4, <3>1, <3>3, <3>4, <3>5
  <2> QED BY <2>1, <2>2 DEF WithdrawalBooksAgree
<1>12. Conserved'
  <2>1. toVote \in [Groups -> Nat] /\ toVote[g] \in Nat /\ toRevoke \in [Groups -> Nat]
        /\ balance \in Nat /\ nonvoting \in Nat /\ donated \in Nat
    BY <1>1 DEF TypeOK
  <2>2. toVote[g] - immediate \in Nat
    BY <1>3, <2>1
  <2>3. Total(toVote') = Total(toVote) - toVote[g] + (toVote[g] - immediate)
    BY <1>4, <2>1, <2>2, TotalExcept
  <2>4. Total(toVote) \in Nat /\ Total(toRevoke) \in Nat
    BY <2>1, UnitsFinite
  <2>5. balance + nonvoting + Total(toRevoke) = Total(toVote) + donated
    BY <1>1 DEF Conserved
  <2>6. Total(toRevoke') = Total(toRevoke) /\ balance' = balance - immediate
        /\ nonvoting' = nonvoting /\ donated' = donated
    BY <1>4, <1>5
  <2>7. balance' + nonvoting' + Total(toRevoke') = Total(toVote') + donated'
    BY <1>3, <2>1, <2>3, <2>4, <2>5, <2>6
  <2> QED BY <2>7 DEF Conserved
<1> QED BY <1>8, <1>9, <1>10, <1>11, <1>12 DEF Safe

(* activateAndVote turns scheduled CELO, from the balance or from the      *)
(* non-voting gold, into as many votes.                                    *)
LEMMA ActivateAndVoteStep ==
  ASSUME IInv, TypeOK', NEW g \in Groups, ActivateAndVote(g)
  PROVE  Safe' /\ \A h \in Groups : Free(h)' = Free(h)
<1> DEFINE final == FinalVoteAmount(g)
           locked == AvailableToLock(g)
           activated == IF HasActivatablePendingVotes(g) THEN pendingVotes[g] ELSE 0
<1>1. TypeOK /\ Netted /\ GroupSolvent /\ WithdrawalBooksAgree /\ Conserved
  BY DEF IInv, Safe
<1>2. NetToVote(g, 0, 0) = toVote[g] /\ NetToRevoke(g, 0, 0) = toRevoke[g]
  BY <1>1, NetIdle
<1>3. /\ final \in Nat /\ locked \in Nat /\ activated \in Nat /\ final <= toVote[g]
  <2>1. balance \in Nat /\ nonvoting \in Nat /\ toVote[g] \in Nat /\ pendingVotes[g] \in Nat
    BY <1>1 DEF TypeOK
  <2>2. ToLock(g) \in Nat /\ ToLock(g) <= toVote[g]
    BY <1>2, <2>1 DEF ToLock, Monus
  <2>3. locked \in Nat /\ locked <= ToLock(g)
    BY <2>1, <2>2, MinOfFact DEF AvailableToLock
  <2>4. final = toVote[g] - (ToLock(g) - locked)
    BY <1>2 DEF FinalVoteAmount
  <2>5. activated \in Nat
    BY <2>1
  <2> HIDE DEF final, locked, activated
  <2> QED BY <2>1, <2>2, <2>3, <2>4, <2>5
<1>4. /\ toVote' = [toVote EXCEPT ![g] = toVote[g] - final]
      /\ toRevoke' = [toRevoke EXCEPT ![g] = toRevoke[g]]
      /\ balance' = balance - locked
      /\ nonvoting' = nonvoting + locked - final
      /\ pendingVotes' = [pendingVotes EXCEPT ![g] = @ - activated + final]
      /\ activeVotes' = [activeVotes EXCEPT ![g] = @ + activated]
      /\ UNCHANGED <<toWithdraw, toWithdrawFor, totalScheduledWithdrawals, donated>>
  BY <1>2 DEF ActivateAndVote
<1> HIDE DEF final, locked, activated
<1>5. toRevoke' = toRevoke
  BY <1>1, <1>4 DEF TypeOK
<1>6. /\ toVote'[g] = toVote[g] - final
      /\ \A h \in Groups \ {g} : toVote'[h] = toVote[h]
  BY <1>1, <1>4 DEF TypeOK
<1>7. /\ votesForGroup(g)' = votesForGroup(g) + final
      /\ \A h \in Groups \ {g} : votesForGroup(h)' = votesForGroup(h)
  <2>1. /\ pendingVotes'[g] = pendingVotes[g] - activated + final
        /\ activeVotes'[g] = activeVotes[g] + activated
    BY <1>1, <1>4 DEF TypeOK
  <2>2. \A h \in Groups \ {g} : pendingVotes'[h] = pendingVotes[h] /\ activeVotes'[h] = activeVotes[h]
    BY <1>1, <1>4 DEF TypeOK
  <2>3. pendingVotes[g] \in Nat /\ activeVotes[g] \in Nat
    BY <1>1, GroupTypes
  <2> QED BY <1>3, <2>1, <2>2, <2>3 DEF votesForGroup
<1>8. ASSUME NEW h \in Groups PROVE Free(h)' = Free(h)
  <2>1. CASE h = g
    <3>1. /\ toVote[g] \in Nat /\ toRevoke[g] \in Nat /\ toWithdraw[g] \in Nat
          /\ votesForGroup(g) \in Nat
      BY <1>1, GroupTypes
    <3> QED BY <1>3, <1>4, <1>5, <1>6, <1>7, <2>1, <3>1 DEF Free
  <2>2. CASE h # g
    BY <1>4, <1>5, <1>6, <1>7, <2>2 DEF Free
  <2> QED BY <2>1, <2>2
<1>9. GroupSolvent'
  <2>1. ASSUME NEW h \in Groups PROVE Free(h)' \in Nat
    BY <1>1, <1>8, FreeFact
  <2>2. \A h \in Groups : Free(h)' \in Nat BY <2>1
  <2> QED BY <2>2, SolventIfFree
<1>10. Netted'
  <2> SUFFICES ASSUME NEW h \in Groups PROVE toVote'[h] = 0 \/ toRevoke'[h] = 0
    BY DEF Netted
  <2>1. toVote[h] = 0 \/ toRevoke[h] = 0 BY <1>1 DEF Netted
  <2>2. toVote[h] \in Nat BY <1>1, GroupTypes
  <2> QED BY <1>3, <1>5, <1>6, <2>1, <2>2
<1>11. WithdrawalBooksAgree'
  BY <1>1, <1>4 DEF WithdrawalBooksAgree
<1>12. Conserved'
  <2>1. toVote \in [Groups -> Nat] /\ toVote[g] \in Nat /\ toRevoke \in [Groups -> Nat]
        /\ balance \in Nat /\ nonvoting \in Nat /\ donated \in Nat
    BY <1>1 DEF TypeOK
  <2>2. toVote[g] - final \in Nat
    BY <1>3, <2>1
  <2>3. Total(toVote') = Total(toVote) - toVote[g] + (toVote[g] - final)
    BY <1>4, <2>1, <2>2, TotalExcept
  <2>4. Total(toVote) \in Nat /\ Total(toRevoke) \in Nat
    BY <2>1, UnitsFinite
  <2>5. balance + nonvoting + Total(toRevoke) = Total(toVote) + donated
    BY <1>1 DEF Conserved
  <2>6. Total(toRevoke') = Total(toRevoke) /\ balance' = balance - locked
        /\ nonvoting' = nonvoting + locked - final /\ donated' = donated
    BY <1>4, <1>5
  <2>7. balance' + nonvoting' + Total(toRevoke') = Total(toVote') + donated'
    BY <1>3, <2>1, <2>3, <2>4, <2>5, <2>6
  <2> QED BY <2>7 DEF Conserved
<1> QED BY <1>8, <1>9, <1>10, <1>11, <1>12 DEF Safe

(* revokeVotes turns votes into as much non-voting gold.                   *)
LEMMA RevokeVotesStep ==
  ASSUME IInv, TypeOK', NEW g \in Groups, RevokeVotes(g)
  PROVE  Safe' /\ \A h \in Groups : Free(h)' = Free(h)
<1> DEFINE n == Revokable(g)
<1>1. TypeOK /\ Netted /\ GroupSolvent /\ WithdrawalBooksAgree /\ Conserved
  BY DEF IInv, Safe
<1>2. NetToVote(g, 0, 0) = toVote[g] /\ NetToRevoke(g, 0, 0) = toRevoke[g]
  BY <1>1, NetIdle
<1>3. n \in Nat /\ n <= toRevoke[g]
  <2>1. toRevoke[g] \in Nat /\ votesForGroup(g) \in Nat
    BY <1>1, GroupTypes
  <2> QED BY <1>2, <2>1, MinOfFact DEF Revokable
<1>4. /\ RevokeFromElection(g, n)
      /\ toVote' = [toVote EXCEPT ![g] = toVote[g]]
      /\ toRevoke' = [toRevoke EXCEPT ![g] = toRevoke[g] - n]
      /\ nonvoting' = nonvoting + n
      /\ toRevoke[g] > 0
      /\ UNCHANGED <<toWithdraw, toWithdrawFor, totalScheduledWithdrawals, balance, donated>>
  BY <1>2 DEF RevokeVotes
<1> HIDE DEF n
<1>5. toVote' = toVote
  BY <1>1, <1>4 DEF TypeOK
<1>6. /\ toRevoke'[g] = toRevoke[g] - n
      /\ \A h \in Groups \ {g} : toRevoke'[h] = toRevoke[h]
  BY <1>1, <1>4 DEF TypeOK
<1>7. /\ votesForGroup(g)' = votesForGroup(g) - n
      /\ \A h \in Groups \ {g} : votesForGroup(h)' = votesForGroup(h)
  BY <1>1, <1>3, <1>4, RevokeFact
<1>8. ASSUME NEW h \in Groups PROVE Free(h)' = Free(h)
  <2>1. CASE h = g
    <3>1. /\ toVote[g] \in Nat /\ toRevoke[g] \in Nat /\ toWithdraw[g] \in Nat
          /\ votesForGroup(g) \in Nat
      BY <1>1, GroupTypes
    <3> QED BY <1>3, <1>4, <1>5, <1>6, <1>7, <2>1, <3>1 DEF Free
  <2>2. CASE h # g
    BY <1>4, <1>5, <1>6, <1>7, <2>2 DEF Free
  <2> QED BY <2>1, <2>2
<1>9. GroupSolvent'
  <2>1. ASSUME NEW h \in Groups PROVE Free(h)' \in Nat
    BY <1>1, <1>8, FreeFact
  <2>2. \A h \in Groups : Free(h)' \in Nat BY <2>1
  <2> QED BY <2>2, SolventIfFree
<1>10. Netted'
  <2> SUFFICES ASSUME NEW h \in Groups PROVE toVote'[h] = 0 \/ toRevoke'[h] = 0
    BY DEF Netted
  <2>1. toVote[h] = 0 \/ toRevoke[h] = 0 BY <1>1 DEF Netted
  <2>2. toRevoke[h] \in Nat BY <1>1, GroupTypes
  <2> QED BY <1>3, <1>4, <1>5, <1>6, <2>1, <2>2
<1>11. WithdrawalBooksAgree'
  BY <1>1, <1>4 DEF WithdrawalBooksAgree
<1>12. Conserved'
  <2>1. toRevoke \in [Groups -> Nat] /\ toRevoke[g] \in Nat /\ toVote \in [Groups -> Nat]
        /\ balance \in Nat /\ nonvoting \in Nat /\ donated \in Nat
    BY <1>1 DEF TypeOK
  <2>2. toRevoke[g] - n \in Nat
    BY <1>3, <2>1
  <2>3. Total(toRevoke') = Total(toRevoke) - toRevoke[g] + (toRevoke[g] - n)
    BY <1>4, <2>1, <2>2, TotalExcept
  <2>4. Total(toVote) \in Nat /\ Total(toRevoke) \in Nat
    BY <2>1, UnitsFinite
  <2>5. balance + nonvoting + Total(toRevoke) = Total(toVote) + donated
    BY <1>1 DEF Conserved
  <2>6. Total(toVote') = Total(toVote) /\ balance' = balance
        /\ nonvoting' = nonvoting + n /\ donated' = donated
    BY <1>4, <1>5
  <2>7. balance' + nonvoting' + Total(toRevoke') = Total(toVote') + donated'
    BY <1>3, <2>1, <2>3, <2>4, <2>5, <2>6
  <2> QED BY <2>7 DEF Conserved
<1> QED BY <1>8, <1>9, <1>10, <1>11, <1>12 DEF Safe

(* finishPendingWithdrawal passes on what it receives: the balance is      *)
(* unchanged.                                                              *)
LEMMA FinishPendingWithdrawalStep ==
  ASSUME IInv, TypeOK', NEW b \in Beneficiaries,
         NEW i \in DOMAIN pendingWithdrawals[b], NEW k \in DOMAIN lockedPending,
         FinishPendingWithdrawal(b, i, k)
  PROVE  Safe' /\ \A h \in Groups : Free(h)' = Free(h)
<1>1. TypeOK /\ Netted /\ GroupSolvent /\ WithdrawalBooksAgree /\ Conserved
  BY DEF IInv, Safe
<1>2. balance' = balance
  <2>1. pendingWithdrawals[b] \in Seq(PendingWithdrawal) /\ balance \in Nat
    BY <1>1 DEF TypeOK
  <2>2. pendingWithdrawals[b][i] \in PendingWithdrawal
    BY <2>1
  <2>3. pendingWithdrawals[b][i].value \in Nat
    BY <2>2 DEF PendingWithdrawal
  <2>4. lockedPending[k].value = pendingWithdrawals[b][i].value
    BY DEF FinishPendingWithdrawal, ValidRequest
  <2>5. balance' = balance + lockedPending[k].value - pendingWithdrawals[b][i].value
    BY DEF FinishPendingWithdrawal
  <2> QED BY <2>1, <2>3, <2>4, <2>5
<1>3. UNCHANGED <<toVote, toRevoke, toWithdraw, toWithdrawFor, totalScheduledWithdrawals,
                  nonvoting, pendingVotes, activeVotes, donated>>
  BY DEF FinishPendingWithdrawal, scheduled, election
<1>4. \A h \in Groups : Free(h)' = Free(h) /\ votesForGroup(h)' = votesForGroup(h)
  BY <1>3 DEF Free, votesForGroup
<1>5. Netted' /\ GroupSolvent' /\ WithdrawalBooksAgree' /\ Conserved'
  BY <1>1, <1>2, <1>3, <1>4 DEF Netted, GroupSolvent, WithdrawalBooksAgree, Conserved
<1> QED BY <1>4, <1>5 DEF Safe

----------------------------------------------------------------------------
(* The environment and the assembly.                                       *)
LEMMA NextEpochStep ==
  ASSUME IInv, TypeOK', NEW rewards \in Allocations, NextEpoch(rewards)
  PROVE  Safe'
<1>1. TypeOK /\ Netted /\ GroupSolvent /\ WithdrawalBooksAgree /\ Conserved
  BY DEF IInv, Safe
<1>2. /\ activeVotes' = Plus(activeVotes, rewards)
      /\ UNCHANGED <<toVote, toRevoke, toWithdraw, toWithdrawFor, totalScheduledWithdrawals,
                     balance, nonvoting, pendingVotes, donated>>
  BY DEF NextEpoch, scheduled
<1>3. GroupSolvent'
  <2> SUFFICES ASSUME NEW g \in Groups
               PROVE  toRevoke'[g] + toWithdraw'[g] <= votesForGroup(g)' + toVote'[g]
    BY DEF GroupSolvent
  <2>1. rewards[g] \in Nat
    BY DEF Allocations
  <2>2. activeVotes'[g] = activeVotes[g] + rewards[g]
    BY <1>1, <1>2 DEF Plus, TypeOK
  <2>3. /\ toVote[g] \in Nat /\ toRevoke[g] \in Nat /\ toWithdraw[g] \in Nat
        /\ pendingVotes[g] \in Nat /\ activeVotes[g] \in Nat
    BY <1>1, GroupTypes
  <2>4. toRevoke[g] + toWithdraw[g] <= pendingVotes[g] + activeVotes[g] + toVote[g]
    BY <1>1 DEF GroupSolvent, votesForGroup
  <2> QED BY <1>2, <2>1, <2>2, <2>3, <2>4 DEF votesForGroup
<1>4. Netted' /\ WithdrawalBooksAgree' /\ Conserved'
  BY <1>1, <1>2 DEF Netted, WithdrawalBooksAgree, Conserved
<1> QED BY <1>3, <1>4 DEF Safe

(* CELO that comes in through receive() is a donation.                     *)
LEMMA ReceiveStep ==
  ASSUME IInv, NEW value \in 1 .. MaxCelo, Receive(value)
  PROVE  Safe'
<1>1. TypeOK /\ Netted /\ GroupSolvent /\ WithdrawalBooksAgree /\ Conserved
  BY DEF IInv, Safe
<1>2. /\ balance' = balance + value /\ donated' = donated + value
      /\ UNCHANGED <<toVote, toRevoke, toWithdraw, toWithdrawFor, totalScheduledWithdrawals,
                     nonvoting, pendingVotes, activeVotes>>
  BY DEF Receive, scheduled, election
<1>3. Netted' /\ GroupSolvent' /\ WithdrawalBooksAgree'
  BY <1>1, <1>2 DEF Netted, GroupSolvent, WithdrawalBooksAgree, votesForGroup
<1>4. Conserved'
  <2>1. toVote \in [Groups -> Nat] /\ toRevoke \in [Groups -> Nat]
        /\ balance \in Nat /\ nonvoting \in Nat /\ donated \in Nat
    BY <1>1 DEF TypeOK
  <2>2. Total(toVote) \in Nat /\ Total(toRevoke) \in Nat
    BY <2>1, UnitsFinite
  <2>3. balance + nonvoting + Total(toRevoke) = Total(toVote) + donated
    BY <1>1 DEF Conserved
  <2>4. Total(toVote') = Total(toVote) /\ Total(toRevoke') = Total(toRevoke) /\ nonvoting' = nonvoting
    BY <1>2
  <2>5. balance' + nonvoting' + Total(toRevoke') = Total(toVote') + donated'
    BY <1>2, <2>1, <2>2, <2>3, <2>4
  <2> QED BY <2>5 DEF Conserved
<1> QED BY <1>3, <1>4 DEF Safe

(* Steps that touch none of the amounts.                                   *)
LEMMA IdleStep ==
  ASSUME IInv,
         UNCHANGED <<toVote, toRevoke, toWithdraw, toWithdrawFor, totalScheduledWithdrawals,
                     balance, nonvoting, pendingVotes, activeVotes, donated>>
  PROVE  Safe'
BY DEF IInv, Safe, Netted, GroupSolvent, WithdrawalBooksAgree, Conserved, votesForGroup

(* The invariant holds initially: every amount is zero.                    *)
LEMMA InitInvariant == Init => IInv
<1> SUFFICES ASSUME Init PROVE IInv
  OBVIOUS
<1>1. TypeOK BY TypeInit
<1>2. Netted /\ GroupSolvent
  BY DEF Init, Netted, GroupSolvent, votesForGroup
<1>3. WithdrawalBooksAgree
  <2>1. Total(toWithdraw) = 0
    BY TotalZero DEF Init
  <2>2. \A g \in Groups : toWithdraw[g] = 0 /\ toWithdrawFor[g] = [b \in Beneficiaries |-> 0]
    BY DEF Init
  <2>3. Total([b \in Beneficiaries |-> 0]) = 0
    BY TotalZero
  <2>4. totalScheduledWithdrawals = 0
    BY DEF Init
  <2> QED BY <2>1, <2>2, <2>3, <2>4 DEF WithdrawalBooksAgree
<1>4. Conserved
  <2>1. Total(toVote) = 0 /\ Total(toRevoke) = 0
    BY TotalZero DEF Init
  <2> QED BY <2>1 DEF Init, Conserved
<1> QED BY <1>1, <1>2, <1>3, <1>4 DEF IInv, Safe

(* Every step preserves the invariant.                                     *)
LEMMA StepInvariant == IInv /\ [Next]_vars => IInv'
<1> SUFFICES ASSUME IInv, [Next]_vars PROVE IInv'
  OBVIOUS
<1>0. TypeOK'
  BY TypeStep DEF IInv
<1>1. CASE ManagerStep
  BY <1>0, <1>1, ScheduleVotesStep, ScheduleTransferStep, ScheduleWithdrawalsStep
     DEF ManagerStep, IInv
<1>2. CASE BotStep
  BY <1>0, <1>2, WithdrawStep, ActivateAndVoteStep, RevokeVotesStep,
     FinishPendingWithdrawalStep DEF BotStep, IInv
<1>3. CASE EnvironmentStep
  <2>1. ASSUME NEW value \in 1 .. MaxCelo, Receive(value) PROVE Safe'
    BY <2>1, ReceiveStep
  <2>2. ASSUME NEW rewards \in Allocations, NextEpoch(rewards) PROVE Safe'
    BY <1>0, <2>2, NextEpochStep
  <2>3. ASSUME NEW g \in Groups, VotableChange(g) PROVE Safe'
    BY <2>3, IdleStep DEF VotableChange, scheduled
  <2>4. ASSUME Tick \/ Pause \/ Unpause PROVE Safe'
    BY <2>4, IdleStep DEF Tick, Pause, Unpause, scheduled, election
  <2>5. Safe'
    BY <1>3, <2>1, <2>2, <2>3, <2>4 DEF EnvironmentStep
  <2> QED BY <1>0, <2>5 DEF IInv
<1>4. CASE UNCHANGED vars
  BY <1>0, <1>4, IdleStep DEF vars, scheduled, election, IInv
<1> QED BY <1>1, <1>2, <1>3, <1>4 DEF Next

(* The inductive invariant holds in every reachable state.                 *)
THEOREM Invariant == Spec => []IInv
<1> QED BY InitInvariant, StepInvariant, PTL DEF Spec

(* No group ever waits both for votes and for their revocation             *)
(* (getAndUpdateToVoteAndToRevoke).                                        *)
THEOREM AlwaysNetted == Spec => []Netted
<1>1. IInv => Netted
  BY DEF IInv, Safe
<1> QED BY <1>1, Invariant, PTL

(* A group never owes more than it has: the truncation in getCeloForGroup  *)
(* never hides a debt.                                                     *)
THEOREM AlwaysSolvent == Spec => []GroupSolvent
<1>1. IInv => GroupSolvent
  BY DEF IInv, Safe
<1> QED BY <1>1, Invariant, PTL

(* The withdrawal totals agree with the beneficiaries' shares              *)
(* (scheduleWithdrawals, withdraw).                                        *)
THEOREM BooksAlwaysAgree == Spec => []WithdrawalBooksAgree
<1>1. IInv => WithdrawalBooksAgree
  BY DEF IInv, Safe
<1> QED BY <1>1, Invariant, PTL

(* The pool of unspent CELO always covers the scheduled votes net of the   *)
(* scheduled revocations, exactly.                                         *)
THEOREM AlwaysConserved == Spec => []Conserved
<1>1. IInv => Conserved
  BY DEF IInv, Safe
<1> QED BY <1>1, Invariant, PTL

(* Withdraw, activateAndVote, revokeVotes and finishPendingWithdrawal      *)
(* leave getCeloForGroup as it is for every group.                         *)
THEOREM BotsPreserve == Spec => BotsPreserveGroupCelo
<1>1. IInv => \A g \in Groups : getCeloForGroup(g) = Free(g)
  BY FreeFact DEF IInv, Safe
<1>2. ASSUME IInv, IInv', [Next]_vars,
             \A g \in Groups : getCeloForGroup(g) = Free(g),
             \A g \in Groups : getCeloForGroup(g)' = Free(g)'
      PROVE  [BotStep => \A g \in Groups : getCeloForGroup(g)' = getCeloForGroup(g)]_vars
  <2> SUFFICES ASSUME BotStep PROVE \A g \in Groups : Free(g)' = Free(g)
    BY <1>2
  <2>1. TypeOK'
    BY <1>2 DEF IInv
  <2> QED BY <1>2, <2>1, WithdrawStep, ActivateAndVoteStep, RevokeVotesStep,
             FinishPendingWithdrawalStep DEF BotStep
<1>3. (\A g \in Groups : getCeloForGroup(g) = Free(g))'
        => \A g \in Groups : getCeloForGroup(g)' = Free(g)'
  OBVIOUS
<1> QED BY <1>1, <1>2, <1>3, Invariant, PTL DEF Spec, BotsPreserveGroupCelo

(* In a state of the invariant the groups' net CELO and the donations add  *)
(* up to getTotalCelo.                                                     *)
LEMMA AttributedIfInvariant == IInv => CeloAttributed
<1> SUFFICES ASSUME IInv PROVE CeloAttributed
  OBVIOUS
<1> DEFINE celo == [g \in Groups |-> getCeloForGroup(g)]
           debts == Plus(toRevoke, toWithdraw)
           votes == Plus(pendingVotes, activeVotes)
<1>1. TypeOK /\ GroupSolvent /\ WithdrawalBooksAgree /\ Conserved
  BY DEF IInv, Safe
<1>2. /\ toVote \in [Groups -> Nat] /\ toRevoke \in [Groups -> Nat]
      /\ toWithdraw \in [Groups -> Nat] /\ pendingVotes \in [Groups -> Nat]
      /\ activeVotes \in [Groups -> Nat]
  BY <1>1 DEF TypeOK
<1>3. /\ celo \in [Groups -> Nat] /\ debts \in [Groups -> Nat] /\ votes \in [Groups -> Nat]
  <2>1. \A g \in Groups : getCeloForGroup(g) \in Nat
    BY <1>1, FreeFact
  <2> QED BY <1>2, <2>1 DEF Plus
<1>4. Plus(celo, debts) = Plus(votes, toVote)
  <2>1. \A g \in Groups : celo[g] + debts[g] = votes[g] + toVote[g]
    <3> TAKE g \in Groups
    <3>1. celo[g] = votesForGroup(g) + toVote[g] - toRevoke[g] - toWithdraw[g]
      BY <1>1, FreeFact DEF Free
    <3>2. debts[g] = toRevoke[g] + toWithdraw[g] /\ votes[g] = votesForGroup(g)
      BY <1>2 DEF Plus, votesForGroup
    <3>3. /\ toVote[g] \in Nat /\ toRevoke[g] \in Nat /\ toWithdraw[g] \in Nat
          /\ votesForGroup(g) \in Nat
      BY <1>1, GroupTypes
    <3> HIDE DEF celo, debts, votes
    <3> QED BY <3>1, <3>2, <3>3
  <2> HIDE DEF celo, debts, votes
  <2> QED BY <1>3, <2>1 DEF Plus
<1> HIDE DEF celo
<1>5. /\ Total(Plus(celo, debts)) = Total(celo) + Total(debts)
      /\ Total(Plus(votes, toVote)) = Total(votes) + Total(toVote)
      /\ Total(debts) = Total(toRevoke) + Total(toWithdraw)
      /\ Total(votes) = Total(pendingVotes) + Total(activeVotes)
  BY <1>2, <1>3, TotalPlus
<1>6. /\ Total(celo) \in Nat /\ Total(toRevoke) \in Nat /\ Total(toWithdraw) \in Nat
      /\ Total(pendingVotes) \in Nat /\ Total(activeVotes) \in Nat /\ Total(toVote) \in Nat
      /\ balance \in Nat /\ nonvoting \in Nat /\ donated \in Nat
  BY <1>1, <1>2, <1>3, UnitsFinite DEF TypeOK
<1>7. /\ balance + nonvoting + Total(toRevoke) = Total(toVote) + donated
      /\ totalScheduledWithdrawals = Total(toWithdraw)
  BY <1>1 DEF Conserved, WithdrawalBooksAgree
<1>8. getTotalCelo = Total(celo) + donated
  <2> HIDE DEF debts, votes
  <2> QED BY <1>4, <1>5, <1>6, <1>7 DEF getTotalCelo, HeldCelo, TotalVotes
<1> QED BY <1>8 DEF CeloAttributed, celo

(* getTotalCelo attributes every CELO to a group or to a donation.         *)
THEOREM AlwaysAttributed == Spec => []CeloAttributed
<1> QED BY AttributedIfInvariant, Invariant, PTL

----------------------------------------------------------------------------
(* The arrays of pending withdrawals: what adding and removing an entry    *)
(* does to the number of times an entry occurs, and to the sum of values.  *)

(* An entry occurs a number of times, not zero if it is anywhere.          *)
LEMMA OccurrencesFinite ==
  ASSUME NEW S, NEW s \in Seq(S), NEW e
  PROVE  /\ IsFiniteSet({i \in DOMAIN s : s[i] = e})
         /\ Occurrences(s, e) \in Nat
         /\ Occurrences(s, e) > 0 <=> \E i \in DOMAIN s : s[i] = e
<1> DEFINE places == {i \in DOMAIN s : s[i] = e}
<1>1. IsFiniteSet(1 .. Len(s)) /\ places \subseteq 1 .. Len(s)
  <2>1. Len(s) \in Nat /\ DOMAIN s = 1 .. Len(s) OBVIOUS
  <2> QED BY <2>1, FS_Interval
<1>2. IsFiniteSet(places) BY <1>1, FS_Subset
<1>3. Occurrences(s, e) = Cardinality(places) BY DEF Occurrences
<1>4. Cardinality(places) \in Nat /\ (Cardinality(places) = 0 <=> places = {})
  BY <1>2, FS_CardinalityType, FS_EmptySet
<1> QED BY <1>2, <1>3, <1>4

(* The sequence with a new last entry holds it once more, and every other  *)
(* entry as often as before.                                               *)
LEMMA OccurrencesAppend ==
  ASSUME NEW S, NEW s \in Seq(S), NEW e \in S, NEW x
  PROVE  Occurrences(Append(s, e), x) = Occurrences(s, x) + (IF x = e THEN 1 ELSE 0)
<1> DEFINE places == {i \in DOMAIN s : s[i] = x}
           after == {i \in DOMAIN Append(s, e) : Append(s, e)[i] = x}
           n == Len(s)
<1>1. n \in Nat /\ DOMAIN s = 1 .. n OBVIOUS
<1>2. /\ DOMAIN Append(s, e) = 1 .. n + 1
      /\ Append(s, e)[n + 1] = e
      /\ \A i \in 1 .. n : Append(s, e)[i] = s[i]
  OBVIOUS
<1>3. IsFiniteSet(places) BY OccurrencesFinite
<1>4. CASE x = e
  <2>1. after = places \cup {n + 1} BY <1>1, <1>2, <1>4
  <2>2. n + 1 \notin places BY <1>1
  <2>3. Cardinality(after) = Cardinality(places) + 1 BY <1>3, <2>1, <2>2, FS_AddElement
  <2> QED BY <1>4, <2>3 DEF Occurrences
<1>5. CASE x # e
  <2>1. after = places BY <1>1, <1>2, <1>5
  <2>2. Occurrences(Append(s, e), x) = Occurrences(s, x) BY <2>1 DEF Occurrences
  <2>3. Occurrences(s, x) \in Nat BY OccurrencesFinite
  <2> QED BY <1>5, <2>2, <2>3
<1> QED BY <1>4, <1>5

(* The last entry takes the place of the one that is removed.              *)
LEMMA OccurrencesSwapRemove ==
  ASSUME NEW S, NEW s \in Seq(S), NEW i \in DOMAIN s, NEW x
  PROVE  /\ Occurrences(SwapRemove(s, i), x) = Occurrences(s, x) - (IF x = s[i] THEN 1 ELSE 0)
<1> DEFINE places == {j \in DOMAIN s : s[j] = x}
           r == SwapRemove(s, i)
           after == {j \in DOMAIN r : r[j] = x}
           n == Len(s)
           swapped == [s EXCEPT ![i] = s[n]]
<1>1. n \in Nat /\ DOMAIN s = 1 .. n /\ n > 0 /\ i \in 1 .. n OBVIOUS
<1>2. swapped \in Seq(S) /\ Len(swapped) = n
  BY <1>1
<1>3. /\ DOMAIN r = 1 .. n - 1
      /\ \A j \in 1 .. n - 1 : r[j] = IF j = i THEN s[n] ELSE s[j]
  <2>1. r = SubSeq(swapped, 1, n - 1) BY DEF SwapRemove
  <2>2. \A j \in 1 .. n - 1 : swapped[j] = IF j = i THEN s[n] ELSE s[j]
    BY <1>1
  <2> HIDE DEF swapped, r
  <2>3. Len(r) = n - 1 /\ \A j \in 1 .. n - 1 : r[j] = swapped[j]
    BY <1>1, <1>2, <2>1
  <2>4. r \in Seq(S) BY SwapRemoveType DEF r
  <2> QED BY <2>2, <2>3, <2>4
<1> HIDE DEF r
<1>4. IsFiniteSet(places) BY OccurrencesFinite
<1>5. Cardinality(places) \in Nat BY <1>4, FS_CardinalityType
<1>6. Cardinality(after) = Cardinality(places) - (IF x = s[i] THEN 1 ELSE 0)
  <2>0. CASE i = n /\ x # s[i]
    <3> HIDE DEF n
    <3>0. x # s[n] /\ \A j \in 1 .. n - 1 : r[j] = s[j] BY <1>3, <2>0
    <3>1. after = places
      <4>1. \A j \in 1 .. n : j = n \/ j \in 1 .. n - 1 BY <1>1
      <4>2. 1 .. n - 1 \subseteq 1 .. n BY <1>1
      <4> QED BY <1>1, <1>3, <3>0, <4>1, <4>2
    <3>2. (IF x = s[i] THEN 1 ELSE 0) = 0 BY <2>0
    <3> HIDE DEF places, after
    <3> QED BY <1>5, <3>1, <3>2
  <2>1. CASE (i = n \/ x = s[n]) /\ x = s[i]
    <3>1. after = places \ {n} BY <1>1, <1>3, <2>1
    <3>2. n \in places BY <1>1, <2>1
    <3> QED BY <1>4, <2>1, <3>1, <3>2, FS_RemoveElement
  <2>2. CASE i # n /\ x # s[n] /\ x # s[i]
    <3>1. after = places BY <1>1, <1>3, <2>2
    <3> HIDE DEF places, after, n
    <3> QED BY <1>5, <2>2, <3>1
  <2>3. CASE i # n /\ x # s[n] /\ x = s[i]
    <3>1. after = places \ {i} BY <1>1, <1>3, <2>3
    <3>2. i \in places BY <1>1, <2>3
    <3> QED BY <1>4, <2>3, <3>1, <3>2, FS_RemoveElement
  <2>4. CASE i # n /\ x = s[n] /\ x # s[i]
    <3>1. after = (places \ {n}) \cup {i} BY <1>1, <1>3, <2>4
    <3>2. n \in places /\ i \notin places BY <1>1, <2>4
    <3>3. IsFiniteSet(places \ {n}) /\ Cardinality(places \ {n}) = Cardinality(places) - 1
      BY <1>4, <3>2, FS_RemoveElement
    <3>4. Cardinality(after) = Cardinality(places \ {n}) + 1
      BY <3>1, <3>2, <3>3, FS_AddElement
    <3> QED BY <1>5, <2>4, <3>3, <3>4
  <2> HIDE DEF places, after, n
  <2> QED BY <2>0, <2>1, <2>2, <2>3, <2>4
<1> QED BY <1>6 DEF Occurrences, r

(* The values of an array's entries are amounts, and so is their sum.      *)
LEMMA ValuesType ==
  ASSUME NEW s \in Seq(PendingWithdrawal)
  PROVE  /\ Values(s) \in [1 .. Len(s) -> Nat]
         /\ Total(Values(s)) \in Nat
<1>1. ASSUME NEW i \in 1 .. Len(s) PROVE s[i].value \in Nat
  <2>1. s[i] \in PendingWithdrawal OBVIOUS
  <2> QED BY <2>1 DEF PendingWithdrawal
<1>2. Values(s) \in [1 .. Len(s) -> Nat] BY <1>1 DEF Values
<1>3. Len(s) \in Nat OBVIOUS
<1>4. IsFiniteSet(1 .. Len(s)) BY <1>3, FS_Interval
<1> HIDE DEF Values
<1> QED BY <1>2, <1>4, UnitsFinite

(* A new entry adds its value to the sum.                                  *)
LEMMA ValuesAppend ==
  ASSUME NEW s \in Seq(PendingWithdrawal), NEW e \in PendingWithdrawal
  PROVE  Total(Values(Append(s, e))) = Total(Values(s)) + e.value
<1> DEFINE f == Values(Append(s, e))
           n == Len(s)
<1>1. n \in Nat /\ Append(s, e) \in Seq(PendingWithdrawal) /\ Len(Append(s, e)) = n + 1
  OBVIOUS
<1>2. f \in [1 .. n + 1 -> Nat] BY <1>1, ValuesType
<1>3. f[n + 1] = e.value BY DEF Values
<1>4. [i \in 1 .. n |-> f[i]] = Values(s) BY DEF Values
<1> HIDE DEF f, n
<1> QED BY <1>1, <1>2, <1>3, <1>4, TotalLast DEF f

(* Removing an entry takes its value out of the sum.                       *)
LEMMA ValuesSwapRemove ==
  ASSUME NEW s \in Seq(PendingWithdrawal), NEW k \in DOMAIN s
  PROVE  Total(Values(SwapRemove(s, k))) = Total(Values(s)) - s[k].value
<1> DEFINE n == Len(s)
           v == Values(s)
           w == [v EXCEPT ![k] = v[n]]
           r == SwapRemove(s, k)
<1>1. n \in Nat /\ n > 0 /\ k \in 1 .. n /\ n - 1 \in Nat /\ n \in 1 .. n OBVIOUS
<1>2. v \in [1 .. n -> Nat] /\ Total(v) \in Nat BY ValuesType
<1>3. v[k] = s[k].value BY DEF Values
<1>4. Values(r) = [i \in 1 .. n - 1 |-> w[i]]
  <2>1. /\ DOMAIN r = 1 .. n - 1
        /\ \A j \in 1 .. n - 1 : r[j] = IF j = k THEN s[n] ELSE s[j]
    BY DEF SwapRemove
  <2>2. \A j \in 1 .. n - 1 : r[j].value = w[j]
    BY <1>1, <2>1 DEF Values
  <2> QED BY <2>1, <2>2 DEF Values
<1> HIDE DEF n, v, r
<1>5. w \in [1 .. (n - 1) + 1 -> Nat] /\ v[n] \in Nat /\ v[k] \in Nat /\ w[n] = v[n]
  BY <1>1, <1>2
<1>6. Total(w) = Total(v) - v[k] + v[n]
  <2>1. IsFiniteSet(1 .. n) BY <1>1, FS_Interval
  <2>2. \A x \in 1 .. n, m \in Nat : Total([v EXCEPT ![x] = m]) = Total(v) - v[x] + m
    BY <1>2, <2>1, TotalExcept
  <2> QED BY <1>1, <1>5, <2>2
<1>7. Total(w) = Total([i \in 1 .. n - 1 |-> w[i]]) + w[(n - 1) + 1]
  <2> HIDE DEF w
  <2> QED BY <1>1, <1>5, TotalLast
<1>8. (n - 1) + 1 = n BY <1>1
<1>9. Total(Values(r)) \in Nat
  <2>1. r \in Seq(PendingWithdrawal) BY SwapRemoveType DEF r
  <2> QED BY <2>1, ValuesType
<1> HIDE DEF w
<1>10. Total(w) = Total(Values(r)) + v[n] BY <1>4, <1>5, <1>7, <1>8
<1>11. Total(Values(r)) = Total(v) - v[k] BY <1>2, <1>5, <1>6, <1>9, <1>10
<1> QED BY <1>3, <1>11 DEF r, v

----------------------------------------------------------------------------
(* What the contract, the beneficiaries and LockedGold's array hold between *)
(* them, and the bound on it.                                              *)
(* What is scheduled for a beneficiary from a group is paid at once, out   *)
(* of the balance and what is to be voted, or revoked.                     *)
LEMMA WithdrawAmounts ==
  ASSUME TypeOK, NEW b \in Beneficiaries, NEW g \in Groups
  PROVE  /\ toWithdrawFor[g][b] \in Nat
         /\ ImmediateWithdrawal(b, g) \in Nat
         /\ RevokeAmount(b, g) \in Nat
         /\ ImmediateWithdrawal(b, g) + RevokeAmount(b, g) = toWithdrawFor[g][b]
         /\ ImmediateWithdrawal(b, g) <= balance
         /\ ImmediateWithdrawal(b, g) <= NetToVote(g, 0, 0)
<1> DEFINE most == MinOf(balance, NetToVote(g, 0, 0))
           amount == toWithdrawFor[g][b]
<1>1. amount \in Nat /\ NetToVote(g, 0, 0) \in Nat /\ balance \in Nat
  BY NetFact DEF TypeOK
<1>2. most \in Nat /\ most <= balance /\ most <= NetToVote(g, 0, 0)
  BY <1>1, MinOfFact
<1>3. ImmediateWithdrawal(b, g) = MinOf(most, amount) BY DEF ImmediateWithdrawal
<1>4. RevokeAmount(b, g) = amount - ImmediateWithdrawal(b, g) BY DEF RevokeAmount
<1> HIDE DEF most, amount
<1>5. MinOf(most, amount) \in Nat /\ MinOf(most, amount) <= most /\ MinOf(most, amount) <= amount
  BY <1>1, <1>2, MinOfFact
<1> QED BY <1>1, <1>2, <1>3, <1>4, <1>5 DEF amount

(* Every amount that IssuedCelo adds up is a number.                       *)
LEMMA HeldTypes ==
  ASSUME TypeOK
  PROVE  /\ HeldCelo \in Nat /\ TotalVotes \in Nat /\ totalScheduledWithdrawals \in Nat
         /\ Total(Values(lockedPending)) \in Nat /\ Total(paid) \in Nat
         /\ balance \in Nat /\ nonvoting \in Nat /\ donated \in Nat
         /\ IssuedCelo \in Nat
<1>1. Total(pendingVotes) \in Nat /\ Total(activeVotes) \in Nat /\ Total(paid) \in Nat
  BY UnitsFinite DEF TypeOK
<1>2. Total(Values(lockedPending)) \in Nat
  BY ValuesType DEF TypeOK
<1>3. /\ balance \in Nat /\ nonvoting \in Nat /\ donated \in Nat
      /\ totalScheduledWithdrawals \in Nat
  BY DEF TypeOK
<1> QED BY <1>1, <1>2, <1>3 DEF HeldCelo, TotalVotes, IssuedCelo

(* A step that changes no group's CELO and takes in no donation gives up   *)
(* as much CELO as it takes off the scheduled withdrawals.                 *)
LEMMA HeldFact ==
  ASSUME TypeOK, CeloAttributed, TypeOK', CeloAttributed',
         \A g \in Groups : getCeloForGroup(g)' = getCeloForGroup(g), UNCHANGED donated,
         Total([g \in Groups |-> getCeloForGroup(g)]) \in Nat
  PROVE  /\ HeldCelo' \in Nat
         /\ HeldCelo' = HeldCelo - totalScheduledWithdrawals + totalScheduledWithdrawals'
<1>1. /\ HeldCelo \in Nat /\ donated \in Nat /\ totalScheduledWithdrawals \in Nat
  BY HeldTypes
<1>2. HeldCelo' \in Nat /\ totalScheduledWithdrawals' \in Nat
  <2>1. /\ pendingVotes' \in [Groups -> Nat] /\ activeVotes' \in [Groups -> Nat]
        /\ balance' \in Nat /\ nonvoting' \in Nat /\ totalScheduledWithdrawals' \in Nat
    BY DEF TypeOK
  <2>2. Total(pendingVotes') \in Nat /\ Total(activeVotes') \in Nat
    BY <2>1, UnitsFinite
  <2> QED BY <2>1, <2>2 DEF HeldCelo, TotalVotes
<1>3. HeldCelo - totalScheduledWithdrawals = Total([g \in Groups |-> getCeloForGroup(g)]) + donated
  BY DEF CeloAttributed, getTotalCelo
<1>4. HeldCelo' - totalScheduledWithdrawals'
        = Total([g \in Groups |-> getCeloForGroup(g)']) + donated'
  BY DEF CeloAttributed, getTotalCelo
<1>5. [g \in Groups |-> getCeloForGroup(g)'] = [g \in Groups |-> getCeloForGroup(g)]
  OBVIOUS
<1>6. Total([g \in Groups |-> getCeloForGroup(g)']) = Total([g \in Groups |-> getCeloForGroup(g)])
  BY <1>5
<1>7. donated' = donated OBVIOUS
<1>8. HeldCelo' - totalScheduledWithdrawals' = HeldCelo - totalScheduledWithdrawals
  BY <1>3, <1>4, <1>6, <1>7
<1> DEFINE held == HeldCelo'
           scheduledNow == totalScheduledWithdrawals'
<1>9. held \in Nat /\ scheduledNow \in Nat
      /\ held - scheduledNow = HeldCelo - totalScheduledWithdrawals
  BY <1>2, <1>8
<1> HIDE DEF held, scheduledNow
<1>10. held = HeldCelo - totalScheduledWithdrawals + scheduledNow
  BY <1>1, <1>9
<1> QED BY <1>2, <1>10 DEF held, scheduledNow

(* What anyone may call neither creates nor destroys CELO.                 *)
LEMMA BotsIssueNothing ==
  ASSUME IInv, TypeOK', CeloAttributed', BotStep,
         \A g \in Groups : getCeloForGroup(g)' = getCeloForGroup(g)
  PROVE  IssuedCelo' = IssuedCelo
<1>0. TypeOK
  BY DEF IInv
<1>1. /\ HeldCelo \in Nat /\ Total(paid) \in Nat /\ Total(Values(lockedPending)) \in Nat
      /\ totalScheduledWithdrawals \in Nat
  BY <1>0, HeldTypes
<1>2. UNCHANGED donated
  BY DEF BotStep, Withdraw, ActivateAndVote, RevokeVotes, FinishPendingWithdrawal
<1>3. HeldCelo' = HeldCelo - totalScheduledWithdrawals + totalScheduledWithdrawals'
  <2>1. CeloAttributed BY AttributedIfInvariant
  <2>2. Total([g \in Groups |-> getCeloForGroup(g)]) \in Nat
    <3>1. \A g \in Groups : getCeloForGroup(g) \in Nat
      BY FreeFact DEF IInv, Safe
    <3>2. [g \in Groups |-> getCeloForGroup(g)] \in [Groups -> Nat] BY <3>1
    <3> QED BY <3>2, UnitsFinite
  <2> QED BY <1>0, <1>2, <2>1, <2>2, HeldFact
<1>4. ASSUME NEW b \in Beneficiaries, NEW g \in Groups, Withdraw(b, g)
      PROVE  IssuedCelo' = IssuedCelo
  <2> DEFINE amount == toWithdrawFor[g][b]
             immediate == ImmediateWithdrawal(b, g)
             rest == RevokeAmount(b, g)
             entry == [value |-> rest, timestamp |-> now + UnlockingPeriod]
  <2>1. amount \in Nat /\ immediate \in Nat /\ rest \in Nat /\ amount = immediate + rest
    BY <1>0, WithdrawAmounts
  <2>2. totalScheduledWithdrawals' = totalScheduledWithdrawals - amount
    BY <1>4 DEF Withdraw
  <2>3. Total(paid') = Total(paid) + immediate
    <3>1. paid' = [paid EXCEPT ![b] = paid[b] + immediate] BY <1>4 DEF Withdraw
    <3>2. paid \in [Beneficiaries -> Nat] /\ paid[b] \in Nat BY <1>0 DEF TypeOK
    <3> HIDE DEF immediate
    <3>3. paid[b] + immediate \in Nat BY <2>1, <3>2
    <3>4. Total(paid') = Total(paid) - paid[b] + (paid[b] + immediate)
      BY <3>1, <3>2, <3>3, TotalExcept
    <3> QED BY <1>1, <2>1, <3>2, <3>4
  <2>4. Total(Values(lockedPending')) = Total(Values(lockedPending)) + rest
    <3>1. CASE rest = 0
      BY <1>1, <1>4, <3>1 DEF Withdraw
    <3>2. CASE rest # 0
      <4>1. lockedPending' = Append(lockedPending, entry)
        BY <1>4, <3>2 DEF Withdraw
      <4>2. entry \in PendingWithdrawal /\ entry.value = rest
        BY <1>0, <2>1 DEF TypeOK, PendingWithdrawal
      <4>3. lockedPending \in Seq(PendingWithdrawal) BY <1>0 DEF TypeOK
      <4> HIDE DEF entry, rest
      <4> QED BY <4>1, <4>2, <4>3, ValuesAppend
    <3> QED BY <3>1, <3>2
  <2> HIDE DEF amount, immediate, rest
  <2> QED BY <1>1, <1>3, <2>1, <2>2, <2>3, <2>4 DEF IssuedCelo
<1>5. ASSUME NEW g \in Groups, ActivateAndVote(g) \/ RevokeVotes(g)
      PROVE  IssuedCelo' = IssuedCelo
  <2>1. UNCHANGED <<totalScheduledWithdrawals, paid, lockedPending>>
    BY <1>5 DEF ActivateAndVote, RevokeVotes
  <2>2. HeldCelo' = HeldCelo BY <1>1, <1>3, <2>1
  <2> QED BY <2>1, <2>2 DEF IssuedCelo
<1>6. ASSUME NEW b \in Beneficiaries, NEW i \in DOMAIN pendingWithdrawals[b],
             NEW k \in DOMAIN lockedPending, FinishPendingWithdrawal(b, i, k)
      PROVE  IssuedCelo' = IssuedCelo
  <2> DEFINE value == lockedPending[k].value
  <2>1. /\ lockedPending \in Seq(PendingWithdrawal) /\ lockedPending[k] \in PendingWithdrawal
        /\ paid \in [Beneficiaries -> Nat] /\ paid[b] \in Nat
    BY <1>0 DEF TypeOK
  <2>2. value \in Nat BY <2>1 DEF PendingWithdrawal
  <2>3. /\ paid' = [paid EXCEPT ![b] = paid[b] + value]
        /\ lockedPending' = SwapRemove(lockedPending, k)
        /\ UNCHANGED totalScheduledWithdrawals
    BY <1>6 DEF FinishPendingWithdrawal, ValidRequest, scheduled
  <2>4. Total(Values(lockedPending')) = Total(Values(lockedPending)) - value
    BY <2>1, <2>3, ValuesSwapRemove
  <2> HIDE DEF value
  <2>5. Total(paid') = Total(paid) + value
    <3>1. paid[b] + value \in Nat BY <2>1, <2>2
    <3>2. Total(paid') = Total(paid) - paid[b] + (paid[b] + value)
      BY <2>1, <2>3, <3>1, TotalExcept
    <3> QED BY <1>1, <2>1, <2>2, <3>2
  <2> QED BY <1>1, <1>3, <2>2, <2>3, <2>4, <2>5 DEF IssuedCelo
<1> QED BY <1>4, <1>5, <1>6 DEF BotStep

(* A step that moves no CELO.                                              *)
LEMMA IssuedSame ==
  ASSUME UNCHANGED <<balance, nonvoting, pendingVotes, activeVotes, lockedPending, paid>>
  PROVE  IssuedCelo' = IssuedCelo
BY DEF IssuedCelo, HeldCelo, TotalVotes, Values

(* The bound on the CELO in the system, which the CELO that comes in must  *)
(* respect, holds throughout: all other steps only move what there is.     *)
Bounded == IssuedCelo <= MaxCelo

(* No step exceeds the bound: Manager's calls check it, and what anyone    *)
(* may call leaves the contract and the beneficiaries the CELO they had.   *)
LEMMA BoundedStep ==
  ASSUME IInv, TypeOK', CeloAttributed',
         BotStep => \A g \in Groups : getCeloForGroup(g)' = getCeloForGroup(g),
         Bounded, [Next]_vars
  PROVE  Bounded'
<1>0. /\ TypeOK
      /\ HeldCelo \in Nat /\ Total(Values(lockedPending)) \in Nat /\ Total(paid) \in Nat
      /\ balance \in Nat /\ nonvoting \in Nat /\ TotalVotes \in Nat
  BY HeldTypes DEF IInv
<1>1. ASSUME NEW votes \in Allocations, ScheduleVotes(votes) PROVE Bounded'
  <2>1. Total(votes) \in Nat
    <3>1. votes \in [Groups -> Nat] BY DEF Allocations
    <3> QED BY <3>1, UnitsFinite
  <2>2. /\ balance' = balance + Total(votes)
        /\ UNCHANGED <<nonvoting, pendingVotes, activeVotes, lockedPending, paid>>
        /\ IssuedCelo + Total(votes) <= MaxCelo
    BY <1>1 DEF ScheduleVotes, election
  <2>3. IssuedCelo' = balance' + nonvoting + TotalVotes + Total(Values(lockedPending)) + Total(paid)
    BY <2>2 DEF IssuedCelo, HeldCelo, TotalVotes, Values
  <2>4. IssuedCelo = balance + nonvoting + TotalVotes + Total(Values(lockedPending)) + Total(paid)
    BY DEF IssuedCelo, HeldCelo
  <2>5. IssuedCelo' = IssuedCelo + Total(votes)
    BY <1>0, <2>1, <2>2, <2>3, <2>4
  <2> QED BY <2>2, <2>5 DEF Bounded
<1>2. ASSUME NEW value \in 1 .. MaxCelo, Receive(value) PROVE Bounded'
  <2>2. /\ balance' = balance + value
        /\ UNCHANGED <<nonvoting, pendingVotes, activeVotes, lockedPending, paid>>
        /\ IssuedCelo + value <= MaxCelo
    BY <1>2 DEF Receive, election
  <2>3. IssuedCelo' = balance' + nonvoting + TotalVotes + Total(Values(lockedPending)) + Total(paid)
    BY <2>2 DEF IssuedCelo, HeldCelo, TotalVotes, Values
  <2>4. IssuedCelo = balance + nonvoting + TotalVotes + Total(Values(lockedPending)) + Total(paid)
    BY DEF IssuedCelo, HeldCelo
  <2>5. IssuedCelo' = IssuedCelo + value
    BY <1>0, <2>2, <2>3, <2>4
  <2> QED BY <2>2, <2>5 DEF Bounded
<1>3. ASSUME NEW rewards \in Allocations, NextEpoch(rewards) PROVE Bounded'
  <2>1. rewards \in [Groups -> Nat] /\ activeVotes \in [Groups -> Nat]
        /\ pendingVotes \in [Groups -> Nat]
    BY <1>0 DEF Allocations, TypeOK
  <2>2. /\ activeVotes' = Plus(activeVotes, rewards)
        /\ UNCHANGED <<balance, nonvoting, pendingVotes, lockedPending, paid>>
        /\ IssuedCelo + Total(rewards) <= MaxCelo
    BY <1>3 DEF NextEpoch
  <2>3. Total(activeVotes') = Total(activeVotes) + Total(rewards)
    BY <2>1, <2>2, TotalPlus
  <2>4. Total(rewards) \in Nat /\ Total(activeVotes) \in Nat /\ Total(pendingVotes) \in Nat
    BY <2>1, UnitsFinite
  <2>5. IssuedCelo' = balance + nonvoting + (Total(pendingVotes) + Total(activeVotes'))
                        + Total(Values(lockedPending)) + Total(paid)
    BY <2>2 DEF IssuedCelo, HeldCelo, TotalVotes, Values
  <2>6. IssuedCelo = balance + nonvoting + (Total(pendingVotes) + Total(activeVotes))
                        + Total(Values(lockedPending)) + Total(paid)
    BY DEF IssuedCelo, HeldCelo, TotalVotes
  <2>7. IssuedCelo' = IssuedCelo + Total(rewards)
    BY <1>0, <2>3, <2>4, <2>5, <2>6
  <2> QED BY <2>2, <2>7 DEF Bounded
<1>4. ASSUME NEW from \in Allocations, NEW to \in Allocations, ScheduleTransfer(from, to)
      PROVE  Bounded'
  BY <1>4, IssuedSame DEF ScheduleTransfer, election, Bounded
<1>5. ASSUME NEW b \in Beneficiaries, NEW withdrawals \in Allocations,
             ScheduleWithdrawals(b, withdrawals)
      PROVE  Bounded'
  BY <1>5, IssuedSame DEF ScheduleWithdrawals, election, Bounded
<1>6. CASE BotStep
  BY <1>6, BotsIssueNothing DEF Bounded
<1>7. ASSUME NEW g \in Groups, VotableChange(g) PROVE Bounded'
  BY <1>7, IssuedSame DEF VotableChange, Bounded
<1>8. ASSUME Tick \/ Pause \/ Unpause PROVE Bounded'
  BY <1>8, IssuedSame DEF Tick, Pause, Unpause, election, Bounded
<1>9. CASE UNCHANGED vars
  BY <1>9, IssuedSame DEF vars, election, Bounded
<1> QED BY <1>1, <1>2, <1>3, <1>4, <1>5, <1>6, <1>7, <1>8, <1>9
          DEF Next, ManagerStep, EnvironmentStep

(* Initially there is none.                                                *)
LEMMA BoundedInit == Init => Bounded
<1> SUFFICES ASSUME Init PROVE Bounded
  OBVIOUS
<1>1. Total(pendingVotes) = 0 /\ Total(activeVotes) = 0 /\ Total(paid) = 0
  BY TotalZero DEF Init
<1>2. Total(Values(lockedPending)) = 0
  <2>1. Values(lockedPending) = [i \in {} |-> 0] BY DEF Init, Values
  <2> QED BY <2>1, TotalZero
<1> QED BY <1>1, <1>2 DEF Init, Bounded, IssuedCelo, HeldCelo, TotalVotes

----------------------------------------------------------------------------
(* How often b's array holds an entry, for every beneficiary b.            *)
Shares(e) == [b \in Beneficiaries |-> Occurrences(pendingWithdrawals[b], e)]

(* PendingMatched, said of every entry there might be.                     *)
AllMatched == \A e \in PendingWithdrawal : Occurrences(lockedPending, e) = Total(Shares(e))

(* How often beneficiaries hold an entry is a number for each, and so is   *)
(* the sum.                                                                *)
LEMMA SharesType ==
  ASSUME TypeOK, NEW e
  PROVE  Shares(e) \in [Beneficiaries -> Nat] /\ Total(Shares(e)) \in Nat
<1>1. \A b \in Beneficiaries : Occurrences(pendingWithdrawals[b], e) \in Nat
  BY OccurrencesFinite DEF TypeOK
<1>2. Shares(e) \in [Beneficiaries -> Nat] BY <1>1 DEF Shares
<1> QED BY <1>2, UnitsFinite

(* withdraw appends the same entry to the beneficiary's array and to       *)
(* LockedGold's.                                                           *)
LEMMA MatchedAppend ==
  ASSUME TypeOK, AllMatched, NEW b \in Beneficiaries, NEW entry \in PendingWithdrawal,
         pendingWithdrawals' = [pendingWithdrawals EXCEPT ![b] = Append(@, entry)],
         lockedPending' = Append(lockedPending, entry)
  PROVE  AllMatched'
<1> SUFFICES ASSUME NEW e \in PendingWithdrawal
             PROVE  Occurrences(lockedPending', e) = Total(Shares(e)')
  BY DEF AllMatched
<1> DEFINE more == IF e = entry THEN 1 ELSE 0
           shares == Shares(e)
<1>1. /\ lockedPending \in Seq(PendingWithdrawal)
      /\ \A c \in Beneficiaries : pendingWithdrawals[c] \in Seq(PendingWithdrawal)
      /\ pendingWithdrawals \in [Beneficiaries -> Seq(PendingWithdrawal)]
  BY DEF TypeOK
<1>2. shares \in [Beneficiaries -> Nat] /\ Total(shares) \in Nat /\ shares[b] \in Nat
  BY SharesType
<1>3. Occurrences(lockedPending', e) = Occurrences(lockedPending, e) + more
  BY <1>1, OccurrencesAppend
<1>4. Shares(e)' = [shares EXCEPT ![b] = shares[b] + more]
  <2>1. Occurrences(Append(pendingWithdrawals[b], entry), e) = shares[b] + more
    BY <1>1, OccurrencesAppend DEF Shares
  <2>2. Shares(e)' = [c \in Beneficiaries |-> Occurrences(pendingWithdrawals'[c], e)]
    BY DEF Shares
  <2>3. \A c \in Beneficiaries : Occurrences(pendingWithdrawals'[c], e)
                                   = IF c = b THEN shares[b] + more ELSE shares[c]
    BY <1>1, <2>1 DEF Shares
  <2> HIDE DEF shares, more
  <2> QED BY <1>2, <2>2, <2>3
<1>5. Occurrences(lockedPending, e) = Total(shares) BY DEF AllMatched
<1> HIDE DEF shares
<1>6. more \in Nat /\ shares[b] + more \in Nat BY <1>2
<1> HIDE DEF more
<1>7. Total([shares EXCEPT ![b] = shares[b] + more]) = Total(shares) - shares[b] + (shares[b] + more)
  BY <1>2, <1>6, TotalExcept
<1> QED BY <1>2, <1>3, <1>4, <1>5, <1>6, <1>7

(* finishPendingWithdrawal removes equal entries from both arrays.         *)
LEMMA MatchedRemove ==
  ASSUME TypeOK, AllMatched, NEW b \in Beneficiaries,
         NEW i \in DOMAIN pendingWithdrawals[b], NEW k \in DOMAIN lockedPending,
         pendingWithdrawals[b][i] = lockedPending[k],
         pendingWithdrawals' = [pendingWithdrawals EXCEPT ![b] = SwapRemove(@, i)],
         lockedPending' = SwapRemove(lockedPending, k)
  PROVE  AllMatched'
<1> SUFFICES ASSUME NEW e \in PendingWithdrawal
             PROVE  Occurrences(lockedPending', e) = Total(Shares(e)')
  BY DEF AllMatched
<1> DEFINE less == IF e = lockedPending[k] THEN 1 ELSE 0
           shares == Shares(e)
<1>1. /\ lockedPending \in Seq(PendingWithdrawal)
      /\ \A c \in Beneficiaries : pendingWithdrawals[c] \in Seq(PendingWithdrawal)
      /\ pendingWithdrawals \in [Beneficiaries -> Seq(PendingWithdrawal)]
  BY DEF TypeOK
<1>2. shares \in [Beneficiaries -> Nat] /\ Total(shares) \in Nat /\ shares[b] \in Nat
  BY SharesType
<1>3. Occurrences(lockedPending', e) = Occurrences(lockedPending, e) - less
  BY <1>1, OccurrencesSwapRemove
<1>4. Shares(e)' = [shares EXCEPT ![b] = shares[b] - less]
  <2>1. Occurrences(SwapRemove(pendingWithdrawals[b], i), e) = shares[b] - less
    BY <1>1, OccurrencesSwapRemove DEF Shares
  <2>2. Shares(e)' = [c \in Beneficiaries |-> Occurrences(pendingWithdrawals'[c], e)]
    BY DEF Shares
  <2>3. \A c \in Beneficiaries : Occurrences(pendingWithdrawals'[c], e)
                                   = IF c = b THEN shares[b] - less ELSE shares[c]
    BY <1>1, <2>1 DEF Shares
  <2> HIDE DEF shares, less
  <2> QED BY <1>2, <2>2, <2>3
<1>5. Occurrences(lockedPending, e) = Total(shares) BY DEF AllMatched
<1>6. shares[b] >= less
  <2>1. shares[b] = Occurrences(pendingWithdrawals[b], e) BY DEF Shares
  <2>2. e = lockedPending[k] => shares[b] > 0 BY <1>1, <2>1, OccurrencesFinite
  <2> HIDE DEF shares
  <2> QED BY <1>2, <2>2
<1> HIDE DEF shares
<1>7. less \in Nat /\ shares[b] - less \in Nat BY <1>2, <1>6
<1> HIDE DEF less
<1>8. Total([shares EXCEPT ![b] = shares[b] - less]) = Total(shares) - shares[b] + (shares[b] - less)
  BY <1>2, <1>7, TotalExcept
<1> QED BY <1>2, <1>3, <1>4, <1>5, <1>7, <1>8

(* Only withdraw and finishPendingWithdrawal change the two arrays, and    *)
(* they change both.                                                       *)
LEMMA MatchedStep == TypeOK /\ AllMatched /\ [Next]_vars => AllMatched'
<1> SUFFICES ASSUME TypeOK, AllMatched, [Next]_vars PROVE AllMatched'
  OBVIOUS
<1>1. ASSUME UNCHANGED <<pendingWithdrawals, lockedPending>> PROVE AllMatched'
  BY <1>1 DEF AllMatched, Shares
<1>2. ASSUME NEW b \in Beneficiaries, NEW g \in Groups, Withdraw(b, g) PROVE AllMatched'
  <2> DEFINE rest == RevokeAmount(b, g)
             entry == [value |-> rest, timestamp |-> now + UnlockingPeriod]
  <2>1. CASE rest = 0
    BY <1>1, <1>2, <2>1 DEF Withdraw
  <2>2. CASE rest # 0
    <3>1. entry \in PendingWithdrawal
      BY WithdrawAmounts DEF TypeOK, PendingWithdrawal
    <3>2. /\ pendingWithdrawals' = [pendingWithdrawals EXCEPT ![b] = Append(@, entry)]
          /\ lockedPending' = Append(lockedPending, entry)
      BY <1>2, <2>2 DEF Withdraw
    <3> HIDE DEF entry
    <3> QED BY <3>1, <3>2, MatchedAppend
  <2> QED BY <2>1, <2>2
<1>3. ASSUME NEW b \in Beneficiaries, NEW i \in DOMAIN pendingWithdrawals[b],
             NEW k \in DOMAIN lockedPending, FinishPendingWithdrawal(b, i, k)
      PROVE  AllMatched'
  BY <1>3, MatchedRemove DEF FinishPendingWithdrawal, ValidRequest
<1>4. CASE ManagerStep
  BY <1>1, <1>4 DEF ManagerStep, ScheduleVotes, ScheduleTransfer, ScheduleWithdrawals
<1>5. CASE EnvironmentStep
  BY <1>1, <1>5 DEF EnvironmentStep, Receive, NextEpoch, VotableChange, Tick, Pause, Unpause
<1>6. ASSUME NEW g \in Groups, ActivateAndVote(g) \/ RevokeVotes(g) PROVE AllMatched'
  BY <1>1, <1>6 DEF ActivateAndVote, RevokeVotes
<1>7. CASE UNCHANGED vars
  BY <1>1, <1>7 DEF vars
<1> QED BY <1>2, <1>3, <1>4, <1>5, <1>6, <1>7 DEF Next, BotStep

(* Both arrays are empty at first.                                         *)
LEMMA MatchedInit == Init => AllMatched
<1> SUFFICES ASSUME Init, NEW e \in PendingWithdrawal
             PROVE  Occurrences(lockedPending, e) = Total(Shares(e))
  BY DEF AllMatched
<1>1. Occurrences(<<>>, e) = 0
  <2>1. {i \in DOMAIN <<>> : <<>>[i] = e} = {} OBVIOUS
  <2> QED BY <2>1, FS_EmptySet DEF Occurrences
<1>2. Shares(e) = [b \in Beneficiaries |-> 0]
  BY <1>1 DEF Init, Shares
<1> QED BY <1>1, <1>2, TotalZero DEF Init

----------------------------------------------------------------------------
(* Account implements Claims.                                              *)
(* The community modules count with the same operator.                     *)
LEMMA SameCount == \A S : SeqExt!Cardinality(S) = Cardinality(S)
BY DEF SeqExt!Cardinality, Cardinality

(* An array as a bag: how often it holds each of its entries.              *)
LEMMA ArrayBag ==
  ASSUME NEW S, NEW s \in Seq(S)
  PROVE  /\ SeqExt!ToBag(s) = [x \in {s[i] : i \in DOMAIN s} |-> Occurrences(s, x)]
         /\ \A x : x \in DOMAIN SeqExt!ToBag(s) <=> Occurrences(s, x) > 0
<1>1. SeqExt!ToBag(s) = [x \in {s[i] : i \in DOMAIN s} |-> Occurrences(s, x)]
  BY SameCount DEF SeqExt!ToBag, SeqExt!Range, Occurrences
<1>2. \A x : x \in {s[i] : i \in DOMAIN s} <=> Occurrences(s, x) > 0
  <2> SUFFICES ASSUME NEW x PROVE x \in {s[i] : i \in DOMAIN s} <=> Occurrences(s, x) > 0
    OBVIOUS
  <2>1. Occurrences(s, x) > 0 <=> \E i \in DOMAIN s : s[i] = x BY OccurrencesFinite
  <2> QED BY <2>1
<1>3. DOMAIN SeqExt!ToBag(s) = {s[i] : i \in DOMAIN s} BY <1>1
<1> QED BY <1>1, <1>2, <1>3

(* Appending adds to the bag.                                              *)
LEMMA ArrayBagAppend ==
  ASSUME NEW S, NEW s \in Seq(S), NEW e \in S
  PROVE  SeqExt!ToBag(Append(s, e)) = ClaimsLedger!BagAdd(SeqExt!ToBag(s), e)
<1> DEFINE B == SeqExt!ToBag(s)
           C == SeqExt!ToBag(Append(s, e))
<1>1. Append(s, e) \in Seq(S) OBVIOUS
<1>2. /\ \A x : x \in DOMAIN B <=> Occurrences(s, x) > 0
      /\ \A x \in DOMAIN B : B[x] = Occurrences(s, x)
      /\ B = [x \in DOMAIN B |-> B[x]]
  BY ArrayBag
<1>3. /\ \A x : x \in DOMAIN C <=> Occurrences(Append(s, e), x) > 0
      /\ \A x \in DOMAIN C : C[x] = Occurrences(Append(s, e), x)
      /\ C = [x \in DOMAIN C |-> C[x]]
  BY <1>1, ArrayBag
<1>4. \A x : /\ Occurrences(s, x) \in Nat
             /\ Occurrences(Append(s, e), x) = Occurrences(s, x) + (IF x = e THEN 1 ELSE 0)
  BY OccurrencesFinite, OccurrencesAppend
<1> HIDE DEF B, C
<1>5. CASE e \in DOMAIN B
  <2>1. ClaimsLedger!BagAdd(B, e) = [x \in DOMAIN B |-> IF x = e THEN B[x] + 1 ELSE B[x]]
    BY <1>5 DEF ClaimsLedger!BagAdd
  <2>2. DOMAIN C = DOMAIN B
    <3>1. \A x : x \in DOMAIN C <=> x \in DOMAIN B BY <1>2, <1>3, <1>4, <1>5
    <3> QED BY <3>1
  <2>3. \A x \in DOMAIN B : C[x] = IF x = e THEN B[x] + 1 ELSE B[x]
    BY <1>2, <1>3, <1>4, <2>2
  <2> QED BY <1>3, <2>1, <2>2, <2>3 DEF B, C
<1>6. CASE e \notin DOMAIN B
  <2>1. ClaimsLedger!BagAdd(B, e) = [x \in DOMAIN B \cup {e} |-> IF x = e THEN 1 ELSE B[x]]
    BY <1>6 DEF ClaimsLedger!BagAdd
  <2>2. DOMAIN C = DOMAIN B \cup {e}
    <3>1. \A x : x \in DOMAIN C <=> x \in DOMAIN B \cup {e} BY <1>2, <1>3, <1>4
    <3> QED BY <3>1
  <2>3. \A x \in DOMAIN C : C[x] = IF x = e THEN 1 ELSE B[x]
    BY <1>2, <1>3, <1>4, <1>6, <2>2
  <2> QED BY <1>3, <2>1, <2>2, <2>3 DEF B, C
<1> QED BY <1>5, <1>6

(* Removing an entry removes it from the bag, once.                        *)
LEMMA ArrayBagRemove ==
  ASSUME NEW S, NEW s \in Seq(S), NEW i \in DOMAIN s
  PROVE  /\ s[i] \in DOMAIN SeqExt!ToBag(s)
         /\ SeqExt!ToBag(SwapRemove(s, i)) = ClaimsLedger!BagRemove(SeqExt!ToBag(s), s[i])
<1> DEFINE e == s[i]
           r == SwapRemove(s, i)
           B == SeqExt!ToBag(s)
           C == SeqExt!ToBag(r)
<1>1. r \in Seq(S) BY SwapRemoveType
<1>2. /\ \A x : x \in DOMAIN B <=> Occurrences(s, x) > 0
      /\ \A x \in DOMAIN B : B[x] = Occurrences(s, x)
      /\ B = [x \in DOMAIN B |-> B[x]]
  BY ArrayBag
<1>3. /\ \A x : x \in DOMAIN C <=> Occurrences(r, x) > 0
      /\ \A x \in DOMAIN C : C[x] = Occurrences(r, x)
      /\ C = [x \in DOMAIN C |-> C[x]]
  BY <1>1, ArrayBag
<1>4. \A x : /\ Occurrences(s, x) \in Nat
             /\ Occurrences(r, x) = Occurrences(s, x) - (IF x = e THEN 1 ELSE 0)
  BY OccurrencesFinite, OccurrencesSwapRemove
<1>5. e \in DOMAIN B
  <2>1. Occurrences(s, s[i]) > 0 BY OccurrencesFinite
  <2> QED BY <1>2, <2>1
<1> HIDE DEF B, C, r, e
<1>6. CASE B[e] = 1
  <2>1. ClaimsLedger!BagRemove(B, e) = [x \in DOMAIN B \ {e} |-> B[x]]
    BY <1>5, <1>6 DEF ClaimsLedger!BagRemove
  <2>2. DOMAIN C = DOMAIN B \ {e}
    <3>1. \A x : x \in DOMAIN C <=> x \in DOMAIN B \ {e} BY <1>2, <1>3, <1>4, <1>5, <1>6
    <3> QED BY <3>1
  <2>3. \A x \in DOMAIN C : C[x] = B[x]
    BY <1>2, <1>3, <1>4, <2>2
  <2>4. C = [x \in DOMAIN B \ {e} |-> B[x]] BY <1>3, <2>2, <2>3
  <2> QED BY <1>5, <2>1, <2>4 DEF B, C, r, e
<1>7. CASE B[e] # 1
  <2>1. ClaimsLedger!BagRemove(B, e) = [x \in DOMAIN B |-> IF x = e THEN B[x] - 1 ELSE B[x]]
    BY <1>5, <1>7 DEF ClaimsLedger!BagRemove
  <2>2. DOMAIN C = DOMAIN B
    <3>1. \A x : x \in DOMAIN C <=> x \in DOMAIN B BY <1>2, <1>3, <1>4, <1>5, <1>7
    <3> QED BY <3>1
  <2>3. \A x \in DOMAIN C : C[x] = IF x = e THEN B[x] - 1 ELSE B[x]
    BY <1>2, <1>3, <1>4, <2>2
  <2>4. C = [x \in DOMAIN B |-> IF x = e THEN B[x] - 1 ELSE B[x]] BY <1>3, <2>2, <2>3
  <2> QED BY <1>5, <2>1, <2>4 DEF B, C, r, e
<1> QED BY <1>6, <1>7, <1>5 DEF e, B

(* An empty array holds nothing.                                           *)
LEMMA ArrayBagEmpty == SeqExt!ToBag(<<>>) = ClaimsLedger!EmptyBag
BY DEF SeqExt!ToBag, SeqExt!Range, ClaimsLedger!EmptyBag, ClaimsLedger!SetToBag

(* What groups owe b.                                                      *)
Column(b) == [g \in Groups |-> toWithdrawFor[g][b]]

(* What each beneficiary is owed is the sum of its column, an amount no    *)
(* less than any entry of it.                                              *)
LEMMA OwedFact ==
  ASSUME TypeOK
  PROVE  /\ \A b \in Beneficiaries : Column(b) \in [Groups -> Nat]
         /\ Owed = [b \in Beneficiaries |-> Total(Column(b))]
         /\ Owed \in [Beneficiaries -> Nat]
         /\ \A b \in Beneficiaries, g \in Groups : toWithdrawFor[g][b] <= Owed[b]
<1>1. \A b \in Beneficiaries : Column(b) \in [Groups -> Nat]
  BY DEF TypeOK, Column
<1>2. \A b \in Beneficiaries : Total(Column(b)) \in Nat
  BY <1>1, UnitsFinite
<1>3. Owed = [b \in Beneficiaries |-> Total(Column(b))]
  BY DEF Owed, Column
<1>4. ASSUME NEW b \in Beneficiaries, NEW g \in Groups PROVE toWithdrawFor[g][b] <= Owed[b]
  <2>1. Column(b)[g] <= Total(Column(b)) BY <1>1, ShareBound
  <2> QED BY <1>3, <2>1 DEF Column
<1> QED BY <1>1, <1>2, <1>3, <1>4

(* A step that touches no claim.                                           *)
LEMMA ClaimsSame ==
  ASSUME UNCHANGED <<toWithdrawFor, pendingWithdrawals, paid, now>>
  PROVE  UNCHANGED ClaimsLedger!vars
BY DEF ClaimsLedger!vars, Owed

(* No more CELO stands for the groups than there is.                       *)
LEMMA CeloBounded ==
  ASSUME IInv, Bounded
  PROVE  /\ [g \in Groups |-> getCeloForGroup(g)] \in [Groups -> Nat]
         /\ Total([g \in Groups |-> getCeloForGroup(g)]) \in 0 .. MaxCelo
         /\ \A g \in Groups : getCeloForGroup(g) \in 0 .. MaxCelo
<1> DEFINE celo == [g \in Groups |-> getCeloForGroup(g)]
<1>1. celo \in [Groups -> Nat]
  BY FreeFact DEF IInv, Safe
<1>2. getTotalCelo = Total(celo) + donated
  BY AttributedIfInvariant DEF CeloAttributed
<1>3. Total(celo) \in Nat BY <1>1, UnitsFinite
<1>4. /\ HeldCelo \in Nat /\ totalScheduledWithdrawals \in Nat /\ donated \in Nat
      /\ Total(Values(lockedPending)) \in Nat /\ Total(paid) \in Nat
  BY HeldTypes DEF IInv
<1>5. HeldCelo + Total(Values(lockedPending)) + Total(paid) <= MaxCelo
  BY DEF Bounded, IssuedCelo
<1>6. HeldCelo - totalScheduledWithdrawals = Total(celo) + donated
  BY <1>2 DEF getTotalCelo
<1>7. \A g \in Groups : celo[g] \in Nat /\ celo[g] <= Total(celo)
  BY <1>1, ShareBound
<1>8. \A g \in Groups : celo[g] = getCeloForGroup(g) OBVIOUS
<1> HIDE DEF celo
<1>9. Total(celo) \in 0 .. MaxCelo BY <1>3, <1>4, <1>5, <1>6
<1>10. \A g \in Groups : celo[g] \in 0 .. MaxCelo BY <1>7, <1>9
<1> QED BY <1>1, <1>8, <1>9, <1>10 DEF celo

(* So scheduleWithdrawals never promises more than MaxCelo.                *)
LEMMA PromiseBounded ==
  ASSUME IInv, Bounded, NEW withdrawals \in Allocations,
         \A g \in Groups : withdrawals[g] <= getCeloForGroup(g)
  PROVE  Total(withdrawals) \in 0 .. MaxCelo
<1> DEFINE celo == [g \in Groups |-> getCeloForGroup(g)]
<1>1. celo \in [Groups -> Nat] /\ Total(celo) \in 0 .. MaxCelo
  BY CeloBounded
<1>2. withdrawals \in [Groups -> Nat] BY DEF Allocations
<1>3. Total(withdrawals) <= Total(celo) BY <1>1, <1>2, TotalMono
<1>4. Total(withdrawals) \in Nat BY <1>2, UnitsFinite
<1> HIDE DEF celo
<1> QED BY <1>1, <1>3, <1>4

(* scheduleWithdrawals promises the sum of what is withdrawn.              *)
LEMMA SchedulePromises ==
  ASSUME IInv, Bounded, NEW b \in Beneficiaries, NEW withdrawals \in Allocations,
         ScheduleWithdrawals(b, withdrawals)
  PROVE  ClaimsLedger!Next \/ UNCHANGED ClaimsLedger!vars
<1> DEFINE n == Total(withdrawals)
<1>0. TypeOK BY DEF IInv
<1>1. n \in 0 .. MaxCelo BY PromiseBounded DEF ScheduleWithdrawals
<1>2. /\ toWithdrawFor' = [g \in Groups |-> [toWithdrawFor[g] EXCEPT ![b] = @ + withdrawals[g]]]
      /\ UNCHANGED <<pendingWithdrawals, paid, now>>
  BY DEF ScheduleWithdrawals
<1>3. withdrawals \in [Groups -> Nat] BY DEF Allocations
<1>4. Column(b) \in [Groups -> Nat] /\ Owed \in [Beneficiaries -> Nat] /\ Owed[b] = Total(Column(b))
  BY <1>0, OwedFact
<1>5. Owed' = [c \in Beneficiaries |-> Total([g \in Groups |-> toWithdrawFor'[g][c]])]
  BY DEF Owed
<1>6. [g \in Groups |-> toWithdrawFor'[g][b]] = Plus(Column(b), withdrawals)
  BY <1>0, <1>2, <1>4 DEF Plus, Column, TypeOK
<1>7. Total(Plus(Column(b), withdrawals)) = Owed[b] + n
  BY <1>3, <1>4, TotalPlus
<1>8. ASSUME NEW c \in Beneficiaries \ {b}
      PROVE  Total([g \in Groups |-> toWithdrawFor'[g][c]]) = Owed[c]
  <2>1. \A g \in Groups : toWithdrawFor'[g][c] = toWithdrawFor[g][c]
    BY <1>0, <1>2 DEF TypeOK
  <2>2. [g \in Groups |-> toWithdrawFor'[g][c]] = Column(c) BY <2>1 DEF Column
  <2> QED BY <1>0, <2>2, OwedFact
<1> HIDE DEF n
<1>9. Owed' = [Owed EXCEPT ![b] = @ + n]
  <2>1. \A c \in Beneficiaries : Owed'[c] = IF c = b THEN Owed[b] + n ELSE Owed[c]
    BY <1>5, <1>6, <1>7, <1>8
  <2>2. Owed' = [c \in Beneficiaries |-> Owed'[c]] BY <1>5
  <2> QED BY <1>4, <2>1, <2>2
<1>10. CASE n = 0
  <2>1. Owed' = Owed BY <1>4, <1>9, <1>10
  <2> QED BY <1>2, <2>1 DEF ClaimsLedger!vars
<1>11. CASE n \in 1 .. MaxCelo
  <2>1. ClaimsLedger!Promise(b, n) BY <1>2, <1>9 DEF ClaimsLedger!Promise
  <2> QED BY <1>11, <2>1 DEF ClaimsLedger!Next
<1> QED BY <1>1, <1>10, <1>11

(* withdraw settles what one group owes.                                   *)
LEMMA WithdrawSettles ==
  ASSUME IInv, NEW b \in Beneficiaries, NEW g \in Groups, Withdraw(b, g)
  PROVE  ClaimsLedger!Next
<1> DEFINE n == toWithdrawFor[g][b]
           immediate == ImmediateWithdrawal(b, g)
           rest == RevokeAmount(b, g)
           entry == [value |-> n - immediate, timestamp |-> now + UnlockingPeriod]
           bags == [c \in Beneficiaries |-> SeqExt!ToBag(pendingWithdrawals[c])]
<1>0. TypeOK BY DEF IInv
<1>1. n \in Nat /\ immediate \in Nat /\ rest \in Nat /\ immediate + rest = n
  BY <1>0, WithdrawAmounts
<1>2. /\ n > 0
      /\ toWithdrawFor' = [toWithdrawFor EXCEPT ![g][b] = 0]
      /\ paid' = [paid EXCEPT ![b] = @ + immediate]
      /\ UNCHANGED now
  BY DEF Withdraw
<1>3. /\ Column(b) \in [Groups -> Nat] /\ Owed \in [Beneficiaries -> Nat]
      /\ Owed[b] = Total(Column(b)) /\ n <= Owed[b] /\ Column(b)[g] = n
  BY <1>0, OwedFact DEF Column
<1>4. Owed' = [Owed EXCEPT ![b] = @ - n]
  <2>1. Owed' = [c \in Beneficiaries |-> Total([h \in Groups |-> toWithdrawFor'[h][c]])]
    BY DEF Owed
  <2>2. [h \in Groups |-> toWithdrawFor'[h][b]] = [Column(b) EXCEPT ![g] = 0]
    BY <1>0, <1>2, <1>3 DEF Column, TypeOK
  <2>3. Total([Column(b) EXCEPT ![g] = 0]) = Owed[b] - n
    <3> DEFINE owed == Column(b)
    <3> HIDE DEF n, owed
    <3>1. Total([owed EXCEPT ![g] = 0]) = Total(owed) - owed[g] + 0
      <4>1. 0 \in Nat /\ owed \in [Groups -> Nat] BY <1>3 DEF owed
      <4> QED BY <4>1, TotalExcept
    <3> USE DEF owed
    <3> QED BY <1>1, <1>3, <3>1
  <2>4. ASSUME NEW c \in Beneficiaries \ {b}
        PROVE  Total([h \in Groups |-> toWithdrawFor'[h][c]]) = Owed[c]
    <3>1. \A h \in Groups : toWithdrawFor'[h][c] = toWithdrawFor[h][c]
      BY <1>0, <1>2 DEF TypeOK
    <3>2. [h \in Groups |-> toWithdrawFor'[h][c]] = Column(c) BY <3>1 DEF Column
    <3> QED BY <1>0, <3>2, OwedFact
  <2> HIDE DEF n
  <2>5. \A c \in Beneficiaries : Owed'[c] = IF c = b THEN Owed[b] - n ELSE Owed[c]
    BY <2>1, <2>2, <2>3, <2>4
  <2>6. Owed' = [c \in Beneficiaries |-> Owed'[c]] BY <2>1
  <2> QED BY <1>3, <2>5, <2>6
<1>5. rest = n - immediate /\ (n = immediate <=> rest = 0)
  <2> HIDE DEF n, immediate, rest
  <2> QED BY <1>1
<1>6. bags' = IF n = immediate THEN bags
              ELSE [bags EXCEPT ![b] = ClaimsLedger!BagAdd(@, entry)]
  <2>1. CASE n = immediate
    <3>1. UNCHANGED pendingWithdrawals BY <1>5, <2>1 DEF Withdraw
    <3> QED BY <2>1, <3>1
  <2>2. CASE n # immediate
    <3>1. pendingWithdrawals' = [pendingWithdrawals EXCEPT ![b] = Append(@, entry)]
      BY <1>5, <2>2 DEF Withdraw
    <3>2. pendingWithdrawals \in [Beneficiaries -> Seq(PendingWithdrawal)]
      BY <1>0 DEF TypeOK
    <3>3. entry \in PendingWithdrawal
      <4>1. n - immediate \in Nat BY <1>1, <1>5
      <4> HIDE DEF n, immediate
      <4> QED BY <1>0, <4>1 DEF TypeOK, PendingWithdrawal
    <3> HIDE DEF entry
    <3>4. SeqExt!ToBag(Append(pendingWithdrawals[b], entry))
            = ClaimsLedger!BagAdd(SeqExt!ToBag(pendingWithdrawals[b]), entry)
      BY <3>2, <3>3, ArrayBagAppend
    <3>5. bags' = [c \in Beneficiaries |-> SeqExt!ToBag(pendingWithdrawals'[c])]
      OBVIOUS
    <3>6. bags' = [bags EXCEPT ![b] = ClaimsLedger!BagAdd(@, entry)]
      BY <3>1, <3>2, <3>4, <3>5
    <3> QED BY <2>2, <3>6
  <2> QED BY <2>1, <2>2
<1>7. ClaimsLedger!Settle(b, n, immediate)
  BY <1>2, <1>4, <1>6 DEF ClaimsLedger!Settle
<1>8. n \in 1 .. Owed[b] /\ immediate \in 0 .. n
  <2> HIDE DEF n, immediate, rest
  <2> QED BY <1>1, <1>2, <1>3
<1> HIDE DEF n, immediate
<1> QED BY <1>7, <1>8 DEF ClaimsLedger!Next

(* finishPendingWithdrawal releases a dated claim.                         *)
LEMMA FinishReleases ==
  ASSUME TypeOK, NEW b \in Beneficiaries, NEW i \in DOMAIN pendingWithdrawals[b],
         NEW k \in DOMAIN lockedPending, FinishPendingWithdrawal(b, i, k)
  PROVE  ClaimsLedger!Next
<1> DEFINE claim == pendingWithdrawals[b][i]
           bags == [c \in Beneficiaries |-> SeqExt!ToBag(pendingWithdrawals[c])]
<1>1. pendingWithdrawals \in [Beneficiaries -> Seq(PendingWithdrawal)]
  BY DEF TypeOK
<1>2. /\ claim.timestamp <= now
      /\ pendingWithdrawals' = [pendingWithdrawals EXCEPT ![b] = SwapRemove(@, i)]
      /\ paid' = [paid EXCEPT ![b] = @ + claim.value]
      /\ UNCHANGED <<toWithdrawFor, now>>
  BY DEF FinishPendingWithdrawal, ValidRequest, scheduled
<1>3. /\ claim \in DOMAIN SeqExt!ToBag(pendingWithdrawals[b])
      /\ SeqExt!ToBag(SwapRemove(pendingWithdrawals[b], i))
           = ClaimsLedger!BagRemove(SeqExt!ToBag(pendingWithdrawals[b]), claim)
  BY <1>1, ArrayBagRemove
<1>4. UNCHANGED Owed BY <1>2 DEF Owed
<1>5. bags' = [c \in Beneficiaries |-> SeqExt!ToBag(pendingWithdrawals'[c])]
  OBVIOUS
<1> HIDE DEF claim
<1>6. bags' = [bags EXCEPT ![b] = ClaimsLedger!BagRemove(@, claim)]
  BY <1>1, <1>2, <1>3, <1>5
<1>7. ClaimsLedger!Release(b, claim)
  BY <1>2, <1>4, <1>6 DEF ClaimsLedger!Release
<1>8. claim \in DOMAIN bags[b] BY <1>3
<1> QED BY <1>7, <1>8 DEF ClaimsLedger!Next

(* Time passes.                                                            *)
Clock ==
  /\ now' = now + 1
  /\ UNCHANGED <<scheduled, pendingWithdrawals, paused, balance, paid, nonvoting,
                 lockedPending, election, donated>>

(* The clock of the tasks' system is Claims' passage of time.              *)
LEMMA ClockTicks == Clock => ClaimsLedger!Next
BY DEF Clock, scheduled, ClaimsLedger!Next, ClaimsLedger!Tick, Owed

(* Every other step of the contract moves CELO that is nobody's claim.     *)
LEMMA ClaimsStep ==
  ASSUME IInv, Bounded, [Next]_vars
  PROVE  [ClaimsLedger!Next]_(ClaimsLedger!vars)
<1>0. TypeOK BY DEF IInv
<1>1. CASE ManagerStep
  <2>1. ASSUME NEW votes \in Allocations, ScheduleVotes(votes)
        PROVE  UNCHANGED ClaimsLedger!vars
    BY <2>1, ClaimsSame DEF ScheduleVotes
  <2>2. ASSUME NEW from \in Allocations, NEW to \in Allocations, ScheduleTransfer(from, to)
        PROVE  UNCHANGED ClaimsLedger!vars
    BY <2>2, ClaimsSame DEF ScheduleTransfer
  <2> QED BY <1>1, <2>1, <2>2, SchedulePromises DEF ManagerStep
<1>2. CASE BotStep
  <2>1. ASSUME NEW g \in Groups, ActivateAndVote(g) \/ RevokeVotes(g)
        PROVE  UNCHANGED ClaimsLedger!vars
    BY <2>1, ClaimsSame DEF ActivateAndVote, RevokeVotes
  <2> QED BY <1>0, <1>2, <2>1, WithdrawSettles, FinishReleases DEF BotStep
<1>3. CASE EnvironmentStep
  <2>1. CASE Tick
    <3>1. Clock BY <2>1 DEF Tick, Clock
    <3> QED BY <3>1, ClockTicks
  <2>2. ASSUME NEW value \in 1 .. MaxCelo, Receive(value)
        PROVE  UNCHANGED ClaimsLedger!vars
    BY <2>2, ClaimsSame DEF Receive, scheduled
  <2>3. ASSUME NEW rewards \in Allocations, NextEpoch(rewards)
        PROVE  UNCHANGED ClaimsLedger!vars
    BY <2>3, ClaimsSame DEF NextEpoch, scheduled
  <2>4. ASSUME NEW g \in Groups, VotableChange(g)
        PROVE  UNCHANGED ClaimsLedger!vars
    BY <2>4, ClaimsSame DEF VotableChange, scheduled
  <2>5. CASE Pause \/ Unpause
    BY <2>5, ClaimsSame DEF Pause, Unpause, scheduled
  <2> QED BY <1>3, <2>1, <2>2, <2>3, <2>4, <2>5 DEF EnvironmentStep
<1>4. CASE UNCHANGED vars
  BY <1>4, ClaimsSame DEF vars, scheduled
<1> QED BY <1>1, <1>2, <1>3, <1>4 DEF Next

(* Nobody is owed anything at first.                                       *)
LEMMA ClaimsInit == Init => ClaimsLedger!Init
<1> SUFFICES ASSUME Init PROVE ClaimsLedger!Init
  OBVIOUS
<1>1. Owed = [b \in Beneficiaries |-> 0]
  <2>1. \A b \in Beneficiaries : [g \in Groups |-> toWithdrawFor[g][b]] = [g \in Groups |-> 0]
    BY DEF Init
  <2>2. Total([g \in Groups |-> 0]) = 0 BY TotalZero
  <2> QED BY <2>1, <2>2 DEF Owed
<1>2. [b \in Beneficiaries |-> SeqExt!ToBag(pendingWithdrawals[b])]
        = [b \in Beneficiaries |-> ClaimsLedger!EmptyBag]
  BY ArrayBagEmpty DEF Init
<1> QED BY <1>1, <1>2 DEF Init, ClaimsLedger!Init

(* IInv and what rests on it: the bound on the CELO in the system and the  *)
(* pairing of the two arrays of pending withdrawals.                       *)
AccountInv == IInv /\ Bounded /\ AllMatched

(* What follows from IInv in any state, to be used of the next one.        *)
Derived == IInv => CeloAttributed /\ \A g \in Groups : getCeloForGroup(g) = Free(g)

(* IInv implies in any state what Derived says.                            *)
LEMMA DerivedHolds == Derived
BY AttributedIfInvariant, FreeFact DEF Derived, IInv, Safe

(* The invariant of Account holds at first.                                *)
LEMMA AccountInit == Init => AccountInv
BY InitInvariant, BoundedInit, MatchedInit DEF AccountInv

(* In a step that anyone may take each group keeps its CELO, and so the    *)
(* contract and the beneficiaries keep theirs.                             *)
LEMMA BotsKeep ==
  ASSUME IInv, IInv', Derived', BotStep
  PROVE  /\ \A g \in Groups : getCeloForGroup(g)' = getCeloForGroup(g)
         /\ IssuedCelo' = IssuedCelo
<1>1. TypeOK' BY DEF IInv
<1>2. CeloAttributed' /\ \A g \in Groups : getCeloForGroup(g)' = Free(g)'
  BY DEF Derived
<1>3. \A g \in Groups : getCeloForGroup(g) = Free(g)
  BY FreeFact DEF IInv, Safe
<1>4. \A g \in Groups : Free(g)' = Free(g)
  BY <1>1, WithdrawStep, ActivateAndVoteStep, RevokeVotesStep,
     FinishPendingWithdrawalStep DEF BotStep
<1>5. \A g \in Groups : getCeloForGroup(g)' = getCeloForGroup(g)
  BY <1>2, <1>3, <1>4
<1> QED BY <1>1, <1>2, <1>5, BotsIssueNothing

(* Every step of Account preserves its invariant.                          *)
LEMMA AccountStep == AccountInv /\ Derived' /\ [Next]_vars => AccountInv'
<1> SUFFICES ASSUME AccountInv, Derived', [Next]_vars PROVE AccountInv'
  OBVIOUS
<1>1. IInv' BY StepInvariant DEF AccountInv
<1>2. AllMatched' BY MatchedStep DEF AccountInv, IInv
<1>3. TypeOK' /\ CeloAttributed' BY <1>1 DEF IInv, Derived
<1>4. Bounded' BY <1>1, <1>3, BotsKeep, BoundedStep DEF AccountInv
<1> QED BY <1>1, <1>2, <1>4 DEF AccountInv

(* Time alone disturbs nothing.                                            *)
LEMMA ClockStep == AccountInv /\ Clock => AccountInv'
<1> SUFFICES ASSUME AccountInv, Clock PROVE AccountInv'
  OBVIOUS
<1>1. TypeOK'
  BY DEF AccountInv, IInv, Clock, TypeOK, scheduled, election
<1>2. Safe' BY IdleStep DEF AccountInv, Clock, scheduled, election
<1>3. Bounded' BY IssuedSame DEF AccountInv, Clock, election, Bounded
<1>4. AllMatched' BY DEF AccountInv, Clock, AllMatched, Shares
<1> QED BY <1>1, <1>2, <1>3, <1>4 DEF AccountInv, IInv

(* Every entry of either array is an entry there might be.                 *)
LEMMA MatchedIfInvariant == AccountInv => PendingMatched
<1> SUFFICES ASSUME AccountInv PROVE PendingMatched
  OBVIOUS
<1>1. /\ lockedPending \in Seq(PendingWithdrawal)
      /\ \A b \in Beneficiaries : pendingWithdrawals[b] \in Seq(PendingWithdrawal)
  BY DEF AccountInv, IInv, TypeOK
<1> DEFINE arrays == {pendingWithdrawals[b] : b \in Beneficiaries} \cup {lockedPending}
           entries == UNION {{s[i] : i \in DOMAIN s} : s \in arrays}
<1>2. arrays \subseteq Seq(PendingWithdrawal) BY <1>1
<1>3. entries \subseteq PendingWithdrawal
  <2> HIDE DEF arrays
  <2>1. ASSUME NEW s \in arrays, NEW i \in DOMAIN s PROVE s[i] \in PendingWithdrawal
    <3>1. s \in Seq(PendingWithdrawal) BY <1>2
    <3> QED BY <3>1
  <2> QED BY <2>1
<1>4. \A e \in PendingWithdrawal :
        Occurrences(lockedPending, e)
          = Total([b \in Beneficiaries |-> Occurrences(pendingWithdrawals[b], e)])
  BY DEF AccountInv, AllMatched, Shares
<1>5. \A e \in entries :
        Occurrences(lockedPending, e)
          = Total([b \in Beneficiaries |-> Occurrences(pendingWithdrawals[b], e)])
  BY <1>3, <1>4
<1> QED BY <1>5 DEF PendingMatched

(* The invariant holds throughout: types, books that agree with the votes, *)
(* CELO within the bound, and equal entries in the two arrays of pending   *)
(* withdrawals.                                                            *)
THEOREM AccountAlways == Spec => []AccountInv
<1> QED BY DerivedHolds, AccountInit, AccountStep, PTL DEF Spec

(* The arrays of Account and of LockedGold hold the same entries           *)
(* (withdraw, finishPendingWithdrawal).                                    *)
THEOREM AlwaysMatched == Spec => []PendingMatched
<1> QED BY AccountAlways, MatchedIfInvariant, PTL

(* What anyone may call moves CELO between balance, locked gold, votes,    *)
(* pending withdrawals and the beneficiaries: none is created or lost.     *)
THEOREM BotsConserve == Spec => [][BotStep => IssuedCelo' = IssuedCelo]_vars
<1>1. IInv /\ IInv' /\ Derived' => [BotStep => IssuedCelo' = IssuedCelo]_vars
  BY BotsKeep
<1> QED BY <1>1, Invariant, DerivedHolds, PTL

(* Account implements Claims.                                              *)
THEOREM ClaimsKept == Spec => ImplementsClaims
<1>1. AccountInv /\ [Next]_vars => [ClaimsLedger!Next]_(ClaimsLedger!vars)
  BY ClaimsStep DEF AccountInv
<1> QED BY <1>1, ClaimsInit, AccountAlways, PTL DEF Spec, ImplementsClaims, ClaimsLedger!Spec

----------------------------------------------------------------------------
(* The tasks: what they read, and where they stand.                        *)
USE NoGroupAssumption, MaxSkewAssumption

(* The first of some places.                                               *)
LEMMA FirstFact ==
  ASSUME NEW S, S \subseteq Nat, S # {}
  PROVE  First(S) \in S /\ \A i \in S : First(S) <= i
BY MinExists DEF First

(* Dropping repetitions keeps every group.                                 *)
LEMMA WithoutDuplicatesFact ==
  ASSUME NEW S, NEW s \in Seq(S)
  PROVE  /\ WithoutDuplicates(s) \in Seq(S)
         /\ SeqExt!ToSet(WithoutDuplicates(s)) = SeqExt!ToSet(s)
<1> DEFINE firsts == {i \in DOMAIN s : \A j \in 1 .. i - 1 : s[j] # s[i]}
           upTo(i) == {j \in firsts : j <= i}
           rank(i) == Cardinality(upTo(i))
           n == Cardinality(firsts)
           nth(m) == CHOOSE i \in firsts : rank(i) = m
           r == WithoutDuplicates(s)
<1>1. firsts \subseteq 1 .. Len(s) /\ IsFiniteSet(firsts) /\ Len(s) \in Nat
  <2>1. Len(s) \in Nat /\ DOMAIN s = 1 .. Len(s) OBVIOUS
  <2>2. IsFiniteSet(1 .. Len(s)) BY <2>1, FS_Interval
  <2> QED BY <2>1, <2>2, FS_Subset
<1>2. r = [m \in 1 .. n |-> s[nth(m)]]
  BY DEF WithoutDuplicates
<1>3. ASSUME NEW i \in 1 .. Len(s)
      PROVE  \E k \in firsts : s[k] = s[i]
  <2> DEFINE places == {k \in 1 .. Len(s) : s[k] = s[i]}
  <2>1. i \in places /\ places \subseteq Nat OBVIOUS
  <2>2. PICK k \in places : \A j \in places : k <= j
    BY <2>1, MinExists
  <2>3. \A j \in 1 .. k - 1 : s[j] # s[k]
    BY <1>1, <2>2
  <2> QED BY <2>2, <2>3
<1>4. s \in [1 .. Len(s) -> S] OBVIOUS
<1> HIDE DEF firsts, r
<1>5. n \in Nat BY <1>1, FS_CardinalityType
<1>6. ASSUME NEW i \in firsts PROVE rank(i) \in 1 .. n
  <2>1. upTo(i) \subseteq firsts /\ i \in upTo(i)
    BY <1>1
  <2>2. IsFiniteSet(upTo(i)) /\ rank(i) <= n BY <1>1, <2>1, FS_Subset
  <2>3. rank(i) \in Nat /\ rank(i) # 0
    <3> HIDE DEF upTo
    <3>1. Cardinality(upTo(i)) \in Nat BY <2>2, FS_CardinalityType
    <3>2. Cardinality(upTo(i)) # 0 BY <2>1, <2>2, FS_EmptySet
    <3> QED BY <3>1, <3>2
  <2> HIDE DEF rank, n
  <2> QED BY <1>5, <2>2, <2>3
<1>7. ASSUME NEW i \in firsts, NEW k \in firsts, i < k PROVE rank(i) # rank(k)
  <2>0. \A j \in firsts : j \in Nat BY <1>1
  <2>1. upTo(i) \subseteq upTo(k) /\ k \in upTo(k) /\ k \notin upTo(i)
    <3>1. \A j \in firsts : j <= i => j <= k BY <1>7, <2>0
    <3>2. k <= k /\ ~(k <= i) BY <1>7, <2>0
    <3> QED BY <3>1, <3>2
  <2>2. IsFiniteSet(upTo(k))
    <3>1. upTo(k) \subseteq firsts OBVIOUS
    <3> QED BY <1>1, <3>1, FS_Subset
  <2> HIDE DEF upTo
  <2> QED BY <2>1, <2>2, FS_Subset
<1>8. \A i, k \in firsts : rank(i) = rank(k) => i = k
  <2> HIDE DEF rank
  <2> QED BY <1>1, <1>7
<1>9. \A m \in 1 .. n : \E i \in firsts : rank(i) = m
  <2> DEFINE f == [i \in firsts |-> rank(i)]
  <2>1. IsFiniteSet(1 .. n) /\ Cardinality(1 .. n) = n
    BY <1>5, FS_Interval
  <2>2. f \in Injection(firsts, 1 .. n)
    <3> HIDE DEF rank, n
    <3> QED BY <1>6, <1>8 DEF Injection, IsInjective
  <2>3. f \in Surjection(firsts, 1 .. n)
    <3> HIDE DEF f
    <3> QED BY <2>1, <2>2, FS_Injection
  <2>4. \A m \in 1 .. n : \E i \in firsts : f[i] = m
    <3> HIDE DEF f, n
    <3> QED BY <2>3 DEF Surjection
  <2> HIDE DEF rank, n
  <2> QED BY <2>4
<1>10. \A m \in 1 .. n : nth(m) \in firsts
  <2> HIDE DEF rank, n
  <2> QED BY <1>9
<1>11. \A i \in firsts : nth(rank(i)) = i
  <2> HIDE DEF rank, n
  <2> QED BY <1>8
<1> HIDE DEF rank, n, nth
<1>12. r \in Seq(S) /\ DOMAIN r = 1 .. n
  <2>1. \A m \in 1 .. n : s[nth(m)] \in S BY <1>1, <1>4, <1>10
  <2>2. r \in [1 .. n -> S] BY <1>2, <2>1
  <2> QED BY <1>5, <2>2
<1>13. SeqExt!ToSet(r) = {r[m] : m \in 1 .. n} /\ SeqExt!ToSet(s) = {s[i] : i \in 1 .. Len(s)}
  BY <1>12 DEF SeqExt!ToSet
<1>14. \A i \in 1 .. Len(s) : \E m \in 1 .. n : r[m] = s[i]
  <2> TAKE i \in 1 .. Len(s)
  <2>1. PICK k \in firsts : s[k] = s[i] BY <1>3
  <2>2. rank(k) \in 1 .. n /\ r[rank(k)] = s[k] BY <1>2, <1>6, <1>11
  <2> QED BY <2>1, <2>2
<1>15. \A m \in 1 .. n : \E i \in 1 .. Len(s) : r[m] = s[i]
  BY <1>1, <1>2, <1>10
<1> QED BY <1>12, <1>13, <1>14, <1>15 DEF r

(* No entry occurs at two places.                                          *)
NoRepetition(s) == \A i, j \in DOMAIN s : s[i] = s[j] => i = j

(* Taking one entry out of a sequence without repetitions leaves one.      *)
LEMMA RemoveAtFact ==
  ASSUME NEW S, NEW s \in Seq(S), NoRepetition(s), NEW i \in DOMAIN s
  PROVE  /\ SeqExt!RemoveAt(s, i) \in Seq(S)
         /\ NoRepetition(SeqExt!RemoveAt(s, i))
<1> DEFINE n == Len(s)
           r == SeqExt!RemoveAt(s, i)
<1>1. n \in Nat /\ i \in 1 .. n /\ DOMAIN s = 1 .. n OBVIOUS
<1>2. /\ SubSeq(s, 1, i - 1) \in Seq(S) /\ Len(SubSeq(s, 1, i - 1)) = i - 1
      /\ SubSeq(s, i + 1, n) \in Seq(S) /\ Len(SubSeq(s, i + 1, n)) = n - i
      /\ \A j \in 1 .. i - 1 : SubSeq(s, 1, i - 1)[j] = s[j]
      /\ \A j \in 1 .. n - i : SubSeq(s, i + 1, n)[j] = s[i + j]
  BY <1>1
<1>3. r = SubSeq(s, 1, i - 1) \o SubSeq(s, i + 1, n)
  BY DEF SeqExt!RemoveAt
<1>4. /\ r \in Seq(S) /\ Len(r) = n - 1
      /\ \A j \in 1 .. n - 1 : r[j] = IF j < i THEN s[j] ELSE s[j + 1]
  <2> DEFINE a == SubSeq(s, 1, i - 1)
             b == SubSeq(s, i + 1, n)
  <2>1. /\ a \in Seq(S) /\ b \in Seq(S) /\ Len(a) = i - 1 /\ Len(b) = n - i
        /\ \A j \in 1 .. i - 1 : a[j] = s[j]
        /\ \A j \in 1 .. n - i : b[j] = s[i + j]
    BY <1>2
  <2> HIDE DEF a, b
  <2>2. /\ a \o b \in Seq(S) /\ Len(a \o b) = Len(a) + Len(b)
        /\ \A j \in 1 .. Len(a) + Len(b) : (a \o b)[j] = IF j <= Len(a) THEN a[j] ELSE b[j - Len(a)]
    BY <2>1
  <2>3. Len(a) + Len(b) = n - 1 BY <1>1, <2>1
  <2>4. ASSUME NEW j \in 1 .. n - 1
        PROVE  (a \o b)[j] = IF j < i THEN s[j] ELSE s[j + 1]
    <3>1. CASE j < i BY <1>1, <2>1, <2>2, <2>3, <3>1
    <3>2. CASE j >= i
      <4> DEFINE d == j - (i - 1)
      <4>1. d \in 1 .. n - i /\ i + d = j + 1 /\ j - Len(a) = d /\ ~(j <= Len(a))
        BY <1>1, <2>1, <3>2
      <4>2. (a \o b)[j] = b[j - Len(a)] BY <2>2, <2>3, <4>1
      <4> HIDE DEF d
      <4>3. b[d] = s[j + 1] BY <2>1, <4>1
      <4>4. ~(j < i) BY <1>1, <3>2
      <4>5. (a \o b)[j] = b[d] BY <4>1, <4>2, Zenon
      <4> QED BY <4>3, <4>4, <4>5
    <3>3. j < i \/ j >= i BY <1>1
    <3> QED BY <3>1, <3>2, <3>3
  <2> QED BY <1>3, <2>2, <2>3, <2>4 DEF a, b
<1> HIDE DEF r
<1>5. NoRepetition(r)
  <2> SUFFICES ASSUME NEW j \in 1 .. n - 1, NEW k \in 1 .. n - 1, r[j] = r[k] PROVE j = k
    BY <1>4 DEF NoRepetition
  <2>1. \A a, b \in 1 .. n : s[a] = s[b] => a = b BY <1>1 DEF NoRepetition
  <2> QED BY <1>1, <1>4, <2>1
<1> QED BY <1>4, <1>5 DEF r

(* The tasks that are run for a beneficiary.                               *)
LEMMA TaskFact ==
  ASSUME NEW t \in Tasks
  PROVE  /\ t[1] \in {"activateAndVote", "revoke", "withdraw", "finishPendingWithdrawals"}
         /\ t[1] \in {"withdraw", "finishPendingWithdrawals"} => t[2] \in Beneficiaries
BY DEF Tasks, ActivateAndVoteTask, RevokeTask, WithdrawTask, FinishPendingWithdrawalTask

(* Where a run can be, and what it has read by then.                       *)
RunOK ==
  /\ run \in [task : Tasks \cup {<<"none">>},
              at : {"idle", "length", "head", "walk", "check", "send", "local", "locked"},
              left : Nat, key : Groups \cup {NoGroup}, groups : Seq(Groups \cup {NoGroup}),
              entry : PendingWithdrawal \cup {<<>>}, index : Seq(Nat)]
  /\ run.at # "idle" => run.task \in Tasks
  /\ run.at \in {"local", "locked"} => Kind = "finishPendingWithdrawals"
  /\ run.at = "send" /\ Kind # "finishPendingWithdrawals" => Head(run.groups) \in Groups

(* The list of the default strategy holds no group twice.                  *)
ListsOK ==
  /\ activeGroups \in Seq(Groups)
  /\ votedGroups \in Seq(Groups)
  /\ NoRepetition(activeGroups)
  /\ bounds \in Bounds
  /\ listStable \in BOOLEAN
  /\ upToDate \in BOOLEAN

(* What other callers and the environment do while a task waits.           *)
Elsewhere ==
  \/ OtherCaller \/ ManagerCall \/ ReorderGroups \/ Wait \/ ElectionChange
  \/ \E g \in Groups : DepositWithStrategy(g) \/ ActivateGroup(g) \/ DeactivateGroup(g)

(* A step outside the running task leaves the task as it is; if it changes *)
(* the list of active groups, it reorders it, or one group joins or        *)
(* leaves.                                                                 *)
LEMMA ElsewhereMeanwhile ==
  ASSUME Elsewhere
  PROVE  /\ Meanwhile
         /\ \/ UNCHANGED <<activeGroups, listStable>>
            \/ ListChanged /\ \/ ReorderGroups
                              \/ \E g \in Groups : ActivateGroup(g) \/ DeactivateGroup(g)
<1>1. CASE OtherCaller \/ ManagerCall \/ Wait \/ ElectionChange
  BY <1>1 DEF OtherCaller, ManagerCall, Wait, ElectionChange, ListKept, strategies
<1>2. CASE ReorderGroups BY <1>2 DEF ReorderGroups
<1>3. ASSUME NEW g \in Groups, DepositWithStrategy(g) \/ ActivateGroup(g) \/ DeactivateGroup(g)
      PROVE  /\ Meanwhile
             /\ \/ UNCHANGED <<activeGroups, listStable>>
                \/ ListChanged /\ (ActivateGroup(g) \/ DeactivateGroup(g))
  BY <1>3 DEF DepositWithStrategy, ActivateGroup, DeactivateGroup
<1> QED BY <1>1, <1>2, <1>3 DEF Elsewhere

(* A task's own steps leave the lists alone.                               *)
LEMMA RunKeepsLists ==
  ASSUME (\E t \in Tasks : Start(t)) \/ RunStep \/ Crash
  PROVE  UNCHANGED strategies
BY DEF Start, RunStep, Crash, Fail, Reads, ReadLength, ReadHead, ReadPrevious, ReadVotedGroups,
       Check, NoIndex, GroupsDone, SendVote, SendRevoke, SendWithdraw, Sent, Refused,
       ReadLocal, ReadLocked, NoMatch, SendFinish, FinishRefused

(* Every step keeps the lists of groups what they are, and without         *)
(* repetitions.                                                            *)
LEMMA ListsStep ==
  ASSUME ListsOK, [BotNext]_botVars
  PROVE  ListsOK'
<1>1. listStable' \in BOOLEAN /\ upToDate' \in BOOLEAN
  <2>1. ASSUME (\E t \in Tasks : Start(t)) \/ RunStep \/ Crash
        PROVE  listStable' \in BOOLEAN /\ upToDate' \in BOOLEAN
    BY <2>1 DEF Start, RunStep, Crash, Fail, ReadLength, ReadHead, ReadPrevious, ReadVotedGroups,
           Check, NoIndex, GroupsDone, SendVote, SendRevoke, SendWithdraw, Sent, Refused,
           ReadLocal, ReadLocked, NoMatch, SendFinish, FinishRefused, ListsOK
  <2>2. ASSUME Elsewhere PROVE listStable' \in BOOLEAN /\ upToDate' \in BOOLEAN
    BY <2>2, ElsewhereMeanwhile DEF Meanwhile, ListChanged, ListsOK
  <2>3. ASSUME UNCHANGED botVars PROVE listStable' \in BOOLEAN /\ upToDate' \in BOOLEAN
    BY <2>3 DEF botVars, ListsOK
  <2> QED BY <2>1, <2>2, <2>3 DEF BotNext, Elsewhere
<1>2. votedGroups' \in Seq(Groups)
  <2>1. ASSUME NEW g \in Groups, DepositWithStrategy(g) PROVE votedGroups' \in Seq(Groups)
    BY <2>1 DEF DepositWithStrategy, ListsOK
  <2>2. CASE UNCHANGED votedGroups BY <2>2 DEF ListsOK
  <2>3. UNCHANGED votedGroups \/ \E g \in Groups : DepositWithStrategy(g)
    BY RunKeepsLists DEF BotNext, botVars, strategies, OtherCaller, ManagerCall, ReorderGroups,
                         Wait, ElectionChange, ListKept, ActivateGroup, DeactivateGroup
  <2> QED BY <2>1, <2>2, <2>3
<1>3. activeGroups' \in Seq(Groups) /\ NoRepetition(activeGroups')
  <2>1. CASE UNCHANGED activeGroups BY <2>1 DEF ListsOK
  <2>2. ASSUME NEW g \in Groups, ActivateGroup(g)
        PROVE  activeGroups' \in Seq(Groups) /\ NoRepetition(activeGroups')
    <3>1. /\ activeGroups \in Seq(Groups) /\ NoRepetition(activeGroups)
          /\ activeGroups' = Append(activeGroups, g)
          /\ \A i \in DOMAIN activeGroups : activeGroups[i] # g
      BY <2>2 DEF ActivateGroup, ListsOK, SeqExt!Contains
    <3>2. NoRepetition(Append(activeGroups, g))
      BY <3>1 DEF NoRepetition
    <3> QED BY <3>1, <3>2
  <2>3. ASSUME NEW g \in Groups, DeactivateGroup(g)
        PROVE  activeGroups' \in Seq(Groups) /\ NoRepetition(activeGroups')
    BY <2>3, RemoveAtFact DEF DeactivateGroup, ListsOK
  <2>4. ASSUME ReorderGroups
        PROVE  activeGroups' \in Seq(Groups) /\ NoRepetition(activeGroups')
    <3>1. PICK i \in 1 .. Len(activeGroups) - 1 :
            activeGroups' = [activeGroups EXCEPT ![i] = activeGroups[i + 1],
                                                 ![i + 1] = activeGroups[i]]
      BY <2>4 DEF ReorderGroups
    <3>2. /\ activeGroups \in Seq(Groups) /\ NoRepetition(activeGroups)
          /\ Len(activeGroups) \in Nat /\ i \in 1 .. Len(activeGroups)
          /\ i + 1 \in 1 .. Len(activeGroups)
      BY DEF ListsOK
    <3>3. /\ DOMAIN activeGroups' = DOMAIN activeGroups
          /\ activeGroups' \in Seq(Groups)
          /\ \A j \in DOMAIN activeGroups :
               activeGroups'[j] = activeGroups[IF j = i THEN i + 1 ELSE IF j = i + 1 THEN i ELSE j]
      BY <3>1, <3>2
    <3>4. \A j, k \in DOMAIN activeGroups : activeGroups[j] = activeGroups[k] => j = k
      BY <3>2 DEF NoRepetition
    <3>5. ASSUME NEW j \in DOMAIN activeGroups, NEW k \in DOMAIN activeGroups,
                 activeGroups'[j] = activeGroups'[k]
          PROVE  j = k
      BY <3>2, <3>3, <3>4, <3>5
    <3> QED BY <3>3, <3>5 DEF NoRepetition
  <2>5. \/ UNCHANGED activeGroups
        \/ ReorderGroups
        \/ \E g \in Groups : ActivateGroup(g) \/ DeactivateGroup(g)
    BY RunKeepsLists DEF BotNext, botVars, strategies, OtherCaller, ManagerCall,
                         Wait, ElectionChange, ListKept, DepositWithStrategy
  <2> QED BY <2>1, <2>2, <2>3, <2>4, <2>5
<1>4. bounds' \in Bounds
  <2>1. UNCHANGED bounds
    BY RunKeepsLists DEF BotNext, botVars, strategies, OtherCaller, ManagerCall, ReorderGroups,
                         Wait, ElectionChange, ListKept, DepositWithStrategy, ActivateGroup,
                         DeactivateGroup
  <2> QED BY <2>1 DEF ListsOK
<1> QED BY <1>1, <1>2, <1>3, <1>4 DEF ListsOK

(* An entry of the beneficiary's array, read in two lists.                 *)
LEMMA LocalFact ==
  ASSUME TypeOK, Beneficiary \in Beneficiaries, NEW clock \in Int, DueAt(clock) # {}
  PROVE  /\ First(DueAt(clock)) \in DOMAIN pendingWithdrawals[Beneficiary]
         /\ First(DueAt(clock)) \in Nat
         /\ LocalEntry(First(DueAt(clock)))
              = pendingWithdrawals[Beneficiary][First(DueAt(clock))]
         /\ LocalEntry(First(DueAt(clock))) \in PendingWithdrawal
<1> DEFINE s == pendingWithdrawals[Beneficiary]
           i == First(DueAt(clock))
<1>1. s \in Seq(PendingWithdrawal) BY DEF TypeOK
<1>2. DueAt(clock) \subseteq DOMAIN s /\ DueAt(clock) \subseteq Nat
  BY <1>1 DEF DueAt
<1>3. i \in DOMAIN s /\ i \in Nat BY <1>2, FirstFact
<1>4. s[i] \in PendingWithdrawal BY <1>1, <1>3
<1>5. LocalEntry(i) = [value |-> s[i].value, timestamp |-> s[i].timestamp]
  BY DEF LocalEntry
<1> HIDE DEF i, s
<1>6. LocalEntry(i) = s[i] BY <1>4, <1>5 DEF PendingWithdrawal
<1> QED BY <1>3, <1>4, <1>6 DEF i, s

(* A group read from the list, or ADDRESS_ZERO.                            *)
LEMMA ListReads ==
  ASSUME ListsOK
  PROVE  /\ GroupsHead \in Groups \cup {NoGroup}
         /\ \A g : PreviousGroup(g) \in Groups \cup {NoGroup}
<1>1. activeGroups \in Seq(Groups) BY DEF ListsOK
<1>2. ASSUME NEW g PROVE PreviousGroup(g) \in Groups \cup {NoGroup}
  <2> DEFINE places == {i \in 1 .. Len(activeGroups) - 1 : activeGroups[i] = g}
  <2>1. CASE places = {} BY <2>1 DEF PreviousGroup
  <2>2. CASE places # {}
    <3>1. places \subseteq Nat OBVIOUS
    <3>2. First(places) \in places BY <2>2, <3>1, FirstFact
    <3> DEFINE i == First(places)
    <3>3. i \in 1 .. Len(activeGroups) - 1 BY <3>2
    <3>4. PreviousGroup(g) = activeGroups[1 + i] BY <2>2 DEF PreviousGroup
    <3> HIDE DEF i
    <3>5. activeGroups[1 + i] \in Groups BY <1>1, <3>3
    <3> QED BY <3>4, <3>5
  <2> QED BY <2>1, <2>2
<1> QED BY <1>1, <1>2 DEF GroupsHead

(* Every step keeps the running task's record well-formed.                 *)
LEMMA RunStepOK ==
  ASSUME TypeOK, RunOK, ListsOK, [BotNext]_botVars
  PROVE  RunOK'
<1> DEFINE RunType == [task : Tasks \cup {<<"none">>},
              at : {"idle", "length", "head", "walk", "check", "send", "local", "locked"},
              left : Nat, key : Groups \cup {NoGroup}, groups : Seq(Groups \cup {NoGroup}),
              entry : PendingWithdrawal \cup {<<>>}, index : Seq(Nat)]
<1>0. run \in RunType /\ (run.at # "idle" => run.task \in Tasks)
  BY DEF RunOK
<1>1. ASSUME run' = Idle PROVE RunOK'
  BY <1>1 DEF Idle, RunOK
<1>2. ASSUME NEW t \in Tasks, Start(t) PROVE RunOK'
  <2> DEFINE first == IF t[1] = "finishPendingWithdrawals" THEN "local" ELSE "length"
  <2>1. run' = [task |-> t, at |-> first, left |-> 0, key |-> NoGroup,
                groups |-> <<>>, entry |-> <<>>, index |-> <<>>]
    BY <1>2 DEF Start, Idle
  <2>2. run' \in RunType /\ run'.task = t /\ run'.at = first BY <2>1
  <2> HIDE DEF RunType
  <2> QED BY <2>2 DEF RunOK, Kind, RunType
<1>3. ASSUME ReadLength \/ ReadHead \/ ReadPrevious PROVE RunOK'
  <2>1. GroupsHead \in Groups \cup {NoGroup} /\ PreviousGroup(run.key) \in Groups \cup {NoGroup}
        /\ Len(activeGroups) \in Nat
    BY ListReads DEF ListsOK
  <2>2. run' \in RunType /\ run'.task = run.task /\ run'.at \in {"head", "walk"} /\ run.at # "idle"
    <3>1. CASE ReadLength BY <1>0, <2>1, <3>1 DEF ReadLength
    <3>2. CASE ReadHead BY <1>0, <2>1, <3>2 DEF ReadHead
    <3>3. CASE ReadPrevious
      <4>1. /\ run.left > 0 /\ run.at = "walk"
            /\ run' = [run EXCEPT !.groups = Append(run.groups, run.key), !.left = run.left - 1,
                                  !.key = PreviousGroup(run.key)]
        BY <3>3 DEF ReadPrevious
      <4>2. Append(run.groups, run.key) \in Seq(Groups \cup {NoGroup}) /\ run.left - 1 \in Nat
        BY <1>0, <4>1
      <4> QED BY <1>0, <2>1, <4>1, <4>2
    <3> QED BY <1>3, <3>1, <3>2, <3>3
  <2> HIDE DEF RunType
  <2> QED BY <1>0, <2>2 DEF RunOK, Kind, RunType
<1>4. ASSUME ReadVotedGroups PROVE RunOK'
  <2> DEFINE all == run.groups \o votedGroups
  <2>1. /\ run.at = "walk"
        /\ run' = [run EXCEPT !.at = "check", !.key = NoGroup, !.groups = WithoutDuplicates(all)]
    BY <1>4 DEF ReadVotedGroups
  <2>2. all \in Seq(Groups \cup {NoGroup})
    BY <1>0 DEF ListsOK
  <2> HIDE DEF all
  <2>3. WithoutDuplicates(all) \in Seq(Groups \cup {NoGroup})
    BY <2>2, WithoutDuplicatesFact
  <2>4. run' \in RunType /\ run'.task = run.task /\ run'.at = "check"
    BY <1>0, <2>1, <2>3
  <2> HIDE DEF RunType
  <2> QED BY <1>0, <2>1, <2>4 DEF RunOK, Kind, RunType
<1>5. ASSUME Check PROVE RunOK'
  <2>1. CASE run' = [run EXCEPT !.groups = Tail(@)] /\ run.at = "check" /\ run.groups # <<>>
    <3>1. run' \in RunType /\ run'.task = run.task /\ run'.at = "check"
      <4>1. run.groups \in Seq(Groups \cup {NoGroup}) BY <1>0
      <4>2. Tail(run.groups) \in Seq(Groups \cup {NoGroup}) BY <2>1, <4>1
      <4> QED BY <1>0, <2>1, <4>2
    <3> HIDE DEF RunType
    <3> QED BY <1>0, <2>1, <3>1 DEF RunOK, Kind, RunType
  <2>2. CASE run' = [run EXCEPT !.at = "send"] /\ run.at = "check" /\ NeedsTransaction(Head(run.groups))
    <3>1. run' \in RunType /\ run'.task = run.task /\ run'.at = "send" /\ run'.groups = run.groups
      BY <1>0, <2>2
    <3>2. Head(run.groups) \in Groups BY <2>2 DEF NeedsTransaction
    <3> HIDE DEF RunType
    <3> QED BY <1>0, <2>2, <3>1, <3>2 DEF RunOK, Kind, RunType
  <2> QED BY <1>5, <2>1, <2>2 DEF Check
<1>6. ASSUME Sent, run.at = "send" PROVE RunOK'
  <2>1. run' = [run EXCEPT !.at = "check", !.groups = Tail(@)]
    BY <1>6 DEF Sent
  <2>2. ASSUME NEW s \in Seq(Groups \cup {NoGroup}) PROVE Tail(s) \in Seq(Groups \cup {NoGroup})
    <3>1. CASE s = <<>> BY <3>1
    <3>2. CASE s # <<>> BY <3>2
    <3> QED BY <3>1, <3>2
  <2>3. run' \in RunType /\ run'.task = run.task /\ run'.at = "check"
    BY <1>0, <2>1, <2>2
  <2> HIDE DEF RunType
  <2> QED BY <1>0, <1>6, <2>3 DEF RunOK, Kind, RunType
<1>7. ASSUME ReadLocal PROVE RunOK'
  <2>1. run.at = "local" /\ Kind = "finishPendingWithdrawals" /\ Beneficiary \in Beneficiaries
    BY <1>7, TaskFact DEF ReadLocal, RunOK, Kind, Beneficiary
  <2>2. PICK clock \in (now - MaxSkew) .. (now + MaxSkew) :
          IF DueAt(clock) = {} THEN run' = Idle
          ELSE LET i == First(DueAt(clock))
               IN  run' = [run EXCEPT !.at = "locked", !.entry = LocalEntry(i), !.index = <<i>>]
    BY <1>7 DEF ReadLocal
  <2>3. CASE DueAt(clock) # {}
    <3> DEFINE i == First(DueAt(clock))
    <3>1. clock \in Int BY <2>2 DEF TypeOK
    <3>2. i \in Nat /\ LocalEntry(i) \in PendingWithdrawal
      BY <2>1, <2>3, <3>1, LocalFact
    <3>3. run' = [run EXCEPT !.at = "locked", !.entry = LocalEntry(i), !.index = <<i>>]
      BY <2>2, <2>3
    <3> HIDE DEF i
    <3> DEFINE entry == LocalEntry(i)
               index == <<i>>
    <3>5. entry \in PendingWithdrawal \cup {<<>>} /\ index \in Seq(Nat)
      BY <3>2
    <3>6. run' = [run EXCEPT !.at = "locked", !.entry = entry, !.index = index]
      BY <3>3
    <3> HIDE DEF entry, index
    <3>4. run' \in RunType /\ run'.task = run.task /\ run'.at = "locked"
      BY <1>0, <3>5, <3>6
    <3> HIDE DEF RunType
    <3> QED BY <1>0, <2>1, <3>4 DEF RunOK, Kind, RunType
  <2> QED BY <1>1, <2>2, <2>3
<1>8. ASSUME ReadLocked PROVE RunOK'
  <2> DEFINE k == First(Matches(run.entry))
  <2>1. /\ run.at = "locked" /\ Matches(run.entry) # {}
        /\ run' = [run EXCEPT !.at = "send", !.entry = <<>>, !.index = Append(run.index, k)]
    BY <1>8 DEF ReadLocked
  <2>2. k \in Nat
    <3>1. Matches(run.entry) \subseteq Nat BY DEF Matches, TypeOK
    <3> QED BY <2>1, <3>1, FirstFact
  <2> HIDE DEF k
  <2> DEFINE index == Append(run.index, k)
             none == <<>>
  <2>3. index \in Seq(Nat) /\ none \in PendingWithdrawal \cup {<<>>}
    BY <1>0, <2>2
  <2>6. run' = [run EXCEPT !.at = "send", !.entry = none, !.index = index]
    BY <2>1
  <2> HIDE DEF index, none
  <2>4. run' \in RunType /\ run'.task = run.task /\ run'.at = "send"
    BY <1>0, <2>3, <2>6
  <2>5. Kind = "finishPendingWithdrawals" BY <2>1 DEF RunOK
  <2> HIDE DEF RunType
  <2> QED BY <1>0, <2>1, <2>4, <2>5 DEF RunOK, Kind, RunType
<1>9. ASSUME SendFinish PROVE RunOK'
  <2>1. /\ run.at = "send" /\ Kind = "finishPendingWithdrawals"
        /\ run' = [run EXCEPT !.at = "local", !.index = <<>>]
    BY <1>9 DEF SendFinish
  <2> DEFINE none == <<>>
  <2>3. none \in Seq(Nat) /\ run' = [run EXCEPT !.at = "local", !.index = none]
    BY <2>1
  <2> HIDE DEF none
  <2>2. run' \in RunType /\ run'.task = run.task /\ run'.at = "local"
    BY <1>0, <2>3
  <2> HIDE DEF RunType
  <2> QED BY <1>0, <2>1, <2>2 DEF RunOK, Kind, RunType
<1>10. ASSUME NoIndex \/ GroupsDone \/ Refused \/ NoMatch \/ FinishRefused \/ Crash PROVE RunOK'
  BY <1>1, <1>10 DEF NoIndex, GroupsDone, Refused, NoMatch, FinishRefused, Crash, Fail
<1>11. ASSUME SendVote \/ SendRevoke \/ SendWithdraw PROVE RunOK'
  BY <1>6, <1>11 DEF SendVote, SendRevoke, SendWithdraw
<1>12. ASSUME UNCHANGED run PROVE RunOK'
  BY <1>12 DEF RunOK, Kind
<1>13. CASE Elsewhere BY <1>12, <1>13, ElsewhereMeanwhile DEF Meanwhile
<1>14. CASE UNCHANGED botVars BY <1>12, <1>14 DEF botVars
<1> HIDE DEF RunType
<1> QED BY <1>2, <1>3, <1>4, <1>5, <1>7, <1>8, <1>9, <1>10, <1>11, <1>13, <1>14
        DEF BotNext, RunStep, Elsewhere

(* The groups read so far are the first of the list, and the next one to   *)
(* read follows them, as long as the list has not changed.                 *)
Walked ==
  LET n == Len(activeGroups)
      read == n - run.left
  IN  /\ run.at \in {"length", "head"} => run.groups = <<>>
      /\ run.at = "head" /\ listStable => run.left = n
      /\ run.at = "walk" /\ listStable =>
           /\ run.left <= n
           /\ run.groups = SubSeq(activeGroups, 1, read)
           /\ run.left > 0 => run.key = activeGroups[read + 1]

(* Where a step of a task leads.                                           *)
LEMMA WhereTo ==
  ASSUME RunOK, RunStep \/ Crash \/ \E t \in Tasks : Start(t)
  PROVE  /\ run'.at = "length" => \E t \in Tasks : Start(t)
         /\ run'.at = "head" => ReadLength
         /\ run'.at = "walk" => ReadHead \/ ReadPrevious
<1>0. /\ run.at \in {"idle", "length", "head", "walk", "check", "send", "local", "locked"}
      /\ DOMAIN run = {"task", "at", "left", "key", "groups", "entry", "index"}
      /\ \A f : [run EXCEPT !.at = f].at = f
  BY DEF RunOK
<1>1. CASE Fail BY <1>1 DEF Fail, Idle
<1>2. CASE \E t \in Tasks : Start(t) BY <1>2 DEF Start, Idle
<1>3. CASE ReadLength \/ ReadHead \/ ReadPrevious \/ ReadVotedGroups
  BY <1>0, <1>3 DEF ReadLength, ReadHead, ReadPrevious, ReadVotedGroups
<1>4. CASE Check BY <1>0, <1>4 DEF Check
<1>5. CASE SendVote \/ SendRevoke \/ SendWithdraw \/ SendFinish
  BY <1>0, <1>5 DEF SendVote, SendRevoke, SendWithdraw, SendFinish, Sent
<1>6. CASE ReadLocal
  <2>1. \/ run' = Idle
        \/ \E e, i : run' = [run EXCEPT !.at = "locked", !.entry = e, !.index = i]
    BY <1>6, Zenon DEF ReadLocal
  <2>2. CASE run' = Idle BY <1>6, <2>2 DEF Idle
  <2>3. ASSUME NEW e, NEW i, run' = [run EXCEPT !.at = "locked", !.entry = e, !.index = i]
        PROVE  run'.at = "locked"
    BY <1>0, <2>3
  <2> QED BY <1>6, <2>1, <2>2, <2>3
<1>7. CASE ReadLocked BY <1>0, <1>7 DEF ReadLocked
<1> QED BY <1>1, <1>2, <1>3, <1>4, <1>5, <1>6, <1>7
        DEF RunStep, Crash, NoIndex, GroupsDone, Refused, NoMatch, FinishRefused

(* Every step keeps what the walk has gathered a part of the list it       *)
(* walks.                                                                  *)
LEMMA WalkedStep ==
  ASSUME RunOK, ListsOK, Walked, [BotNext]_botVars
  PROVE  Walked'
<1> DEFINE n == Len(activeGroups)
<1>0. /\ activeGroups \in Seq(Groups) /\ n \in Nat /\ run.left \in Nat
      /\ DOMAIN run = {"task", "at", "left", "key", "groups", "entry", "index"}
  BY DEF RunOK, ListsOK
<1>1. CASE RunStep \/ Crash \/ \E t \in Tasks : Start(t)
  <2>0. UNCHANGED activeGroups BY <1>1, RunKeepsLists DEF strategies
  <2>1. ASSUME NEW t \in Tasks, Start(t) PROVE Walked'
    BY <2>1 DEF Start, Idle, Walked
  <2>2. CASE ReadLength
    BY <1>0, <2>0, <2>2 DEF ReadLength, Walked
  <2>3. CASE ReadHead
    <3>1. /\ run.at = "head" /\ UNCHANGED listStable
          /\ run' = [run EXCEPT !.at = "walk", !.key = GroupsHead]
      BY <2>3 DEF ReadHead
    <3>2. /\ run'.at = "walk" /\ run'.left = run.left /\ run'.groups = run.groups
          /\ run'.key = GroupsHead
      BY <1>0, <3>1
    <3>3. run.groups = <<>> /\ (listStable => run.left = n)
      BY <3>1 DEF Walked
    <3>4. SubSeq(activeGroups, 1, 0) = <<>> BY <1>0
    <3>5. n > 0 => GroupsHead = activeGroups[1] BY <1>0 DEF GroupsHead
    <3>6. listStable => n - run.left = 0 BY <1>0, <3>3
    <3>7. ASSUME listStable'
          PROVE  /\ run'.left <= Len(activeGroups')
                 /\ run'.groups = SubSeq(activeGroups', 1, Len(activeGroups') - run'.left)
                 /\ run'.left > 0 => run'.key = activeGroups'[Len(activeGroups') - run'.left + 1]
      <4>1. activeGroups' = activeGroups /\ run'.left = n /\ run'.groups = <<>>
        BY <2>0, <3>1, <3>2, <3>3, <3>7
      <4>2. n - n = 0 /\ n - n + 1 = 1 /\ n <= n BY <1>0
      <4>3. Len(activeGroups') = n BY <4>1
      <4>4. run'.groups = SubSeq(activeGroups', 1, n - n) BY <3>4, <4>1, <4>2
      <4>5. n > 0 => run'.key = activeGroups'[n - n + 1] BY <3>2, <3>5, <4>1, <4>2
      <4> HIDE DEF n
      <4> QED BY <4>1, <4>2, <4>3, <4>4, <4>5
    <3> QED BY <3>2, <3>7 DEF Walked
  <2>4. CASE ReadPrevious
    <3> DEFINE read == n - run.left
    <3>1. /\ run.at = "walk" /\ run.left > 0 /\ UNCHANGED listStable
          /\ run' = [run EXCEPT !.groups = Append(run.groups, run.key), !.left = run.left - 1,
                                !.key = PreviousGroup(run.key)]
      BY <2>4 DEF ReadPrevious
    <3>2. /\ run'.at = "walk" /\ run'.left = run.left - 1
          /\ run'.groups = Append(run.groups, run.key)
          /\ run'.key = PreviousGroup(run.key)
      BY <1>0, <3>1
    <3>3. ASSUME listStable
          PROVE  /\ run.left - 1 <= n
                 /\ Append(run.groups, run.key) = SubSeq(activeGroups, 1, n - (run.left - 1))
                 /\ run.left - 1 > 0
                      => PreviousGroup(run.key) = activeGroups[n - (run.left - 1) + 1]
      <4>1. /\ run.left <= n /\ run.groups = SubSeq(activeGroups, 1, read)
            /\ run.key = activeGroups[read + 1]
        BY <3>1, <3>3 DEF Walked
      <4>2. read \in Nat /\ read + 1 \in 1 .. n /\ n - (run.left - 1) = read + 1
        BY <1>0, <3>1, <4>1
      <4> HIDE DEF read
      <4>3. Append(SubSeq(activeGroups, 1, read), activeGroups[read + 1])
              = SubSeq(activeGroups, 1, read + 1)
        BY <1>0, <4>2
      <4>4. ASSUME run.left - 1 > 0
            PROVE  PreviousGroup(run.key) = activeGroups[read + 1 + 1]
        <5> DEFINE places == {i \in 1 .. n - 1 : activeGroups[i] = run.key}
        <5>1. read + 1 \in 1 .. n - 1 BY <1>0, <4>2, <4>4
        <5>2. \A i \in 1 .. n : activeGroups[i] = activeGroups[read + 1] => i = read + 1
          BY <1>0, <4>2 DEF ListsOK, NoRepetition
        <5>3. places = {read + 1} BY <1>0, <4>1, <5>1, <5>2
        <5>4. First(places) = read + 1
          <6>1. {read + 1} \subseteq Nat BY <4>2
          <6> QED BY <5>3, <6>1, FirstFact
        <5>5. PreviousGroup(run.key) = activeGroups[1 + (read + 1)]
          BY <5>3, <5>4 DEF PreviousGroup
        <5> QED BY <4>2, <5>5
      <4>5. run.left - 1 <= n BY <1>0, <4>1
      <4>6. Append(run.groups, run.key) = SubSeq(activeGroups, 1, n - (run.left - 1))
        BY <4>1, <4>2, <4>3
      <4> QED BY <4>2, <4>4, <4>5, <4>6
    <3> QED BY <2>0, <3>1, <3>2, <3>3 DEF Walked
  <2>5. CASE run'.at \notin {"length", "head", "walk"}
    BY <2>5 DEF Walked
  <2> QED BY <1>1, <2>1, <2>2, <2>3, <2>4, <2>5, WhereTo
<1>2. CASE Elsewhere
  <2>1. UNCHANGED run /\ (UNCHANGED <<activeGroups, listStable>> \/ ListChanged)
    BY <1>2, ElsewhereMeanwhile DEF Meanwhile
  <2>2. CASE UNCHANGED <<activeGroups, listStable>>
    BY <2>1, <2>2 DEF Walked
  <2>3. CASE ListChanged
    <3>1. run.at \in {"head", "walk"} => ~listStable' BY <2>3 DEF ListChanged
    <3> QED BY <2>1, <3>1 DEF Walked
  <2> QED BY <2>1, <2>2, <2>3
<1>3. CASE UNCHANGED botVars
  BY <1>3 DEF botVars, strategies, Walked
<1> QED BY <1>1, <1>2, <1>3 DEF BotNext, Elsewhere

(* Whatever tasks, hosts and strategies do, they use Account as the        *)
(* contract's own specification has it.                                    *)
LEMMA BotsMove ==
  ASSUME AccountInv, RunOK, ListsOK, [BotNext]_botVars
  PROVE  [Next]_vars \/ Clock
<1>0. OnlyListed \subseteq Allocations
  <2>1. bounds.celo \in 0 .. MaxCelo BY BoundsListAssumption DEF ListsOK
  <2>2. 0 \in 0 .. MaxCelo /\ 0 .. bounds.celo \subseteq 0 .. MaxCelo
    BY <2>1, BoundsAssumption
  <2>3. ASSUME NEW f \in [Listed -> 0 .. bounds.celo]
        PROVE  [g \in Groups |-> IF g \in Listed THEN f[g] ELSE 0] \in Allocations
    BY <2>2 DEF Allocations
  <2> QED BY <2>3 DEF OnlyListed
<1>1. ASSUME UNCHANGED vars PROVE [Next]_vars BY <1>1
<1>2. CASE \/ \E t \in Tasks : Start(t)
           \/ ReadLength \/ ReadHead \/ ReadPrevious \/ ReadVotedGroups
           \/ Check \/ NoIndex \/ GroupsDone \/ Refused
           \/ ReadLocal \/ ReadLocked \/ NoMatch \/ FinishRefused \/ Crash
  BY <1>2 DEF Start, ReadLength, ReadHead, ReadPrevious, ReadVotedGroups, Check, NoIndex,
              GroupsDone, Refused, ReadLocal, ReadLocked, NoMatch, FinishRefused, Crash, Fail, Reads
<1>3. ASSUME BotStep PROVE [Next]_vars BY <1>3 DEF Next
<1>4. CASE SendVote \/ SendRevoke \/ SendWithdraw
  <2>1. Head(run.groups) \in Groups
    BY <1>4 DEF SendVote, SendRevoke, SendWithdraw, RunOK
  <2>2. CASE SendVote BY <1>3, <2>1, <2>2 DEF SendVote, BotStep
  <2>3. CASE SendRevoke BY <1>1, <1>3, <2>1, <2>3 DEF SendRevoke, BotStep
  <2>4. CASE SendWithdraw
    <3>1. Beneficiary \in Beneficiaries
      BY <2>4, TaskFact DEF SendWithdraw, RunOK, Kind, Beneficiary
    <3> QED BY <1>3, <2>1, <2>4, <3>1 DEF SendWithdraw, BotStep
  <2> QED BY <1>4, <2>2, <2>3, <2>4
<1>5. CASE SendFinish
  <2>1. Beneficiary \in Beneficiaries
    BY <1>5, TaskFact DEF SendFinish, RunOK, Kind, Beneficiary
  <2>2. /\ run.index[1] \in DOMAIN pendingWithdrawals[Beneficiary]
        /\ run.index[2] \in DOMAIN lockedPending
        /\ FinishPendingWithdrawal(Beneficiary, run.index[1], run.index[2])
    BY <1>5 DEF SendFinish, FinishPendingWithdrawal, ValidRequest
  <2> QED BY <1>3, <2>1, <2>2 DEF BotStep
<1>6. CASE OtherCaller BY <1>3, <1>6 DEF OtherCaller
<1>7. CASE ManagerCall
  BY <1>0, <1>7 DEF ManagerCall, Next, ManagerStep
<1>8. ASSUME NEW g \in Groups, NEW n \in 0 .. MaxCelo PROVE Only(Groups, g, n) \in Allocations
  <2>1. 0 \in 0 .. MaxCelo OBVIOUS
  <2> QED BY <2>1 DEF Only, Allocations
<1>9. ASSUME NEW g \in Groups, DepositWithStrategy(g) PROVE [Next]_vars
  <2>1. \A n \in 1 .. MaxCelo : n \in 0 .. MaxCelo OBVIOUS
  <2> QED BY <1>8, <1>9, <2>1 DEF DepositWithStrategy, Next, ManagerStep
<1>10. ASSUME NEW g \in Groups, DeactivateGroup(g) PROVE [Next]_vars
  <2>1. getCeloForGroup(g) \in 0 .. MaxCelo BY CeloBounded DEF AccountInv
  <2>2. \A n \in 0 .. getCeloForGroup(g) : n \in 0 .. MaxCelo BY <2>1
  <2> QED BY <1>0, <1>8, <1>10, <2>2 DEF DeactivateGroup, Next, ManagerStep
<1>11. ASSUME NEW g \in Groups, ActivateGroup(g) PROVE [Next]_vars
  BY <1>1, <1>11 DEF ActivateGroup
<1>12. CASE ReorderGroups BY <1>1, <1>12 DEF ReorderGroups
<1>13. CASE Wait BY <1>13 DEF Wait, Clock
<1>14. CASE ElectionChange BY <1>14 DEF ElectionChange, Next, EnvironmentStep
<1>15. CASE UNCHANGED botVars BY <1>1, <1>15 DEF botVars
<1> QED BY <1>2, <1>4, <1>5, <1>6, <1>7, <1>9, <1>10, <1>11, <1>12, <1>13, <1>14, <1>15
        DEF BotNext, RunStep

(* Account's invariant and where each task stands.                         *)
BotInv == AccountInv /\ RunOK /\ ListsOK /\ Walked

(* The invariant of the tasks holds at first.                              *)
LEMMA BotsInit == BotInit => BotInv
<1> SUFFICES ASSUME BotInit PROVE BotInv
  OBVIOUS
<1>1. AccountInv BY AccountInit DEF BotInit
<1>2. /\ run = Idle /\ bounds \in Bounds /\ activeGroups = bounds.list
      /\ votedGroups = <<>> /\ listStable = TRUE /\ upToDate = TRUE
  BY DEF BotInit
<1>3. RunOK BY <1>2 DEF RunOK, Idle
<1>4. ListsOK BY <1>2, BoundsListAssumption DEF ListsOK, NoRepetition
<1>5. Walked BY <1>2 DEF Walked, Idle
<1> QED BY <1>1, <1>3, <1>4, <1>5 DEF BotInv

(* Every step of the system of tasks preserves the invariant.              *)
LEMMA BotsStep == BotInv /\ Derived' /\ [BotNext]_botVars => BotInv'
<1> SUFFICES ASSUME BotInv, Derived', [BotNext]_botVars PROVE BotInv'
  OBVIOUS
<1>1. AccountInv' BY BotsMove, AccountStep, ClockStep DEF BotInv
<1>2. TypeOK BY DEF BotInv, AccountInv, IInv
<1>3. RunOK' /\ ListsOK' /\ Walked'
  BY <1>2, RunStepOK, ListsStep, WalkedStep DEF BotInv
<1> QED BY <1>1, <1>3 DEF BotInv

(* Account's invariant holds also with the tasks, hosts and strategies     *)
(* around it, and with it what the tasks know of the state they read.      *)
THEOREM BotsInvariant == BotSpec => []BotInv
<1> QED BY DerivedHolds, BotsInit, BotsStep, PTL DEF BotSpec

(* ImplementsClaims, also of the system of tasks, hosts and strategies.    *)
THEOREM BotsKeepClaims == BotSpec => ImplementsClaims
<1>1. BotInit => ClaimsLedger!Init BY ClaimsInit DEF BotInit
<1>2. BotInv /\ [BotNext]_botVars => [ClaimsLedger!Next]_(ClaimsLedger!vars)
  BY BotsMove, ClaimsStep, ClockTicks DEF BotInv, AccountInv
<1> QED BY <1>1, <1>2, BotsInvariant, PTL DEF BotSpec, ImplementsClaims, ClaimsLedger!Spec

(* findAddressIndex never fails a revocation.                              *)
THEOREM IndexAlwaysFound == BotSpec => []RevokeFindsIndex
<1>1. BotInv => RevokeFindsIndex
  <2> SUFFICES ASSUME BotInv, NEW g \in Groups, toRevoke[g] > 0 PROVE votesForGroup(g) > 0
    BY DEF RevokeFindsIndex
  <2>1. TypeOK /\ Netted /\ GroupSolvent BY DEF BotInv, AccountInv, IInv, Safe
  <2>2. /\ toVote[g] \in Nat /\ toRevoke[g] \in Nat /\ toWithdraw[g] \in Nat
        /\ votesForGroup(g) \in Nat
    BY <2>1, GroupTypes
  <2>3. /\ toVote[g] = 0
        /\ toRevoke[g] + toWithdraw[g] <= votesForGroup(g) + toVote[g]
    BY <2>1 DEF Netted, GroupSolvent
  <2> QED BY <2>2, <2>3
<1> QED BY <1>1, BotsInvariant, PTL

(* A walk that nothing disturbed has gathered the groups of both           *)
(* strategies.                                                             *)
THEOREM WalksGather == BotSpec => WalkGathersAll
<1>1. BotInv => [ReadVotedGroups /\ listStable => Listed \subseteq SeqExt!ToSet(run'.groups)]_botVars
  <2> SUFFICES ASSUME BotInv, ReadVotedGroups, listStable
               PROVE  Listed \subseteq SeqExt!ToSet(run'.groups)
    OBVIOUS
  <2> DEFINE all == run.groups \o votedGroups
             n == Len(activeGroups)
  <2>1. /\ activeGroups \in Seq(Groups) /\ votedGroups \in Seq(Groups)
        /\ DOMAIN run = {"task", "at", "left", "key", "groups", "entry", "index"}
    BY DEF BotInv, ListsOK, RunOK
  <2>2. run.groups = activeGroups
    <3>1. run.groups = SubSeq(activeGroups, 1, n - run.left) /\ run.left = 0
      BY DEF BotInv, Walked, ReadVotedGroups
    <3>2. SubSeq(activeGroups, 1, n) = activeGroups /\ n - 0 = n BY <2>1
    <3> QED BY <3>1, <3>2
  <2>3. run'.groups = WithoutDuplicates(all)
    BY <2>1 DEF ReadVotedGroups
  <2>4. all \in Seq(Groups) BY <2>1, <2>2
  <2>5. SeqExt!ToSet(all) = Listed
    <3>1. all = activeGroups \o votedGroups BY <2>2
    <3>2. SeqExt!ToSet(activeGroups \o votedGroups)
            = SeqExt!ToSet(activeGroups) \cup SeqExt!ToSet(votedGroups)
      <4> DEFINE a == activeGroups
                 b == votedGroups
                 r == a \o b
      <4>1. /\ Len(a) \in Nat /\ Len(b) \in Nat /\ DOMAIN r = 1 .. Len(a) + Len(b)
            /\ DOMAIN a = 1 .. Len(a) /\ DOMAIN b = 1 .. Len(b)
            /\ \A j \in 1 .. Len(a) : r[j] = a[j]
            /\ \A j \in 1 .. Len(b) : r[j + Len(a)] = b[j]
        BY <2>1
      <4> HIDE DEF a, b, r
      <4>2. \A j \in 1 .. Len(a) + Len(b) :
              j \in 1 .. Len(a) \/ \E k \in 1 .. Len(b) : j = k + Len(a)
        <5> TAKE j \in 1 .. Len(a) + Len(b)
        <5>1. CASE j <= Len(a) BY <4>1, <5>1
        <5>2. CASE j > Len(a)
          <6>1. j - Len(a) \in 1 .. Len(b) /\ j = (j - Len(a)) + Len(a) BY <4>1, <5>2
          <6> QED BY <6>1
        <5> QED BY <4>1, <5>1, <5>2
      <4>3. \A j \in 1 .. Len(a) : j \in 1 .. Len(a) + Len(b) BY <4>1
      <4>4. \A j \in 1 .. Len(b) : j + Len(a) \in 1 .. Len(a) + Len(b) BY <4>1
      <4>5. SeqExt!ToSet(r) = SeqExt!ToSet(a) \cup SeqExt!ToSet(b)
        <5>1. ASSUME NEW j \in DOMAIN r PROVE r[j] \in SeqExt!ToSet(a) \cup SeqExt!ToSet(b)
          <6>1. CASE j \in 1 .. Len(a) BY <4>1, <6>1 DEF SeqExt!ToSet
          <6>2. CASE \E k \in 1 .. Len(b) : j = k + Len(a)
            <7>1. PICK k \in 1 .. Len(b) : j = k + Len(a) BY <6>2
            <7>2. r[j] = b[k] BY <4>1, <7>1
            <7> QED BY <4>1, <7>2 DEF SeqExt!ToSet
          <6> QED BY <4>1, <4>2, <6>1, <6>2
        <5>2. ASSUME NEW j \in DOMAIN a PROVE a[j] \in SeqExt!ToSet(r)
          BY <4>1, <4>3 DEF SeqExt!ToSet
        <5>3. ASSUME NEW j \in DOMAIN b PROVE b[j] \in SeqExt!ToSet(r)
          <6>1. j + Len(a) \in DOMAIN r /\ r[j + Len(a)] = b[j] BY <4>1, <4>4
          <6> QED BY <6>1 DEF SeqExt!ToSet
        <5> QED BY <5>1, <5>2, <5>3 DEF SeqExt!ToSet
      <4> QED BY <4>5 DEF r, a, b
    <3> QED BY <3>1, <3>2 DEF Listed
  <2> HIDE DEF all
  <2> QED BY <2>3, <2>4, <2>5, WithoutDuplicatesFact
<1> QED BY <1>1, BotsInvariant, PTL DEF WalkGathersAll
============================================================================
