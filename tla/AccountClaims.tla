--------------------------- MODULE AccountClaims ---------------------------
(***************************************************************************)
(* Account implements Claims; and what must happen in the end to what is   *)
(* scheduled, under the fairness that module Bots gives the tasks.         *)
(***************************************************************************)
EXTENDS Account

SeqExt == INSTANCE SequencesExt

Owed == [b \in Beneficiaries |-> Total([g \in Groups |-> toWithdrawFor[g][b]])]

(* Each call of the contract is one step of the abstract ledger or none:   *)
(* a beneficiary's scheduled and pending withdrawals are his claims.       *)
ClaimsLedger ==
  INSTANCE Claims WITH
    owed <- Owed,
    dated <- [b \in Beneficiaries |-> SeqExt!ToBag(pendingWithdrawals[b])]

ImplementsClaims == ClaimsLedger!Spec

----------------------------------------------------------------------------
(* The one step that changes what groups are to receive or give up without *)
(* moving any CELO: scheduleTransfer.                                      *)
Transfer ==
  /\ <<toVote, toRevoke>>' # <<toVote, toRevoke>>
  /\ UNCHANGED <<balance, nonvoting, paid, pendingVotes, activeVotes>>

(* Every CELO scheduled for a beneficiary ends up paid, although withdraw  *)
(* reverts as long as the group's CELO is in transit from another group.   *)
AllPaid ==
  \A b \in Beneficiaries :
    (Owed[b] > 0 \/ pendingWithdrawals[b] # <<>>)
      ~> (Owed[b] = 0 /\ pendingWithdrawals[b] = <<>>)

(* CELO scheduled to vote for a group does not wait for ever, although     *)
(* another group's deposits and transfers draw on the same pool.           *)
AllVoted == \A g \in Groups : toVote[g] > 0 ~> toVote[g] = 0
============================================================================
