------------------------------- MODULE Claims ------------------------------
(***************************************************************************)
(* What Account promises a beneficiary, whatever groups, votes and locked  *)
(* gold lie behind it: CELO that has been scheduled for him is owed until  *)
(* it is settled, once.  Settling pays part of it at once and dates the    *)
(* rest an unlocking period ahead; a dated claim is paid in full, once,    *)
(* and not before its date.  Nobody is ever paid from another's claim.     *)
(***************************************************************************)
EXTENDS Integers, BagsExt, Bags

CONSTANTS Beneficiaries, UnlockingPeriod, MaxCelo

VARIABLES
  owed,   \* owed[b]: scheduled for b and not settled
  dated,  \* dated[b]: bag of b's claims [value, timestamp]
  paid,   \* paid[b]: what b has received
  now

vars == <<owed, dated, paid, now>>

Init ==
  /\ owed = [b \in Beneficiaries |-> 0]
  /\ dated = [b \in Beneficiaries |-> EmptyBag]
  /\ paid = [b \in Beneficiaries |-> 0]
  /\ now = 0

Promise(b, n) ==
  /\ owed' = [owed EXCEPT ![b] = @ + n]
  /\ UNCHANGED <<dated, paid, now>>

(* n is settled, the part atOnce of it in cash.                            *)
Settle(b, n, atOnce) ==
  LET claim == [value |-> n - atOnce, timestamp |-> now + UnlockingPeriod]
  IN  /\ owed' = [owed EXCEPT ![b] = @ - n]
      /\ paid' = [paid EXCEPT ![b] = @ + atOnce]
      /\ dated' = IF n = atOnce THEN dated
                  ELSE [dated EXCEPT ![b] = BagAdd(@, claim)]
      /\ UNCHANGED now

Release(b, claim) ==
  /\ claim.timestamp <= now
  /\ dated' = [dated EXCEPT ![b] = BagRemove(@, claim)]
  /\ paid' = [paid EXCEPT ![b] = @ + claim.value]
  /\ UNCHANGED <<owed, now>>

Tick ==
  /\ now' = now + 1
  /\ UNCHANGED <<owed, dated, paid>>

Next ==
  \/ \E b \in Beneficiaries :
       \/ \E n \in 1 .. MaxCelo : Promise(b, n)
       \/ \E n \in 1 .. owed[b] : \E atOnce \in 0 .. n : Settle(b, n, atOnce)
       \/ \E claim \in DOMAIN dated[b] : Release(b, claim)
  \/ Tick

Spec == Init /\ [][Next]_vars
============================================================================
