----------------------------- MODULE Timelock ------------------------------
(***************************************************************************)
(* What the multisig promises about every proposal, whoever owns it: it is *)
(* queued at most once, never sooner than MinDelay before it may be        *)
(* executed, executed at most once, and neither queueing nor execution is  *)
(* ever undone.                                                            *)
(***************************************************************************)
EXTENDS Naturals

CONSTANTS Ids, MinDelay

VARIABLES
  stage,   \* "open", "queued" or "done"
  eta,     \* when a queued proposal may be executed
  now

Init ==
  /\ stage = [p \in Ids |-> "open"]
  /\ eta = [p \in Ids |-> 0]
  /\ now \in Nat

Queue(p) ==
  /\ stage[p] = "open"
  /\ eta'[p] >= now + MinDelay
  /\ stage' = [stage EXCEPT ![p] = "queued"]
  /\ eta' = [eta EXCEPT ![p] = eta'[p]]
  /\ UNCHANGED now

Execute(p) ==
  /\ stage[p] = "queued"
  /\ eta[p] <= now
  /\ stage' = [stage EXCEPT ![p] = "done"]
  /\ eta' = [eta EXCEPT ![p] = 0]
  /\ UNCHANGED now

Advance ==
  /\ now' > now
  /\ UNCHANGED <<stage, eta>>

Next == Advance \/ \E p \in Ids : Queue(p) \/ Execute(p)

Spec == Init /\ [][Next]_<<stage, eta, now>>
============================================================================
