---------------------------- MODULE VotingProofs ----------------------------
(***************************************************************************)
(* The safety properties of Voting, for any voters, proposals, weights and *)
(* rewards.                                                                *)
(*                                                                         *)
(* Two facts carry the argument.  The rate between CELO and stCELO never   *)
(* falls, since minting and paying out both round in the system's favour:  *)
(* so a lock that backed a vote when it was cast backs it for as long as   *)
(* it counts (LocksSuffice).  And while a vote counts, the voter's history *)
(* names it with its time (HistoryKept): so unlocking finds every vote     *)
(* that a lock must still back, whatever was purged before.                *)
(*                                                                         *)
(* At the end, VoteHistory: the loop over the array of a voter's proposals *)
(* does what Voting says in one step (Swept is the loop's invariant).      *)
(***************************************************************************)
EXTENDS VoteHistory, AmountsProofs

USE VotersAssumption, PausablesAssumption, BoundsAssumption

(* The largest member of a bounded set of numbers.                         *)
LEMMA MaxFact ==
  ASSUME NEW S, S \subseteq Nat, S # {}, NEW n \in Nat, \A x \in S : x <= n
  PROVE  Max(S) \in S /\ \A x \in S : Max(S) >= x
BY MaxExists DEF Max

(* A vote has a weight, and no votes weigh nothing.                        *)
LEMMA WeightsFact ==
  /\ NoVotes \in Weights /\ Total(NoVotes) = 0
  /\ \A votes \in Weights : /\ votes \in [Kinds -> Nat]
                            /\ Total(votes) \in Nat /\ Total(votes) <= MaxCelo
<1>1. Total(NoVotes) = 0 BY TotalZero DEF NoVotes
<1>2. NoVotes \in [Kinds -> 0 .. MaxCelo] BY DEF NoVotes
<1>3. ASSUME NEW votes \in Weights PROVE votes \in [Kinds -> Nat] BY DEF Weights
<1>4. ASSUME NEW votes \in Weights PROVE Total(votes) \in Nat /\ Total(votes) <= MaxCelo
  BY <1>3, UnitsFinite DEF Weights
<1> QED BY <1>1, <1>2, <1>3, <1>4 DEF Weights

----------------------------------------------------------------------------
(* There is CELO wherever there is stCELO, so no conversion divides by     *)
(* zero.                                                                   *)
RateDefined == totalSupply > 0 => totalCelo > 0

(* Nobody's vote weighs more than the bound of the model.                  *)
Weighted == \A v \in Voters, p \in Proposals : proposalVotes[v][p] \in Weights

(* A vote that is recorded is one for a proposal Governance dequeued, and  *)
(* while it counts the voter's history names it with its time.             *)
HistoryKept ==
  /\ \A p \in Proposals : proposalTimestamps[p] \in {0, referendum[p]}
  /\ \A v \in Voters, p \in Proposals :
       /\ ~voted[v][p] => proposalVotes[v][p] = NoVotes
       /\ voted[v][p] => referendum[p] # 0
       /\ voted[v][p] /\ InReferendum(p) =>
            p \in votedProposalIds[v] /\ proposalTimestamps[p] = referendum[p]

(* The inductive invariant: the properties, and what they rest on.         *)
Safe == SupplyHeld /\ RateDefined /\ Weighted /\ TalliesAgree /\ HistoryKept /\ LiveVotesLocked

IInv == TypeOK /\ Safe

(* Manager's conversions give numbers.                                     *)
LEMMA Conversions ==
  ASSUME TypeOK, NEW n \in Nat
  PROVE  /\ toStakedCelo(n) \in Nat /\ toCelo(n) \in Nat
         /\ toStakedCelo(0) = 0
<1>1. totalSupply \in Nat /\ totalCelo \in Nat BY DEF TypeOK
<1>2. n * totalSupply \in Nat /\ n * totalCelo \in Nat BY <1>1
<1>3. toStakedCelo(n) \in Nat BY <1>1, <1>2, DivFact DEF toStakedCelo, OneToOne
<1>4. toCelo(n) \in Nat BY <1>1, <1>2, DivFact DEF toCelo, OneToOne
<1>5. toStakedCelo(0) = 0 BY <1>1 DEF toStakedCelo, OneToOne
<1> QED BY <1>3, <1>4, <1>5

(* More CELO is never worth less stCELO.                                   *)
LEMMA ConversionMono ==
  ASSUME TypeOK, NEW n \in Nat, NEW m \in Nat, n <= m
  PROVE  toStakedCelo(n) <= toStakedCelo(m)
<1>1. totalSupply \in Nat /\ totalCelo \in Nat BY DEF TypeOK
<1>2. CASE OneToOne BY <1>2 DEF toStakedCelo
<1>3. CASE ~OneToOne
  <2>1. totalSupply > 0 /\ totalCelo > 0 BY <1>1, <1>3 DEF OneToOne
  <2>2. n * totalSupply \in Nat /\ m * totalSupply \in Nat BY <1>1
  <2>3. n * totalSupply <= m * totalSupply BY <1>1, ProductMono
  <2> DEFINE q == (n * totalSupply) \div totalCelo
             r == (m * totalSupply) \div totalCelo
  <2>4. q \in Nat /\ q * totalCelo <= n * totalSupply BY <1>1, <2>1, <2>2, DivFact
  <2>5. r \in Nat /\ m * totalSupply < r * totalCelo + totalCelo BY <1>1, <2>1, <2>2, DivFact
  <2> HIDE DEF q, r
  <2>6. q * totalCelo < (r + 1) * totalCelo BY <1>1, <2>2, <2>3, <2>4, <2>5
  <2>7. q < r + 1 BY <1>1, <2>1, <2>4, <2>5, <2>6, ProductCancel
  <2> QED BY <1>3, <2>4, <2>5, <2>7 DEF toStakedCelo, q, r
<1> QED BY <1>2, <1>3

(* The lock an unlocking leaves covers the weight of every vote still      *)
(* relevant.                                                               *)
LEMMA LockedFact ==
  ASSUME TypeOK, Weighted, NEW v \in Voters
  PROVE  /\ LockedInVoting(v) \in Nat
         /\ \A p \in StillRelevant(v) : Total(proposalVotes[v][p]) <= LockedInVoting(v)
<1> DEFINE weights == {0} \cup {Total(proposalVotes[v][p]) : p \in StillRelevant(v)}
<1>1. StillRelevant(v) \subseteq Proposals BY DEF StillRelevant, TypeOK
<1>2. \A p \in StillRelevant(v) : /\ Total(proposalVotes[v][p]) \in Nat
                                  /\ Total(proposalVotes[v][p]) <= MaxCelo
  BY <1>1, WeightsFact DEF Weighted
<1>3. weights \subseteq Nat /\ weights # {} /\ \A x \in weights : x <= MaxCelo
  BY <1>2
<1> HIDE DEF weights
<1>4. Max(weights) \in weights /\ \A x \in weights : Max(weights) >= x
  BY <1>3, MaxFact
<1>5. LockedInVoting(v) = Max(weights) BY DEF LockedInVoting, weights
<1>6. \A p \in StillRelevant(v) : Total(proposalVotes[v][p]) \in weights BY DEF weights
<1> QED BY <1>3, <1>4, <1>5, <1>6

(* Where CELO per stCELO does not fall, the locks stay large enough.       *)
LEMMA LocksSuffice ==
  ASSUME IInv, TypeOK', RateDefined', UNCHANGED <<records, lockedBalances, referendum, now>>,
         \/ totalSupply = 0
         \/ totalSupply' > 0 /\ totalSupply' * totalCelo <= totalSupply * totalCelo'
  PROVE  LiveVotesLocked'
<1> SUFFICES ASSUME NEW v \in Voters, NEW p \in Proposals, InReferendum(p)
             PROVE  toStakedCelo(Total(proposalVotes[v][p]))' <= lockedBalances[v]
  BY DEF LiveVotesLocked, InReferendum, records
<1> DEFINE w == Total(proposalVotes[v][p])
<1>1. w \in Nat /\ w' = w
  <2>1. proposalVotes[v][p] \in Weights BY DEF IInv, Safe, Weighted
  <2> QED BY <2>1, WeightsFact DEF records
<1>2. toStakedCelo(w) <= lockedBalances[v] BY DEF IInv, Safe, LiveVotesLocked
<1>3. /\ totalSupply \in Nat /\ totalCelo \in Nat /\ totalSupply' \in Nat /\ totalCelo' \in Nat
      /\ balances \in [Voters -> Nat] /\ lockedBalances \in [Voters -> Nat]
  BY DEF IInv, TypeOK
<1>4. toStakedCelo(w)' = IF totalSupply' = 0 \/ totalCelo' = 0 THEN w
                         ELSE (w * totalSupply') \div totalCelo'
  BY <1>1 DEF toStakedCelo, OneToOne
<1> HIDE DEF w
<1>5. CASE totalSupply = 0
  <2>1. Total(balances) \in Nat /\ lockedBalances[v] <= Total(lockedBalances)
    BY <1>3, UnitsFinite, ShareBound
  <2>2. Total(lockedBalances) \in Nat BY <1>3, UnitsFinite
  <2>3. lockedBalances[v] = 0 BY <1>3, <1>5, <2>1, <2>2 DEF IInv, Safe, SupplyHeld
  <2>4. w = 0 BY <1>1, <1>2, <1>5, <2>3 DEF toStakedCelo, OneToOne
  <2> QED BY <1>3, <1>4, <2>3, <2>4 DEF w
<1>6. CASE totalSupply > 0
  <2>1. totalCelo > 0 BY <1>6 DEF IInv, Safe, RateDefined
  <2>2. toStakedCelo(w) = (w * totalSupply) \div totalCelo
    BY <1>3, <1>6, <2>1 DEF toStakedCelo, OneToOne
  <2>a. totalSupply # 0 BY <1>3, <1>6
  <2>b. totalSupply' > 0 /\ totalSupply' * totalCelo <= totalSupply * totalCelo'
    BY <2>a, Zenon
  <2>3. totalSupply' > 0 /\ totalCelo' > 0 BY <2>b, Zenon DEF RateDefined
  <2>4. (w * totalSupply') \div totalCelo' <= (w * totalSupply) \div totalCelo
    BY <1>1, <1>3, <2>1, <2>3, <2>b, RateMono, Zenon
  <2>5. w * totalSupply' \in Nat /\ w * totalSupply \in Nat
    BY <1>1, <1>3, ProductNat, Zenon
  <2>6. (w * totalSupply') \div totalCelo' \in Nat BY <1>3, <2>3, <2>5, DivFact
  <2>7. (w * totalSupply) \div totalCelo \in Nat BY <1>3, <2>1, <2>5, DivFact
  <2>8. toStakedCelo(w)' = (w * totalSupply') \div totalCelo' BY <1>3, <1>4, <2>3
  <2> DEFINE q2 == (w * totalSupply') \div totalCelo'
             q == (w * totalSupply) \div totalCelo
  <2>9. /\ toStakedCelo(w)' = q2 /\ toStakedCelo(w) = q /\ q2 <= q
        /\ q \in Nat /\ q2 \in Nat
    BY <2>2, <2>4, <2>6, <2>7, <2>8
  <2> HIDE DEF q, q2
  <2>10. lockedBalances'[v] = lockedBalances[v] /\ lockedBalances[v] \in Nat BY <1>3
  <2>11. q2 <= lockedBalances[v] BY <1>2, <2>9, <2>10
  <2> QED BY <2>9, <2>10, <2>11 DEF w
<1> QED BY <1>3, <1>5, <1>6

(* Where the rate stays, every live vote of the next state is locked if it *)
(* weighs nothing, was there with no larger lock, or is locked anew.       *)
LEMMA LocksKept ==
  ASSUME IInv, TypeOK', UNCHANGED <<totalSupply, totalCelo>>,
         \A v \in Voters, p \in Proposals : InReferendum(p)' =>
           \/ Total(proposalVotes'[v][p]) = 0
           \/ /\ InReferendum(p)
              /\ proposalVotes'[v][p] = proposalVotes[v][p]
              /\ lockedBalances'[v] >= lockedBalances[v]
           \/ toStakedCelo(Total(proposalVotes'[v][p])) <= lockedBalances'[v]
  PROVE  LiveVotesLocked'
<1> SUFFICES ASSUME NEW v \in Voters, NEW p \in Proposals, InReferendum(p)'
             PROVE  toStakedCelo(Total(proposalVotes[v][p]))' <= lockedBalances'[v]
  BY DEF LiveVotesLocked
<1> DEFINE w == Total(proposalVotes'[v][p])
<1>1. toStakedCelo(Total(proposalVotes[v][p]))' = toStakedCelo(w)
  BY DEF toStakedCelo, OneToOne
<1>2. lockedBalances[v] \in Nat /\ lockedBalances'[v] \in Nat BY DEF IInv, TypeOK
<1>3. CASE w = 0
  <2>1. toStakedCelo(w) = 0 BY <1>3, Conversions DEF IInv
  <2> QED BY <1>1, <1>2, <2>1
<1>4. CASE /\ InReferendum(p)
           /\ proposalVotes'[v][p] = proposalVotes[v][p]
           /\ lockedBalances'[v] >= lockedBalances[v]
  <2>1. proposalVotes[v][p] \in Weights BY DEF IInv, Safe, Weighted
  <2>2. w \in Nat BY <1>4, <2>1, WeightsFact
  <2>3. toStakedCelo(w) <= lockedBalances[v] BY <1>4 DEF IInv, Safe, LiveVotesLocked
  <2>4. toStakedCelo(w) \in Nat BY <2>2, Conversions DEF IInv
  <2> HIDE DEF w
  <2> QED BY <1>1, <1>2, <1>4, <2>3, <2>4
<1>5. CASE toStakedCelo(w) <= lockedBalances'[v] BY <1>1, <1>5
<1> QED BY <1>3, <1>4, <1>5

(* TotalExcept, for a function of one argument more.                       *)
LEMMA MoveOne ==
  ASSUME NEW f \in [Voters -> Nat], NEW v \in Voters, NEW n \in Nat
  PROVE  /\ Total([f EXCEPT ![v] = n]) = Total(f) - f[v] + n
         /\ Total(f) \in Nat /\ f[v] \in Nat /\ f[v] <= Total(f)
<1>1. Total([f EXCEPT ![v] = n]) = Total(f) - f[v] + n BY TotalExcept, Zenon
<1>2. Total(f) \in Nat BY UnitsFinite
<1>3. f[v] <= Total(f) BY ShareBound
<1> QED BY <1>1, <1>2, <1>3

(* The invariant holds initially; the lemmas that follow show that each    *)
(* operation keeps it.                                                     *)
LEMMA InitInv == Init => IInv
<1> SUFFICES ASSUME Init PROVE IInv OBVIOUS
<1>1. TypeOK BY DEF Init, TypeOK, NoVotes
<1>2. SupplyHeld
  <2>1. Total([v \in Voters |-> 0]) = 0 BY TotalZero
  <2> QED BY <2>1 DEF Init, SupplyHeld
<1>3. RateDefined BY DEF Init, RateDefined
<1>4. Weighted BY WeightsFact DEF Init, Weighted
<1>5. TalliesAgree
  <2> SUFFICES ASSUME NEW p \in Proposals, NEW k \in Kinds
               PROVE  /\ voteRecords[p][k] = Total([v \in Voters |-> proposalVotes[v][p][k]])
                      /\ cast[p][k] = voteRecords[p][k]
    BY DEF TalliesAgree
  <2>1. [v \in Voters |-> proposalVotes[v][p][k]] = [v \in Voters |-> 0]
    BY DEF Init, NoVotes
  <2>2. voteRecords[p][k] = 0 /\ cast[p][k] = 0 BY DEF Init, NoVotes
  <2> QED BY <2>1, <2>2, TotalZero
<1>6. HistoryKept BY DEF Init, HistoryKept
<1>7. LiveVotesLocked BY DEF Init, LiveVotesLocked, InReferendum
<1> QED BY <1>1, <1>2, <1>3, <1>4, <1>5, <1>6, <1>7 DEF IInv, Safe

----------------------------------------------------------------------------
(* The tallies, the weights and the histories say nothing of tokens.       *)
LEMMA RecordsKept ==
  ASSUME IInv, UNCHANGED <<records, referendum, cast, now>>
  PROVE  Weighted' /\ TalliesAgree' /\ HistoryKept'
<1>1. Weighted' BY DEF IInv, Safe, Weighted, records
<1>2. TalliesAgree' BY DEF IInv, Safe, TalliesAgree, records
<1>3. HistoryKept' BY DEF IInv, Safe, HistoryKept, InReferendum, records
<1> QED BY <1>1, <1>2, <1>3

(* Manager.deposit: stCELO is minted at a rate that does not rise.         *)
LEMMA DepositInv ==
  ASSUME IInv, NEW v \in Voters, NEW n \in 1 .. MaxCelo, Deposit(v, n)
  PROVE  IInv'
<1> DEFINE minted == toStakedCelo(n)
<1>1. minted \in Nat /\ n \in Nat /\ n > 0 BY Conversions DEF IInv
<1>2. /\ balances' = [balances EXCEPT ![v] = balances[v] + minted]
      /\ totalSupply' = totalSupply + minted
      /\ totalCelo' = totalCelo + n
      /\ UNCHANGED <<lockedBalances, records, paused, referendum, cast, now>>
  BY DEF Deposit
<1>3. minted = IF totalSupply = 0 \/ totalCelo = 0 THEN n
              ELSE (n * totalSupply) \div totalCelo
  BY DEF toStakedCelo, OneToOne
<1> HIDE DEF minted
<1>4. TypeOK BY DEF IInv
<1>5. TypeOK' BY <1>1, <1>2, <1>4 DEF TypeOK, records
<1>6. SupplyHeld'
  <2>1. balances[v] \in Nat /\ balances[v] + minted \in Nat BY <1>1, <1>4 DEF TypeOK
  <2>2. Total(balances') = Total(balances) - balances[v] + (balances[v] + minted)
    BY <1>2, <1>4, <2>1, MoveOne DEF TypeOK
  <2>3. Total(balances) \in Nat /\ Total(lockedBalances) \in Nat
    BY <1>4, UnitsFinite DEF TypeOK
  <2> QED BY <1>1, <1>2, <2>1, <2>2, <2>3 DEF SupplyHeld, IInv, Safe
<1>7. RateDefined' BY <1>1, <1>2, <1>4 DEF RateDefined, TypeOK
<1>8. LiveVotesLocked'
  <2>1. /\ totalSupply \in Nat /\ totalCelo \in Nat
        /\ totalSupply > 0 => totalCelo > 0
    BY <1>4 DEF TypeOK, IInv, Safe, RateDefined
  <2>2. ASSUME totalSupply > 0
        PROVE  totalSupply' > 0 /\ totalSupply' * totalCelo <= totalSupply * totalCelo'
    <3>1. minted = (n * totalSupply) \div totalCelo BY <1>3, <2>1, <2>2
    <3>2. (totalSupply + minted) * totalCelo <= totalSupply * (totalCelo + n)
      BY <1>1, <2>1, <2>2, <3>1, DepositRate
    <3>3. totalSupply' > 0 BY <1>1, <1>2, <2>1, <2>2
    <3> QED BY <1>2, <3>2, <3>3
  <2>3. \/ totalSupply = 0
        \/ totalSupply' > 0 /\ totalSupply' * totalCelo <= totalSupply * totalCelo'
    <3>1. totalSupply = 0 \/ totalSupply > 0 BY <2>1
    <3> QED BY <2>2, <3>1
  <2> QED BY <1>2, <1>5, <1>7, <2>3, LocksSuffice
<1> QED BY <1>2, <1>5, <1>6, <1>7, <1>8, RecordsKept DEF IInv, Safe

(* Manager.withdraw: only what is not locked is burned.                    *)
LEMMA WithdrawInv ==
  ASSUME IInv, NEW v \in Voters, NEW n \in 1 .. MaxCelo, Withdraw(v, n)
  PROVE  IInv'
<1> DEFINE paid == toCelo(n)
<1>1. TypeOK /\ n \in Nat BY DEF IInv
<1>2. /\ totalSupply \in Nat /\ totalCelo \in Nat /\ balances \in [Voters -> Nat]
      /\ balances[v] \in Nat /\ lockedBalances \in [Voters -> Nat]
  BY <1>1 DEF TypeOK
<1>3. /\ n <= balances[v] /\ n < totalSupply
      /\ balances' = [balances EXCEPT ![v] = balances[v] - n]
      /\ totalSupply' = totalSupply - n
      /\ totalCelo' = totalCelo - paid
      /\ UNCHANGED <<lockedBalances, records, paused, referendum, cast, now>>
  BY DEF Withdraw, Spendable
<1>4. totalSupply > 0 /\ totalCelo > 0 BY <1>1, <1>2, <1>3 DEF IInv, Safe, RateDefined
<1>5. paid = (n * totalCelo) \div totalSupply BY <1>2, <1>4 DEF toCelo, OneToOne
<1>6. /\ paid \in Nat /\ paid < totalCelo
      /\ (totalSupply - n) * totalCelo <= totalSupply * (totalCelo - paid)
  <2>1. n < totalSupply BY <1>3
  <2>2. /\ (n * totalCelo) \div totalSupply \in Nat
        /\ (n * totalCelo) \div totalSupply < totalCelo
        /\ (totalSupply - n) * totalCelo
             <= totalSupply * (totalCelo - (n * totalCelo) \div totalSupply)
    BY <1>1, <1>2, <1>4, <2>1, WithdrawRate, Zenon
  <2> QED BY <1>5, <2>2, Zenon
<1> HIDE DEF paid
<1>7. totalSupply' \in Nat /\ totalSupply' > 0 /\ totalCelo' \in Nat /\ totalCelo' > 0
  BY <1>1, <1>2, <1>3, <1>6
<1>8. balances[v] - n \in Nat BY <1>1, <1>2, <1>3
<1>9. TypeOK' BY <1>1, <1>3, <1>7, <1>8 DEF TypeOK, records
<1>10. SupplyHeld'
  <2>1. Total(balances') = Total(balances) - balances[v] + (balances[v] - n)
    BY <1>2, <1>3, <1>8, MoveOne
  <2>2. Total(balances) \in Nat /\ Total(lockedBalances) \in Nat
    BY <1>2, UnitsFinite
  <2> QED BY <1>1, <1>2, <1>3, <2>1, <2>2 DEF SupplyHeld, IInv, Safe
<1>11. RateDefined' BY <1>7 DEF RateDefined
<1>12. LiveVotesLocked'
  <2>1. totalSupply' * totalCelo <= totalSupply * totalCelo' BY <1>3, <1>6
  <2> QED BY <1>3, <1>7, <1>9, <1>11, <2>1, LocksSuffice
<1> QED BY <1>3, <1>9, <1>10, <1>11, <1>12, RecordsKept DEF IInv, Safe

(* StakedCelo.transfer: only what is not locked moves.                     *)
LEMMA TransferInv ==
  ASSUME IInv, NEW from \in Voters, NEW to \in Voters, NEW n \in 1 .. MaxCelo,
         Transfer(from, to, n)
  PROVE  IInv'
<1> DEFINE taken == [balances EXCEPT ![from] = balances[from] - n]
<1>1. TypeOK /\ n \in Nat BY DEF IInv
<1>2. /\ balances \in [Voters -> Nat] /\ balances[from] \in Nat /\ balances[to] \in Nat
      /\ lockedBalances \in [Voters -> Nat] /\ totalSupply \in Nat
  BY <1>1 DEF TypeOK
<1>3. /\ from # to /\ n <= balances[from]
      /\ balances' = [taken EXCEPT ![to] = balances[to] + n]
      /\ UNCHANGED <<lockedBalances, totalSupply, records, paused, totalCelo,
                     referendum, cast, now>>
  BY <1>2 DEF Transfer, Spendable
<1>4. /\ balances[from] - n \in Nat /\ balances[to] + n \in Nat
      /\ taken \in [Voters -> Nat] /\ taken[to] = balances[to]
  BY <1>1, <1>2, <1>3
<1>5. Total(taken) = Total(balances) - balances[from] + (balances[from] - n)
  BY <1>2, <1>4, MoveOne
<1>t. taken \in [Voters -> Nat] /\ taken[to] = balances[to] BY <1>4
<1> HIDE DEF taken
<1>6. Total(balances') = Total(taken) - taken[to] + (balances[to] + n)
  BY <1>3, <1>4, <1>t, MoveOne
<1>7. Total(balances) \in Nat /\ Total(taken) \in Nat BY <1>2, <1>t, UnitsFinite
<1>8. Total(balances') = Total(balances) BY <1>1, <1>2, <1>t, <1>4, <1>5, <1>6, <1>7
<1>9. balances' \in [Voters -> Nat] BY <1>3, <1>4
<1>10. TypeOK' BY <1>1, <1>3, <1>9 DEF TypeOK, records
<1>11. SupplyHeld' BY <1>3, <1>8 DEF IInv, Safe, SupplyHeld
<1>12. RateDefined' BY <1>3 DEF IInv, Safe, RateDefined
<1>13. LiveVotesLocked'
  BY <1>3 DEF IInv, Safe, LiveVotesLocked, InReferendum, toStakedCelo, OneToOne, records
<1> QED BY <1>3, <1>10, <1>11, <1>12, <1>13, RecordsKept DEF IInv, Safe

(* Rewards raise the CELO in the system, so every lock backs more.         *)
LEMMA RewardInv ==
  ASSUME IInv, Reward
  PROVE  IInv'
<1>1. TypeOK BY DEF IInv
<1>2. /\ totalCelo' = totalCelo + 1
      /\ UNCHANGED <<tokens, records, paused, referendum, cast, now>>
      /\ UNCHANGED <<lockedBalances, totalSupply, balances>>
  BY DEF Reward, tokens
<1>3. totalCelo \in Nat /\ totalSupply \in Nat BY <1>1 DEF TypeOK
<1>4. TypeOK' BY <1>1, <1>2 DEF TypeOK, records
<1>5. SupplyHeld' BY <1>2 DEF IInv, Safe, SupplyHeld
<1>6. RateDefined' BY <1>2, <1>3 DEF RateDefined
<1>7. LiveVotesLocked'
  <2>1. totalSupply = 0 \/ totalSupply' > 0 BY <1>2, <1>3
  <2>2. totalSupply * totalCelo <= totalSupply * (totalCelo + 1) BY <1>3
  <2> QED BY <1>2, <1>4, <1>6, <2>1, <2>2, LocksSuffice
<1> QED BY <1>2, <1>4, <1>5, <1>6, <1>7, RecordsKept DEF IInv, Safe

(* One vote replaced: the tallies follow, and the vote enters the history. *)
LEMMA RecordInv ==
  ASSUME IInv, NEW v \in Voters, NEW p \in Proposals, NEW votes \in Weights,
         Record(v, p, votes), UNCHANGED <<referendum, now>>
  PROVE  /\ proposalVotes' \in [Voters -> [Proposals -> [Kinds -> Nat]]]
         /\ voted' \in [Voters -> [Proposals -> BOOLEAN]]
         /\ votedProposalIds' \in [Voters -> SUBSET Proposals]
         /\ voteRecords' \in [Proposals -> [Kinds -> Nat]]
         /\ proposalTimestamps' \in [Proposals -> Nat]
         /\ cast' \in [Proposals -> [Kinds -> Nat]]
         /\ Weighted' /\ TalliesAgree' /\ HistoryKept'
<1>1. TypeOK /\ Weighted /\ TalliesAgree /\ HistoryKept BY DEF IInv, Safe
<1>2. /\ InReferendum(p)
      /\ voteRecords' = [voteRecords EXCEPT ![p] = NewRecord(v, p, votes)]
      /\ cast' = [cast EXCEPT ![p] = NewRecord(v, p, votes)]
      /\ votedProposalIds' = [votedProposalIds EXCEPT ![v] = IF voted[v][p] THEN @ ELSE @ \cup {p}]
      /\ proposalVotes' = [proposalVotes EXCEPT ![v][p] = votes]
      /\ voted' = [voted EXCEPT ![v][p] = TRUE]
      /\ proposalTimestamps' = [proposalTimestamps EXCEPT ![p] = IF @ = 0 THEN referendum[p] ELSE @]
  BY DEF Record
<1>3. votes \in [Kinds -> Nat] BY WeightsFact
<1>4. \A k \in Kinds :
        /\ NewRecord(v, p, votes)[k] \in Nat
        /\ NewRecord(v, p, votes)[k] = Total([u \in Voters |-> proposalVotes'[u][p][k]])
  <2> SUFFICES ASSUME NEW k \in Kinds
               PROVE  /\ NewRecord(v, p, votes)[k] \in Nat
                      /\ NewRecord(v, p, votes)[k] = Total([u \in Voters |-> proposalVotes'[u][p][k]])
    OBVIOUS
  <2> DEFINE f == [u \in Voters |-> proposalVotes[u][p][k]]
  <2>1. f \in [Voters -> Nat] /\ f[v] = proposalVotes[v][p][k] /\ votes[k] \in Nat
    BY <1>1, <1>3 DEF TypeOK
  <2>2. voteRecords[p][k] = Total(f) BY <1>1 DEF TalliesAgree
  <2>3. NewRecord(v, p, votes)[k] = voteRecords[p][k] - proposalVotes[v][p][k] + votes[k]
    BY DEF NewRecord
  <2>4. [u \in Voters |-> proposalVotes'[u][p][k]] = [f EXCEPT ![v] = votes[k]]
    BY <1>1, <1>2 DEF TypeOK
  <2> HIDE DEF f
  <2>5. /\ Total([f EXCEPT ![v] = votes[k]]) = Total(f) - f[v] + votes[k]
        /\ Total(f) \in Nat /\ f[v] \in Nat /\ f[v] <= Total(f)
    BY <2>1, MoveOne
  <2> QED BY <2>1, <2>2, <2>3, <2>4, <2>5
<1>5. NewRecord(v, p, votes) \in [Kinds -> Nat] BY <1>4 DEF NewRecord
<1>6. voteRecords' \in [Proposals -> [Kinds -> Nat]] BY <1>1, <1>2, <1>5 DEF TypeOK
<1>7. cast' \in [Proposals -> [Kinds -> Nat]] BY <1>1, <1>2, <1>5 DEF TypeOK
<1>8. proposalVotes' \in [Voters -> [Proposals -> [Kinds -> Nat]]] BY <1>1, <1>2, <1>3 DEF TypeOK
<1>9. voted' \in [Voters -> [Proposals -> BOOLEAN]] BY <1>1, <1>2 DEF TypeOK
<1>10. votedProposalIds' \in [Voters -> SUBSET Proposals] BY <1>1, <1>2 DEF TypeOK
<1>11. proposalTimestamps' \in [Proposals -> Nat] BY <1>1, <1>2 DEF TypeOK
<1>12. Weighted' BY <1>1, <1>2 DEF TypeOK, Weighted
<1>13. TalliesAgree'
  <2> SUFFICES ASSUME NEW q \in Proposals, NEW k \in Kinds
               PROVE  /\ voteRecords'[q][k] = Total([u \in Voters |-> proposalVotes'[u][q][k]])
                      /\ cast'[q][k] = voteRecords'[q][k]
    BY DEF TalliesAgree
  <2>1. CASE q = p BY <1>1, <1>2, <1>4, <2>1 DEF TypeOK
  <2>2. CASE q # p
    <3>1. [u \in Voters |-> proposalVotes'[u][q][k]] = [u \in Voters |-> proposalVotes[u][q][k]]
      BY <1>1, <1>2, <2>2 DEF TypeOK
    <3>2. voteRecords'[q] = voteRecords[q] /\ cast'[q] = cast[q] BY <1>1, <1>2, <2>2 DEF TypeOK
    <3>3. /\ voteRecords[q][k] = Total([u \in Voters |-> proposalVotes[u][q][k]])
          /\ cast[q][k] = voteRecords[q][k]
      BY <1>1 DEF TalliesAgree
    <3> QED BY <3>1, <3>2, <3>3
  <2> QED BY <2>1, <2>2
<1>14. HistoryKept'
  <2>1. referendum[p] # 0 BY <1>2 DEF InReferendum
  <2>2. \A q \in Proposals : proposalTimestamps'[q] \in {0, referendum[q]}
    BY <1>1, <1>2 DEF TypeOK, HistoryKept
  <2> SUFFICES ASSUME NEW u \in Voters, NEW q \in Proposals
               PROVE  /\ ~voted'[u][q] => proposalVotes'[u][q] = NoVotes
                      /\ voted'[u][q] => referendum[q] # 0
                      /\ voted'[u][q] /\ InReferendum(q) =>
                           q \in votedProposalIds'[u] /\ proposalTimestamps'[q] = referendum[q]
    BY <2>2 DEF HistoryKept, InReferendum
  <2>3. CASE u = v /\ q = p
    <3>1. voted'[u][q] BY <1>1, <1>2, <2>3 DEF TypeOK
    <3>2. q \in votedProposalIds'[u]
      BY <1>1, <1>2, <2>3 DEF TypeOK, HistoryKept
    <3>3. proposalTimestamps'[q] = referendum[q]
      BY <1>1, <1>2, <2>3 DEF TypeOK, HistoryKept
    <3> QED BY <2>1, <2>3, <3>1, <3>2, <3>3
  <2>4. CASE ~(u = v /\ q = p)
    <3>1. voted'[u][q] = voted[u][q] /\ proposalVotes'[u][q] = proposalVotes[u][q]
      BY <1>1, <1>2, <2>4 DEF TypeOK
    <3>2. q \in votedProposalIds[u] => q \in votedProposalIds'[u]
      BY <1>1, <1>2 DEF TypeOK
    <3>3. proposalTimestamps[q] = referendum[q] => proposalTimestamps'[q] = referendum[q]
      BY <1>1, <1>2 DEF TypeOK
    <3> QED BY <1>1, <3>1, <3>2, <3>3 DEF HistoryKept
  <2> QED BY <2>3, <2>4
<1> QED BY <1>6, <1>7, <1>8, <1>9, <1>10, <1>11, <1>12, <1>13, <1>14

(* voteProposal: the vote replaces the voter's earlier one, and locks what *)
(* it weighs.                                                              *)
LEMMA VoteInv ==
  ASSUME IInv, NEW v \in Voters, NEW p \in Proposals, NEW votes \in Weights,
         VoteProposal(v, p, votes)
  PROVE  IInv'
<1> DEFINE amount == toStakedCelo(Total(votes))
<1>1. /\ Record(v, p, votes) /\ LockVoteBalance(v, amount)
      /\ UNCHANGED <<paused, totalCelo, referendum, now>>
  BY DEF VoteProposal
<1>2. Total(votes) \in Nat BY WeightsFact
<1>3. amount \in Nat BY <1>2, Conversions DEF IInv
<1>4. toStakedCelo(Total(votes)) = amount OBVIOUS
<1> HIDE DEF amount
<1>5. /\ TypeOK /\ SupplyHeld
      /\ balances \in [Voters -> Nat] /\ lockedBalances \in [Voters -> Nat]
      /\ totalSupply \in Nat
      /\ balances[v] \in Nat /\ lockedBalances[v] \in Nat
  BY DEF IInv, Safe, TypeOK
<1>6. /\ balances' \in [Voters -> Nat] /\ lockedBalances' \in [Voters -> Nat]
      /\ totalSupply' = totalSupply
      /\ SupplyHeld'
      /\ amount <= lockedBalances'[v]
      /\ \A u \in Voters : lockedBalances'[u] >= lockedBalances[u]
  <2>1. CASE amount - lockedBalances[v] <= 0 /\ UNCHANGED tokens
    <3>1. UNCHANGED <<balances, lockedBalances, totalSupply>> BY <2>1 DEF tokens
    <3>2. amount <= lockedBalances[v] BY <1>3, <1>5, <2>1
    <3> QED BY <1>5, <3>1, <3>2 DEF SupplyHeld
  <2>2. CASE /\ amount - lockedBalances[v] > 0
             /\ amount - lockedBalances[v] <= balances[v]
             /\ lockedBalances' = [lockedBalances EXCEPT ![v] = amount]
             /\ balances' = [balances EXCEPT ![v] = balances[v] - (amount - lockedBalances[v])]
             /\ UNCHANGED totalSupply
    <3> DEFINE rest == balances[v] - (amount - lockedBalances[v])
    <3>1. rest \in Nat BY <1>3, <1>5, <2>2
    <3>2. balances' = [balances EXCEPT ![v] = rest] BY <2>2
    <3> HIDE DEF rest
    <3>3. Total(balances') = Total(balances) - balances[v] + rest
      BY <1>5, <3>1, <3>2, MoveOne
    <3>4. Total(lockedBalances') = Total(lockedBalances) - lockedBalances[v] + amount
      BY <1>3, <1>5, <2>2, MoveOne
    <3>5. Total(balances) \in Nat /\ Total(lockedBalances) \in Nat BY <1>5, UnitsFinite
    <3>6. totalSupply = Total(balances) + Total(lockedBalances) BY <1>5 DEF SupplyHeld
    <3>7. Total(balances') + Total(lockedBalances') = totalSupply
      BY <1>3, <1>5, <3>3, <3>4, <3>5, <3>6 DEF rest
    <3>8. SupplyHeld' BY <2>2, <3>7 DEF SupplyHeld
    <3>9. balances' \in [Voters -> Nat] /\ lockedBalances' \in [Voters -> Nat]
      BY <1>3, <1>5, <2>2, <3>1, <3>2
    <3>10. /\ lockedBalances'[v] = amount
           /\ \A u \in Voters : u # v => lockedBalances'[u] = lockedBalances[u]
      BY <1>5, <2>2
    <3>11. amount > lockedBalances[v] BY <1>3, <1>5, <2>2
    <3>12. \A u \in Voters : lockedBalances'[u] >= lockedBalances[u]
      BY <1>3, <1>5, <3>10, <3>11
    <3> QED BY <1>3, <2>2, <3>8, <3>9, <3>10, <3>12
  <2> QED BY <1>1, <2>1, <2>2 DEF LockVoteBalance
<1>7. UNCHANGED <<referendum, now>> BY <1>1
<1>8. /\ proposalVotes' \in [Voters -> [Proposals -> [Kinds -> Nat]]]
      /\ voted' \in [Voters -> [Proposals -> BOOLEAN]]
      /\ votedProposalIds' \in [Voters -> SUBSET Proposals]
      /\ voteRecords' \in [Proposals -> [Kinds -> Nat]]
      /\ proposalTimestamps' \in [Proposals -> Nat]
      /\ cast' \in [Proposals -> [Kinds -> Nat]]
      /\ Weighted' /\ TalliesAgree' /\ HistoryKept'
  BY <1>1, <1>7, RecordInv
<1>9. TypeOK' BY <1>1, <1>5, <1>6, <1>8 DEF TypeOK
<1>10. RateDefined' BY <1>1, <1>6 DEF IInv, Safe, RateDefined
<1>11. LiveVotesLocked'
  <2>1. proposalVotes' = [proposalVotes EXCEPT ![v][p] = votes] BY <1>1 DEF Record
  <2>2. ASSUME NEW u \in Voters, NEW q \in Proposals, InReferendum(q)'
        PROVE  \/ /\ InReferendum(q)
                  /\ proposalVotes'[u][q] = proposalVotes[u][q]
                  /\ lockedBalances'[u] >= lockedBalances[u]
               \/ toStakedCelo(Total(proposalVotes'[u][q])) <= lockedBalances'[u]
    <3>1. InReferendum(q) BY <1>7, <2>2 DEF InReferendum
    <3>2. CASE u = v /\ q = p
      <4>1. proposalVotes'[u][q] = votes BY <1>5, <2>1, <3>2 DEF TypeOK
      <4> QED BY <1>4, <1>6, <3>2, <4>1
    <3>3. CASE ~(u = v /\ q = p)
      <4>1. proposalVotes'[u][q] = proposalVotes[u][q] BY <1>5, <2>1, <3>3 DEF TypeOK
      <4> QED BY <1>6, <3>1, <4>1
    <3> QED BY <3>2, <3>3
  <2> QED BY <1>1, <1>6, <1>9, <2>2, LocksKept
<1> QED BY <1>6, <1>8, <1>9, <1>10, <1>11 DEF IInv, Safe

(* revokeVotes: the vote is taken out of the tally.                        *)
LEMMA RevokeInv ==
  ASSUME IInv, NEW v \in Voters, NEW p \in Proposals, RevokeVotes(v, p)
  PROVE  IInv'
<1>1. /\ Record(v, p, NoVotes) /\ UNCHANGED <<tokens, paused, totalCelo, referendum, now>>
      /\ UNCHANGED <<balances, lockedBalances, totalSupply, referendum, now>>
  BY DEF RevokeVotes, tokens
<1>2. NoVotes \in Weights /\ Total(NoVotes) = 0 BY WeightsFact
<1>3. /\ proposalVotes' \in [Voters -> [Proposals -> [Kinds -> Nat]]]
      /\ voted' \in [Voters -> [Proposals -> BOOLEAN]]
      /\ votedProposalIds' \in [Voters -> SUBSET Proposals]
      /\ voteRecords' \in [Proposals -> [Kinds -> Nat]]
      /\ proposalTimestamps' \in [Proposals -> Nat]
      /\ cast' \in [Proposals -> [Kinds -> Nat]]
      /\ Weighted' /\ TalliesAgree' /\ HistoryKept'
  BY <1>1, <1>2, RecordInv
<1>4. TypeOK BY DEF IInv
<1>5. TypeOK' BY <1>1, <1>3, <1>4 DEF TypeOK
<1>6. SupplyHeld' /\ RateDefined' BY <1>1 DEF IInv, Safe, SupplyHeld, RateDefined
<1>7. LiveVotesLocked'
  <2>1. proposalVotes' = [proposalVotes EXCEPT ![v][p] = NoVotes] BY <1>1 DEF Record
  <2>2. ASSUME NEW u \in Voters, NEW q \in Proposals, InReferendum(q)'
        PROVE  \/ Total(proposalVotes'[u][q]) = 0
               \/ /\ InReferendum(q)
                  /\ proposalVotes'[u][q] = proposalVotes[u][q]
                  /\ lockedBalances'[u] >= lockedBalances[u]
    <3>1. InReferendum(q) BY <1>1, <2>2 DEF InReferendum
    <3>2. proposalVotes'[u][q] \in {NoVotes, proposalVotes[u][q]}
      BY <1>4, <2>1 DEF TypeOK
    <3>3. lockedBalances'[u] >= lockedBalances[u] BY <1>1, <1>4 DEF TypeOK
    <3> QED BY <1>2, <3>1, <3>2, <3>3
  <2> QED BY <1>1, <1>5, <2>2, LocksKept
<1> QED BY <1>3, <1>5, <1>6, <1>7 DEF IInv, Safe

(* Histories and timestamps lose only what is over.                        *)
Purges ==
  /\ UNCHANGED <<proposalVotes, voted, voteRecords, referendum, cast, now>>
  /\ votedProposalIds' \in [Voters -> SUBSET Proposals]
  /\ proposalTimestamps' \in [Proposals -> Nat]
  /\ \A p \in Proposals :
       \/ proposalTimestamps'[p] = proposalTimestamps[p]
       \/ Expired(p) /\ proposalTimestamps'[p] = 0
       \/ proposalTimestamps'[p] = 0 /\ proposalTimestamps[p] = 0
  /\ \A v \in Voters : \A p \in votedProposalIds[v] :
       p \in votedProposalIds'[v] \/ Expired(p) \/ proposalTimestamps[p] = 0

(* Then no live vote leaves a history, nor its timestamp.                  *)
LEMMA PurgeInv ==
  ASSUME IInv, Purges
  PROVE  Weighted' /\ TalliesAgree' /\ HistoryKept'
<1>1. TypeOK /\ Weighted /\ TalliesAgree /\ HistoryKept BY DEF IInv, Safe
<1>2. Weighted' /\ TalliesAgree' BY <1>1 DEF Purges, Weighted, TalliesAgree
<1>3. \A p \in Proposals : proposalTimestamps'[p] \in {0, referendum'[p]}
  BY <1>1 DEF Purges, HistoryKept
<1>4. ASSUME NEW v \in Voters, NEW p \in Proposals, voted[v][p], InReferendum(p)
      PROVE  p \in votedProposalIds'[v] /\ proposalTimestamps'[p] = referendum[p]
  <2>1. /\ p \in votedProposalIds[v] /\ proposalTimestamps[p] = referendum[p]
        /\ referendum[p] # 0
    BY <1>1, <1>4 DEF HistoryKept
  <2>2. /\ referendum[p] \in Nat /\ now \in Nat /\ ReferendumDuration \in Nat
        /\ now < referendum[p] + ReferendumDuration
    BY <1>1, <1>4 DEF TypeOK, InReferendum
  <2>3. ~Expired(p) BY <2>1, <2>2 DEF Expired
  <2> QED BY <2>1, <2>3 DEF Purges
<1>5. HistoryKept' BY <1>1, <1>3, <1>4 DEF Purges, HistoryKept, InReferendum
<1> QED BY <1>2, <1>5

(* Updating a voter's history drops only votes that no longer count.       *)
LEMMA UpdatedHistoryInv ==
  ASSUME IInv, NEW v \in Voters, UpdatedHistory(v), UNCHANGED <<referendum, cast, now>>
  PROVE  /\ votedProposalIds' \in [Voters -> SUBSET Proposals]
         /\ proposalTimestamps' \in [Proposals -> Nat]
         /\ Weighted' /\ TalliesAgree' /\ HistoryKept'
<1>1. TypeOK BY DEF IInv
<1>2. /\ votedProposalIds' = [votedProposalIds EXCEPT ![v] = StillRelevant(v)]
      /\ proposalTimestamps' = TimestampsKept(v)
      /\ UNCHANGED <<proposalVotes, voted, voteRecords>>
  BY DEF UpdatedHistory
<1>3. StillRelevant(v) \subseteq Proposals BY <1>1 DEF StillRelevant, TypeOK
<1>4. votedProposalIds' \in [Voters -> SUBSET Proposals] BY <1>1, <1>2, <1>3 DEF TypeOK
<1>5. proposalTimestamps' \in [Proposals -> Nat] BY <1>1, <1>2 DEF TypeOK, TimestampsKept
<1>6. \A p \in Proposals : \/ proposalTimestamps'[p] = proposalTimestamps[p]
                           \/ Expired(p) /\ proposalTimestamps'[p] = 0
                           \/ proposalTimestamps'[p] = 0 /\ proposalTimestamps[p] = 0
  BY <1>2 DEF TimestampsKept
<1>7. \A u \in Voters : \A p \in votedProposalIds[u] :
        p \in votedProposalIds'[u] \/ Expired(p) \/ proposalTimestamps[p] = 0
  BY <1>1, <1>2 DEF StillRelevant, TypeOK
<1>8. UNCHANGED <<proposalVotes, voted, voteRecords, referendum, cast, now>> BY <1>2
<1>9. Purges BY <1>4, <1>5, <1>6, <1>7, <1>8 DEF Purges
<1> QED BY <1>4, <1>5, <1>9, PurgeInv

(* What leaves tokens, rates, votes and Governance alone leaves every live *)
(* vote locked.                                                            *)
LEMMA TokensKept ==
  ASSUME IInv, UNCHANGED <<balances, lockedBalances, totalSupply, totalCelo, proposalVotes>>
  PROVE  /\ SupplyHeld' /\ RateDefined'
         /\ UNCHANGED <<referendum, now>> => LiveVotesLocked'
<1>1. SupplyHeld' /\ RateDefined' BY DEF IInv, Safe, SupplyHeld, RateDefined
<1>2. ASSUME UNCHANGED <<referendum, now>> PROVE LiveVotesLocked'
  BY <1>2 DEF IInv, Safe, LiveVotesLocked, InReferendum, toStakedCelo, OneToOne
<1> QED BY <1>1, <1>2

(* updateHistoryAndReturnLockedStCeloInVoting.                             *)
LEMMA UpdateHistoryInv ==
  ASSUME IInv, NEW v \in Voters, UpdateHistory(v)
  PROVE  IInv'
<1>1. /\ UpdatedHistory(v)
      /\ UNCHANGED <<balances, lockedBalances, totalSupply, paused, totalCelo, referendum, cast, now>>
      /\ UNCHANGED <<proposalVotes, voted, voteRecords>>
  BY DEF UpdateHistory, UpdatedHistory, tokens
<1>2. /\ votedProposalIds' \in [Voters -> SUBSET Proposals]
      /\ proposalTimestamps' \in [Proposals -> Nat]
      /\ Weighted' /\ TalliesAgree' /\ HistoryKept'
  BY <1>1, UpdatedHistoryInv
<1>3. TypeOK' BY <1>1, <1>2 DEF IInv, TypeOK
<1>4. SupplyHeld' /\ RateDefined' /\ LiveVotesLocked' BY <1>1, TokensKept
<1> QED BY <1>2, <1>3, <1>4 DEF IInv, Safe

(* unlockVoteBalance: what is unlocked backs no vote that still counts.    *)
LEMMA UnlockInv ==
  ASSUME IInv, NEW v \in Voters, UnlockVoteBalance(v)
  PROVE  IInv'
<1> DEFINE kept == toStakedCelo(LockedInVoting(v))
<1>1. /\ TypeOK /\ Weighted /\ SupplyHeld /\ HistoryKept
      /\ balances \in [Voters -> Nat] /\ lockedBalances \in [Voters -> Nat]
      /\ totalSupply \in Nat
      /\ balances[v] \in Nat /\ lockedBalances[v] \in Nat
  BY DEF IInv, Safe, TypeOK
<1>2. /\ LockedInVoting(v) \in Nat
      /\ \A p \in StillRelevant(v) : Total(proposalVotes[v][p]) <= LockedInVoting(v)
  BY <1>1, LockedFact
<1>3. kept \in Nat BY <1>1, <1>2, Conversions
<1>4. /\ lockedBalances[v] > kept
      /\ UpdatedHistory(v)
      /\ lockedBalances' = [lockedBalances EXCEPT ![v] = kept]
      /\ balances' = [balances EXCEPT ![v] = balances[v] + lockedBalances[v] - kept]
      /\ UNCHANGED <<totalSupply, paused, totalCelo, referendum, cast, now>>
      /\ UNCHANGED <<proposalVotes, voted, voteRecords>>
  BY DEF UnlockVoteBalance, UpdatedHistory
<1>5. /\ votedProposalIds' \in [Voters -> SUBSET Proposals]
      /\ proposalTimestamps' \in [Proposals -> Nat]
      /\ Weighted' /\ TalliesAgree' /\ HistoryKept'
  BY <1>4, UpdatedHistoryInv
<1>6. toStakedCelo(LockedInVoting(v)) = kept OBVIOUS
<1> HIDE DEF kept
<1> DEFINE freed == balances[v] + lockedBalances[v] - kept
<1>7. freed \in Nat BY <1>1, <1>3, <1>4
<1>8. balances' = [balances EXCEPT ![v] = freed] BY <1>4
<1>9. freed + kept = balances[v] + lockedBalances[v] BY <1>1, <1>3
<1> HIDE DEF freed
<1>10. TypeOK' BY <1>1, <1>3, <1>4, <1>5, <1>7, <1>8 DEF TypeOK
<1>11. SupplyHeld'
  <2>1. Total(balances') = Total(balances) - balances[v] + freed
    BY <1>1, <1>7, <1>8, MoveOne
  <2>2. Total(lockedBalances') = Total(lockedBalances) - lockedBalances[v] + kept
    BY <1>1, <1>3, <1>4, MoveOne
  <2>3. Total(balances) \in Nat /\ Total(lockedBalances) \in Nat BY <1>1, UnitsFinite
  <2>4. totalSupply = Total(balances) + Total(lockedBalances) BY <1>1 DEF SupplyHeld
  <2>5. Total(balances') + Total(lockedBalances') = totalSupply
    BY <1>1, <1>3, <1>7, <1>9, <2>1, <2>2, <2>3, <2>4
  <2> QED BY <1>4, <2>5 DEF SupplyHeld
<1>12. RateDefined' BY <1>4 DEF IInv, Safe, RateDefined
<1>13. LiveVotesLocked'
  <2>1. ASSUME NEW u \in Voters, NEW q \in Proposals, InReferendum(q)'
        PROVE  \/ Total(proposalVotes'[u][q]) = 0
               \/ /\ InReferendum(q)
                  /\ proposalVotes'[u][q] = proposalVotes[u][q]
                  /\ lockedBalances'[u] >= lockedBalances[u]
               \/ toStakedCelo(Total(proposalVotes'[u][q])) <= lockedBalances'[u]
    <3>1. InReferendum(q) /\ proposalVotes'[u][q] = proposalVotes[u][q]
      BY <1>4, <2>1 DEF InReferendum
    <3>2. CASE u # v
      <4>1. lockedBalances'[u] = lockedBalances[u] /\ lockedBalances[u] \in Nat
        BY <1>1, <1>4, <3>2
      <4> QED BY <3>1, <4>1
    <3>3. CASE u = v /\ ~voted[v][q]
      <4>1. proposalVotes[v][q] = NoVotes BY <1>1, <3>3 DEF HistoryKept
      <4> QED BY <3>1, <3>3, <4>1, WeightsFact
    <3>4. CASE u = v /\ voted[v][q]
      <4>1. /\ q \in votedProposalIds[v] /\ proposalTimestamps[q] = referendum[q]
            /\ referendum[q] # 0
        BY <1>1, <3>1, <3>4 DEF HistoryKept
      <4>2. /\ referendum[q] \in Nat /\ now \in Nat
            /\ now < referendum[q] + ReferendumDuration
        BY <1>1, <3>1 DEF TypeOK, InReferendum
      <4>3. q \in StillRelevant(v) BY <4>1, <4>2 DEF StillRelevant, Expired
      <4>4. proposalVotes[v][q] \in Weights BY <1>1 DEF Weighted
      <4>5. Total(proposalVotes[v][q]) \in Nat BY <4>4, WeightsFact
      <4>6. Total(proposalVotes[v][q]) <= LockedInVoting(v) BY <1>2, <4>3
      <4>7. toStakedCelo(Total(proposalVotes[v][q])) <= kept
        BY <1>1, <1>2, <1>6, <4>5, <4>6, ConversionMono
      <4>8. lockedBalances'[v] = kept BY <1>1, <1>4
      <4> QED BY <3>1, <3>4, <4>7, <4>8
    <3> QED BY <3>2, <3>3, <3>4
  <2> QED BY <1>4, <1>10, <2>1, LocksKept
<1> QED BY <1>5, <1>10, <1>11, <1>12, <1>13 DEF IInv, Safe

(* deleteExpiredVoterProposalId: an expired vote is dropped from a voter's *)
(* history.                                                                *)
LEMMA DeleteIdInv ==
  ASSUME IInv, NEW v \in Voters, NEW p \in Proposals, DeleteExpiredVoterProposalId(v, p)
  PROVE  IInv'
<1>1. /\ proposalTimestamps[p] # 0 => Expired(p)
      /\ votedProposalIds' = [votedProposalIds EXCEPT ![v] = votedProposalIds[v] \ {p}]
      /\ proposalTimestamps' = [proposalTimestamps EXCEPT ![p] = 0]
      /\ UNCHANGED <<balances, lockedBalances, totalSupply, proposalVotes, voted, voteRecords,
                     paused, totalCelo, referendum, cast, now>>
  BY DEF DeleteExpiredVoterProposalId, tokens
<1>2. TypeOK BY DEF IInv
<1>3. votedProposalIds' \in [Voters -> SUBSET Proposals] BY <1>1, <1>2 DEF TypeOK
<1>4. proposalTimestamps' \in [Proposals -> Nat] BY <1>1, <1>2 DEF TypeOK
<1>5. TypeOK' BY <1>1, <1>2, <1>3, <1>4 DEF TypeOK
<1>6. \A q \in Proposals : \/ proposalTimestamps'[q] = proposalTimestamps[q]
                           \/ Expired(q) /\ proposalTimestamps'[q] = 0
                           \/ proposalTimestamps'[q] = 0 /\ proposalTimestamps[q] = 0
  BY <1>1, <1>2 DEF TypeOK
<1>7. \A u \in Voters : \A q \in votedProposalIds[u] :
        q \in votedProposalIds'[u] \/ Expired(q) \/ proposalTimestamps[q] = 0
  BY <1>1, <1>2 DEF TypeOK
<1>u. UNCHANGED <<proposalVotes, voted, voteRecords, referendum, cast, now>> BY <1>1
<1>p. Purges BY <1>3, <1>4, <1>6, <1>7, <1>u DEF Purges
<1>8. Weighted' /\ TalliesAgree' /\ HistoryKept' BY <1>p, PurgeInv
<1>9. SupplyHeld' /\ RateDefined' /\ LiveVotesLocked' BY <1>1, TokensKept
<1> QED BY <1>5, <1>8, <1>9 DEF IInv, Safe

(* deleteExpiredProposalTimestamp.                                         *)
LEMMA DeleteTimestampInv ==
  ASSUME IInv, NEW p \in Proposals, DeleteExpiredProposalTimestamp(p)
  PROVE  IInv'
<1>1. /\ Expired(p)
      /\ proposalTimestamps' = [proposalTimestamps EXCEPT ![p] = 0]
      /\ UNCHANGED <<balances, lockedBalances, totalSupply, proposalVotes, voted,
                     votedProposalIds, voteRecords, paused, totalCelo, referendum, cast, now>>
  BY DEF DeleteExpiredProposalTimestamp, tokens
<1>2. TypeOK BY DEF IInv
<1>3. votedProposalIds' \in [Voters -> SUBSET Proposals] BY <1>1, <1>2 DEF TypeOK
<1>4. proposalTimestamps' \in [Proposals -> Nat] BY <1>1, <1>2 DEF TypeOK
<1>5. TypeOK' BY <1>1, <1>2, <1>3, <1>4 DEF TypeOK
<1>6. \A q \in Proposals : \/ proposalTimestamps'[q] = proposalTimestamps[q]
                           \/ Expired(q) /\ proposalTimestamps'[q] = 0
                           \/ proposalTimestamps'[q] = 0 /\ proposalTimestamps[q] = 0
  BY <1>1, <1>2 DEF TypeOK
<1>7. \A u \in Voters : \A q \in votedProposalIds[u] :
        q \in votedProposalIds'[u] \/ Expired(q) \/ proposalTimestamps[q] = 0
  BY <1>1
<1>u. UNCHANGED <<proposalVotes, voted, voteRecords, referendum, cast, now>> BY <1>1
<1>p. Purges BY <1>3, <1>4, <1>6, <1>7, <1>u DEF Purges
<1>8. Weighted' /\ TalliesAgree' /\ HistoryKept' BY <1>p, PurgeInv
<1>9. SupplyHeld' /\ RateDefined' /\ LiveVotesLocked' BY <1>1, TokensKept
<1> QED BY <1>5, <1>8, <1>9 DEF IInv, Safe

(* Governance dequeues a proposal for which nobody has voted before.       *)
LEMMA DequeueInv ==
  ASSUME IInv, NEW p \in Proposals, Dequeue(p)
  PROVE  IInv'
<1>1. /\ referendum[p] = 0 /\ referendum' = [referendum EXCEPT ![p] = now]
      /\ UNCHANGED <<balances, lockedBalances, totalSupply, proposalVotes, voted, votedProposalIds,
                     voteRecords, proposalTimestamps, paused, totalCelo, cast, now>>
  BY DEF Dequeue, tokens, records
<1>2. TypeOK /\ Weighted /\ TalliesAgree /\ HistoryKept BY DEF IInv, Safe
<1>3. TypeOK' BY <1>1, <1>2 DEF TypeOK
<1>4. Weighted' /\ TalliesAgree' BY <1>1, <1>2 DEF Weighted, TalliesAgree
<1>5. \A q \in Proposals : q # p => referendum'[q] = referendum[q]
  BY <1>1, <1>2 DEF TypeOK
<1>6. \A v \in Voters : ~voted[v][p] /\ proposalVotes[v][p] = NoVotes
  BY <1>1, <1>2 DEF HistoryKept
<1>7. HistoryKept' BY <1>1, <1>2, <1>5, <1>6 DEF HistoryKept, InReferendum
<1>8. SupplyHeld' /\ RateDefined' BY <1>1, TokensKept
<1>9. LiveVotesLocked'
  <2>1. ASSUME NEW v \in Voters, NEW q \in Proposals, InReferendum(q)'
        PROVE  \/ Total(proposalVotes'[v][q]) = 0
               \/ /\ InReferendum(q)
                  /\ proposalVotes'[v][q] = proposalVotes[v][q]
                  /\ lockedBalances'[v] >= lockedBalances[v]
    <3>1. CASE q = p BY <1>1, <1>6, <3>1, WeightsFact
    <3>2. CASE q # p
      <4>1. InReferendum(q) BY <1>1, <1>5, <2>1, <3>2 DEF InReferendum
      <4>2. lockedBalances'[v] = lockedBalances[v] /\ lockedBalances[v] \in Nat
        BY <1>1, <1>2 DEF TypeOK
      <4> QED BY <1>1, <4>1, <4>2
    <3> QED BY <3>1, <3>2
  <2> QED BY <1>1, <1>3, <2>1, LocksKept
<1> QED BY <1>3, <1>4, <1>7, <1>8, <1>9 DEF IInv, Safe

(* Time passes, and votes only expire.                                     *)
LEMMA TickInv ==
  ASSUME IInv, Tick
  PROVE  IInv'
<1>1. /\ now' = now + 1
      /\ UNCHANGED <<balances, lockedBalances, totalSupply, proposalVotes, voted, votedProposalIds,
                     voteRecords, proposalTimestamps, paused, totalCelo, referendum, cast>>
  BY DEF Tick, tokens, records
<1>2. TypeOK /\ Weighted /\ TalliesAgree /\ HistoryKept BY DEF IInv, Safe
<1>3. TypeOK' BY <1>1, <1>2 DEF TypeOK
<1>4. Weighted' /\ TalliesAgree' BY <1>1, <1>2 DEF Weighted, TalliesAgree
<1>5. \A q \in Proposals : InReferendum(q)' => InReferendum(q)
  BY <1>1, <1>2 DEF InReferendum, TypeOK
<1>6. HistoryKept' BY <1>1, <1>2, <1>5 DEF HistoryKept
<1>7. SupplyHeld' /\ RateDefined' BY <1>1, TokensKept
<1>8. \A v \in Voters : lockedBalances'[v] >= lockedBalances[v] BY <1>1, <1>2 DEF TypeOK
<1>9. LiveVotesLocked' BY <1>1, <1>3, <1>5, <1>8, LocksKept
<1> QED BY <1>3, <1>4, <1>6, <1>7, <1>9 DEF IInv, Safe

(* Pausing changes nothing the invariant speaks of.                        *)
LEMMA PauseInv ==
  ASSUME IInv, PauseChange \/ UNCHANGED vars
  PROVE  IInv'
<1>1. /\ UNCHANGED <<balances, lockedBalances, totalSupply, proposalVotes, voted, votedProposalIds,
                     voteRecords, proposalTimestamps, totalCelo, referendum, cast, now>>
      /\ UNCHANGED <<records, referendum, cast, now>>
      /\ paused \subseteq Pausables => paused' \subseteq Pausables
  BY DEF PauseChange, vars, tokens, records
<1>2. TypeOK' BY <1>1 DEF IInv, TypeOK
<1>3. Weighted' /\ TalliesAgree' /\ HistoryKept' BY <1>1, RecordsKept
<1>4. SupplyHeld' /\ RateDefined' /\ LiveVotesLocked' BY <1>1, TokensKept
<1> QED BY <1>2, <1>3, <1>4 DEF IInv, Safe

(* So does every step.                                                     *)
LEMMA NextInv == IInv /\ [Next]_vars => IInv'
<1> SUFFICES ASSUME IInv, [Next]_vars PROVE IInv' OBVIOUS
<1>1. CASE \E v \in Voters, n \in 1 .. MaxCelo : Deposit(v, n) \/ Withdraw(v, n)
  BY <1>1, DepositInv, WithdrawInv
<1>2. CASE \E from, to \in Voters, n \in 1 .. MaxCelo : Transfer(from, to, n)
  BY <1>2, TransferInv
<1>3. CASE \E v \in Voters, p \in Proposals :
             \/ \E votes \in Weights : VoteProposal(v, p, votes)
             \/ RevokeVotes(v, p)
             \/ DeleteExpiredVoterProposalId(v, p)
  BY <1>3, VoteInv, RevokeInv, DeleteIdInv
<1>4. CASE \E v \in Voters : UpdateHistory(v) \/ UnlockVoteBalance(v)
  BY <1>4, UpdateHistoryInv, UnlockInv
<1>5. CASE \E p \in Proposals : DeleteExpiredProposalTimestamp(p) \/ Dequeue(p)
  BY <1>5, DeleteTimestampInv, DequeueInv
<1>6. CASE Reward BY <1>6, RewardInv
<1>7. CASE Tick BY <1>7, TickInv
<1>8. CASE PauseChange \/ UNCHANGED vars BY <1>8, PauseInv
<1> QED BY <1>1, <1>2, <1>3, <1>4, <1>5, <1>6, <1>7, <1>8 DEF Next

----------------------------------------------------------------------------
(* The invariant holds of every behaviour.                                 *)
THEOREM AlwaysSafe == Spec => []IInv
<1>1. IInv /\ UNCHANGED vars => IInv' BY PauseInv
<1> QED BY InitInv, NextInv, PTL DEF Spec

(* Every variable keeps its type: in particular no tally and no supply     *)
(* goes below zero, where the contracts' subtractions would revert.        *)
THEOREM TypeCorrect == Spec => []TypeOK
<1>1. IInv => TypeOK BY DEF IInv
<1> QED BY <1>1, AlwaysSafe, PTL

(* Locking and unlocking neither create nor destroy stCELO.                *)
THEOREM SupplyAlwaysHeld == Spec => []SupplyHeld
<1>1. IInv => SupplyHeld BY DEF IInv, Safe
<1> QED BY <1>1, AlwaysSafe, PTL

(* The tally of every proposal is the sum of the voters' votes, and what   *)
(* Governance was told.                                                    *)
THEOREM TalliesAlwaysAgree == Spec => []TalliesAgree
<1>1. IInv => TalliesAgree BY DEF IInv, Safe
<1> QED BY <1>1, AlwaysSafe, PTL

(* Every vote that Governance still counts has its stCELO locked.          *)
THEOREM LiveVotesAlwaysLocked == Spec => []LiveVotesLocked
<1>1. IInv => LiveVotesLocked BY DEF IInv, Safe
<1> QED BY <1>1, AlwaysSafe, PTL

(* What one voter's lock backs, without the division.                      *)
LEMMA VoteBacked ==
  ASSUME IInv, totalSupply > 0, NEW v \in Voters, NEW p \in Proposals, InReferendum(p)
  PROVE  Total(proposalVotes[v][p]) * totalSupply <= (lockedBalances[v] + 1) * totalCelo
<1> DEFINE w == Total(proposalVotes[v][p])
<1>1. w \in Nat
  <2>1. proposalVotes[v][p] \in Weights BY DEF IInv, Safe, Weighted
  <2> QED BY <2>1, WeightsFact
<1>2. toStakedCelo(w) <= lockedBalances[v] BY DEF IInv, Safe, LiveVotesLocked
<1> HIDE DEF w
<1>3. /\ totalSupply \in Nat /\ totalCelo \in Nat /\ lockedBalances[v] \in Nat
      /\ totalCelo > 0
  BY DEF IInv, Safe, TypeOK, RateDefined
<1> DEFINE q == (w * totalSupply) \div totalCelo
<1>4. w * totalSupply \in Nat BY <1>1, <1>3, ProductNat
<1>5. q \in Nat /\ w * totalSupply < q * totalCelo + totalCelo BY <1>3, <1>4, DivFact
<1>6. toStakedCelo(w) = q BY <1>3 DEF toStakedCelo, OneToOne
<1> HIDE DEF q
<1>7. q + 1 <= lockedBalances[v] + 1 BY <1>2, <1>3, <1>5, <1>6
<1>8. (q + 1) * totalCelo <= (lockedBalances[v] + 1) * totalCelo
  BY <1>3, <1>5, <1>7, ProductMono
<1>9. (q + 1) * totalCelo = q * totalCelo + totalCelo BY <1>3, <1>5
<1>10. q * totalCelo \in Nat /\ (lockedBalances[v] + 1) * totalCelo \in Nat
  BY <1>3, <1>5, ProductNat
<1> QED BY <1>3, <1>4, <1>5, <1>8, <1>9, <1>10 DEF w

(* No stCELO votes twice: the votes on a proposal, all voters together,    *)
(* are backed by the CELO of the protocol.                                 *)
THEOREM VotesAlwaysBacked == Spec => []VotesBacked
<1>1. ASSUME IInv PROVE VotesBacked
  <2> SUFFICES ASSUME NEW p \in Proposals, InReferendum(p)
               PROVE  Total([v \in Voters |-> Total(proposalVotes[v][p])]) * totalSupply
                        <= totalCelo * (totalSupply + Cardinality(Voters))
    BY DEF VotesBacked
  <2> DEFINE f == [v \in Voters |-> Total(proposalVotes[v][p])]
             ones == [v \in Voters |-> 1]
             locks == Plus(lockedBalances, ones)
  <2>1. f \in [Voters -> Nat]
    <3>1. \A v \in Voters : proposalVotes[v][p] \in Weights BY <1>1 DEF IInv, Safe, Weighted
    <3> QED BY <3>1, WeightsFact
  <2>2. /\ totalSupply \in Nat /\ totalCelo \in Nat
        /\ balances \in [Voters -> Nat] /\ lockedBalances \in [Voters -> Nat]
    BY <1>1 DEF IInv, TypeOK
  <2>3. ones \in [Voters -> Nat] /\ Total(ones) = Cardinality(Voters) BY TotalOnes
  <2>4. /\ locks \in [Voters -> Nat]
        /\ \A v \in Voters : locks[v] = lockedBalances[v] + 1
    BY <2>2 DEF Plus
  <2>5. Total(locks) = Total(lockedBalances) + Cardinality(Voters)
    BY <2>2, <2>3, TotalPlus
  <2>6. /\ Total(f) \in Nat /\ Total(locks) \in Nat
        /\ Total(balances) \in Nat /\ Total(lockedBalances) \in Nat
        /\ Cardinality(Voters) \in Nat
    BY <2>1, <2>2, <2>4, UnitsFinite, FS_CardinalityType
  <2>7. Total(locks) <= totalSupply + Cardinality(Voters)
    BY <1>1, <2>2, <2>5, <2>6 DEF IInv, Safe, SupplyHeld
  <2>8. \A v \in Voters : f[v] = Total(proposalVotes[v][p]) OBVIOUS
  <2> HIDE DEF f, ones, locks
  <2>9. CASE totalSupply = 0
    <3>1. Total(f) * totalSupply = 0 BY <2>6, <2>9
    <3>2. totalCelo * (totalSupply + Cardinality(Voters)) \in Nat BY <2>2, <2>6
    <3> QED BY <3>1, <3>2 DEF f
  <2>10. CASE totalSupply > 0
    <3>1. /\ Times(f, totalSupply) \in [Voters -> Nat]
          /\ Total(Times(f, totalSupply)) = Total(f) * totalSupply
      BY <2>1, <2>2, TotalTimes
    <3>2. /\ Times(locks, totalCelo) \in [Voters -> Nat]
          /\ Total(Times(locks, totalCelo)) = Total(locks) * totalCelo
      BY <2>2, <2>4, TotalTimes
    <3>3. \A v \in Voters : Times(f, totalSupply)[v] <= Times(locks, totalCelo)[v]
      <4> SUFFICES ASSUME NEW v \in Voters
                   PROVE  Times(f, totalSupply)[v] <= Times(locks, totalCelo)[v]
        OBVIOUS
      <4>1. f[v] * totalSupply <= locks[v] * totalCelo
        BY <1>1, <2>4, <2>8, <2>10, VoteBacked
      <4>2. Times(f, totalSupply)[v] = f[v] * totalSupply BY <2>1 DEF Times
      <4>3. Times(locks, totalCelo)[v] = locks[v] * totalCelo BY <2>4 DEF Times
      <4> QED BY <4>1, <4>2, <4>3
    <3>4. Total(f) * totalSupply <= Total(locks) * totalCelo
      BY <3>1, <3>2, <3>3, TotalMono
    <3>5. Total(locks) * totalCelo <= (totalSupply + Cardinality(Voters)) * totalCelo
      BY <2>2, <2>6, <2>7, ProductMono
    <3>6. /\ Total(f) * totalSupply \in Nat /\ Total(locks) * totalCelo \in Nat
          /\ (totalSupply + Cardinality(Voters)) * totalCelo \in Nat
      BY <2>2, <2>6, ProductNat
    <3>7. (totalSupply + Cardinality(Voters)) * totalCelo
            = totalCelo * (totalSupply + Cardinality(Voters))
      BY <2>2, <2>6
    <3>8. Total(f) * totalSupply <= totalCelo * (totalSupply + Cardinality(Voters))
      BY <3>4, <3>5, <3>6, <3>7
    <3> QED BY <3>8 DEF f
  <2> QED BY <2>2, <2>9, <2>10
<1> QED BY <1>1, AlwaysSafe, PTL

----------------------------------------------------------------------------
(* Swap and pop: the last entry takes the place of the one that goes.      *)
LEMMA SwapFact ==
  ASSUME NEW S, NEW s \in Seq(S), NEW i \in 1 .. Len(s)
  PROVE  /\ Drop(s, i) \in Seq(S) /\ Len(Drop(s, i)) = Len(s) - 1
         /\ \A j \in 1 .. Len(s) - 1 : Drop(s, i)[j] = IF j = i THEN s[Len(s)] ELSE s[j]
<1> DEFINE t == [s EXCEPT ![i] = s[Len(s)]]
           n == Len(s)
<1>1. n \in Nat /\ n \in 1 .. n /\ s[n] \in S OBVIOUS
<1>2. t \in Seq(S) /\ Len(t) = n /\ \A j \in 1 .. n : t[j] = IF j = i THEN s[n] ELSE s[j]
  BY <1>1
<1>3. Drop(s, i) = SubSeq(t, 1, n - 1) BY DEF Drop
<1> HIDE DEF t, n
<1>4. /\ SubSeq(t, 1, n - 1) \in Seq(S) /\ Len(SubSeq(t, 1, n - 1)) = n - 1
      /\ \A j \in 1 .. n - 1 : SubSeq(t, 1, n - 1)[j] = t[j]
  BY <1>1, <1>2
<1>5. \A j \in 1 .. n - 1 : j \in 1 .. n BY <1>1
<1> QED BY <1>2, <1>3, <1>4, <1>5 DEF n

(* The larger of two numbers.                                              *)
LEMMA MaxPair ==
  ASSUME NEW a \in Nat, NEW b \in Nat
  PROVE  Max({a, b}) \in {a, b} /\ a <= Max({a, b}) /\ b <= Max({a, b})
<1>1. {a, b} \subseteq Nat /\ {a, b} # {} /\ \A x \in {a, b} : x <= a + b OBVIOUS
<1>2. a + b \in Nat OBVIOUS
<1>3. Max({a, b}) \in {a, b} /\ \A x \in {a, b} : Max({a, b}) >= x
  BY <1>1, <1>2, MaxFact
<1> QED BY <1>3

(* The proposals the loop has come by after k turns, from the end.         *)
Past(ids, k) == {ids[q] : q \in Len(ids) + 1 - k .. Len(ids)}

(* An order in which the history of v may be stored: no proposal twice.    *)
Array(v, ids) ==
  /\ ids \in Seq(Proposals)
  /\ \A i \in 1 .. Len(ids) : ids[i] \in votedProposalIds[v]
  /\ \A i, j \in 1 .. Len(ids) : i # j => ids[i] # ids[j]

(* The timestamps once those of S are forgotten.                           *)
Forgotten(S) == [p \in Proposals |-> IF p \in S THEN 0 ELSE proposalTimestamps[p]]

Weight(v, p) == Total(proposalVotes[v][p])

(* The array s in the course of the loop over ids, c entries from its end: *)
(* the first c are as they were, behind them are those kept, in any order. *)
SweptIds(s, ids, c, kept) ==
  /\ s \in Seq(Proposals) /\ Len(s) >= c
  /\ \A i, j \in 1 .. Len(s) : i # j => s[i] # s[j]
  /\ \A j \in 1 .. c : s[j] = ids[j]
  /\ \A j \in c + 1 .. Len(s) : s[j] \in kept
  /\ \A p \in kept : \E j \in c + 1 .. Len(s) : s[j] = p

(* The largest weight of the proposals kept, or zero.                      *)
SweptLock(v, amount, kept) ==
  /\ amount \in {0} \cup {Weight(v, p) : p \in kept}
  /\ \A p \in kept : Weight(v, p) <= amount

(* The invariant of the loop: h is its state after k turns.                *)
Swept(v, ids, h, k) ==
  LET kept == Past(ids, k) \cap StillRelevant(v)
  IN  /\ h = [ids |-> h.ids, timestamps |-> h.timestamps, lockedAmount |-> h.lockedAmount]
      /\ SweptIds(h.ids, ids, Len(ids) - k, kept)
      /\ h.timestamps = Forgotten(Past(ids, k) \ StillRelevant(v))
      /\ SweptLock(v, h.lockedAmount, kept)

(* What has to be shown of a state of the loop.                            *)
LEMMA SweptFact ==
  ASSUME NEW v, NEW ids, NEW k, NEW r, NEW s, NEW t, NEW amount, NEW kept, NEW gone,
         r = [ids |-> s, timestamps |-> t, lockedAmount |-> amount],
         kept = Past(ids, k) \cap StillRelevant(v), gone = Past(ids, k) \ StillRelevant(v),
         SweptIds(s, ids, Len(ids) - k, kept), t = Forgotten(gone), SweptLock(v, amount, kept)
  PROVE  Swept(v, ids, r, k)
<1>1. r.ids = s /\ r.timestamps = t /\ r.lockedAmount = amount OBVIOUS
<1> QED BY <1>1 DEF Swept

(* Each turn comes by one more proposal, a new one.                        *)
LEMMA PastFact ==
  ASSUME NEW v, NEW ids, Array(v, ids), NEW k \in 1 .. Len(ids)
  PROVE  /\ Len(ids) + 1 - k \in 1 .. Len(ids)
         /\ Past(ids, k) = Past(ids, k - 1) \cup {ids[Len(ids) + 1 - k]}
         /\ ids[Len(ids) + 1 - k] \notin Past(ids, k - 1)
         /\ Past(ids, 0) = {}
<1> DEFINE n == Len(ids)
           i == n + 1 - k
<1>1. n \in Nat BY DEF Array
<1> HIDE DEF n
<1>2. /\ i \in 1 .. n
      /\ \A q : q \in n + 1 - k .. n <=> q \in n + 1 - (k - 1) .. n \/ q = i
      /\ \A q \in n + 1 - (k - 1) .. n : q \in 1 .. n /\ q # i
      /\ n + 1 - 0 .. n = {}
  BY <1>1 DEF n
<1> HIDE DEF i
<1>3. Past(ids, k) = Past(ids, k - 1) \cup {ids[i]} BY <1>2 DEF Past, n, i
<1>4. ids[i] \notin Past(ids, k - 1) BY <1>2 DEF Past, n, i, Array
<1>5. Past(ids, 0) = {} BY <1>2 DEF Past, n
<1> QED BY <1>2, <1>3, <1>4, <1>5 DEF n, i

(* A turn that keeps the entry.                                            *)
LEMMA KeepIds ==
  ASSUME NEW s, NEW ids, NEW c \in Nat, c # 0, NEW kept, SweptIds(s, ids, c, kept)
  PROVE  SweptIds(s, ids, c - 1, kept \cup {ids[c]})
<1> DEFINE L == Len(s)
<1>1. L \in Nat /\ L >= c BY DEF SweptIds
<1> HIDE DEF L
<1>2. /\ L >= c - 1
      /\ \A j \in 1 .. c - 1 : j \in 1 .. c
      /\ \A j \in c - 1 + 1 .. L : j = c \/ j \in c + 1 .. L
      /\ \A j \in c + 1 .. L : j \in c - 1 + 1 .. L
      /\ c \in c - 1 + 1 .. L /\ c \in 1 .. c
  BY <1>1
<1> QED BY <1>2 DEF SweptIds, L

(* A turn that drops the entry: the one moved into its place was kept by   *)
(* an earlier turn, so that it need not be looked at again.                *)
LEMMA DropIds ==
  ASSUME NEW s, NEW ids, NEW c \in Nat, c # 0, NEW kept, SweptIds(s, ids, c, kept)
  PROVE  SweptIds(Drop(s, c), ids, c - 1, kept)
<1> DEFINE L == Len(s)
           t == Drop(s, c)
<1>1. L \in Nat /\ L >= c /\ s \in Seq(Proposals) BY DEF SweptIds
<1>2. c \in 1 .. L BY <1>1
<1>3. t \in Seq(Proposals) /\ Len(t) = L - 1
      /\ \A j \in 1 .. L - 1 : t[j] = IF j = c THEN s[L] ELSE s[j]
  BY <1>1, <1>2, SwapFact
<1> HIDE DEF t, L
<1> DEFINE old(j) == IF j = c THEN L ELSE j
<1>4. \A j \in 1 .. L - 1 : old(j) \in 1 .. L /\ t[j] = s[old(j)] BY <1>1, <1>2, <1>3
<1>5. \A i, j \in 1 .. L - 1 : i # j => old(i) # old(j) BY <1>1
<1>6. \A j \in c - 1 + 1 .. L - 1 : j \in 1 .. L - 1 /\ old(j) \in c + 1 .. L BY <1>1, <1>2
<1>7. \A j \in c + 1 .. L : \E i \in c - 1 + 1 .. L - 1 : old(i) = j
  <2> SUFFICES ASSUME NEW j \in c + 1 .. L PROVE \E i \in c - 1 + 1 .. L - 1 : old(i) = j
    OBVIOUS
  <2>1. CASE j = L
    <3>1. c \in c - 1 + 1 .. L - 1 /\ old(c) = j BY <1>1, <2>1
    <3> QED BY <3>1
  <2>2. CASE j # L
    <3>1. j \in c - 1 + 1 .. L - 1 /\ old(j) = j BY <1>1, <2>2
    <3> QED BY <3>1
  <2> QED BY <2>1, <2>2
<1>8. \A j \in 1 .. c - 1 : j \in 1 .. c /\ j \in 1 .. L - 1 /\ old(j) = j BY <1>1
<1>9. L - 1 >= c - 1 BY <1>1
<1> HIDE DEF old
<1>10. \A i, j \in 1 .. L - 1 : i # j => t[i] # t[j] BY <1>4, <1>5 DEF SweptIds, L
<1>11. \A j \in 1 .. c - 1 : t[j] = ids[j] BY <1>4, <1>8 DEF SweptIds
<1>12. \A j \in c - 1 + 1 .. L - 1 : t[j] \in kept BY <1>4, <1>6 DEF SweptIds, L
<1>13. \A p \in kept : \E j \in c - 1 + 1 .. L - 1 : t[j] = p
  <2> SUFFICES ASSUME NEW p \in kept PROVE \E j \in c - 1 + 1 .. L - 1 : t[j] = p OBVIOUS
  <2>1. PICK j \in c + 1 .. L : s[j] = p BY DEF SweptIds, L
  <2>2. PICK i \in c - 1 + 1 .. L - 1 : old(i) = j BY <1>7
  <2> QED BY <1>4, <1>6, <2>1, <2>2
<1>14. SweptIds(t, ids, c - 1, kept) BY <1>3, <1>9, <1>10, <1>11, <1>12, <1>13 DEF SweptIds
<1> QED BY <1>14 DEF t

(* Each turn keeps the invariant of the loop.                              *)
LEMMA TurnFact ==
  ASSUME TypeOK, Weighted, NEW v \in Voters, NEW ids, Array(v, ids),
         NEW k \in 1 .. Len(ids), NEW h, Swept(v, ids, h, k - 1)
  PROVE  Swept(v, ids, Turn(v, h, Len(ids) + 1 - k), k)
<1> DEFINE n == Len(ids)
           i == n + 1 - k
           c == n - (k - 1)
           p == ids[i]
           relevant == StillRelevant(v)
           past == Past(ids, k - 1)
           now2 == Past(ids, k)
           kept == past \cap relevant
           r == Turn(v, h, i)
<1>1. n \in Nat /\ c \in Nat /\ c # 0 /\ i = c /\ c - 1 = n - k
  BY DEF Array
<1>2. i \in 1 .. n /\ now2 = past \cup {p} /\ p \notin past BY PastFact
<1>3. p \in votedProposalIds[v] /\ p \in Proposals
  BY <1>2 DEF Array, TypeOK
<1>4. /\ h = [ids |-> h.ids, timestamps |-> h.timestamps, lockedAmount |-> h.lockedAmount]
      /\ SweptIds(h.ids, ids, c, kept)
      /\ h.timestamps = Forgotten(past \ relevant)
      /\ SweptLock(v, h.lockedAmount, kept)
  BY DEF Swept
<1>5. h.ids[i] = p
  <2>1. c \in 1 .. c BY <1>1
  <2> QED BY <1>1, <1>4, <2>1 DEF SweptIds
<1>6. h.timestamps[p] = proposalTimestamps[p] /\ proposalTimestamps[p] \in Nat
  BY <1>2, <1>3, <1>4 DEF Forgotten, TypeOK
<1>7. p \in relevant <=> proposalTimestamps[p] # 0 /\ now <= proposalTimestamps[p] + ReferendumDuration
  <2>1. now \in Nat /\ ReferendumDuration \in Nat BY DEF TypeOK
  <2> QED BY <1>3, <1>6, <2>1 DEF StillRelevant, Expired
<1>w. Weight(v, p) \in Nat BY <1>3, WeightsFact DEF Weight, Weighted
<1>8. CASE p \in relevant
  <2>1. r = [h EXCEPT !.lockedAmount = Max({@, Weight(v, p)})]
    BY <1>5, <1>6, <1>7, <1>8 DEF Turn, Weight
  <2> DEFINE amount == Max({h.lockedAmount, Weight(v, p)})
  <2>2. r = [ids |-> h.ids, timestamps |-> h.timestamps, lockedAmount |-> amount]
    <3> HIDE DEF r
    <3> QED BY <1>4, <2>1
  <2>3. now2 \cap relevant = kept \cup {p} /\ now2 \ relevant = past \ relevant
    BY <1>2, <1>8
  <2>4. SweptIds(h.ids, ids, c - 1, kept \cup {p})
    <3> HIDE DEF kept, c, p, i
    <3>1. SweptIds(h.ids, ids, c - 1, kept \cup {ids[c]}) BY <1>1, <1>4, KeepIds
    <3> QED BY <1>1, <3>1 DEF p
  <2>5. h.lockedAmount \in Nat
    <3>1. \A q \in kept : Weight(v, q) \in Nat
      <4>1. relevant \subseteq Proposals BY DEF StillRelevant, TypeOK
      <4> QED BY <4>1, WeightsFact DEF Weight, Weighted
    <3> HIDE DEF kept
    <3> QED BY <1>4, <3>1 DEF SweptLock
  <2>6. /\ amount \in {h.lockedAmount, Weight(v, p)}
        /\ h.lockedAmount <= amount /\ Weight(v, p) <= amount
    BY <1>w, <2>5, MaxPair
  <2>7. SweptLock(v, amount, kept \cup {p})
    <3>1. \A q \in kept : Weight(v, q) \in Nat
      <4>1. relevant \subseteq Proposals BY DEF StillRelevant, TypeOK
      <4> QED BY <4>1, WeightsFact DEF Weight, Weighted
    <3>2. amount \in Nat BY <1>w, <2>5, <2>6
    <3> HIDE DEF kept, amount, p
    <3> QED BY <1>4, <1>w, <2>5, <2>6, <3>1, <3>2 DEF SweptLock
  <2> DEFINE kept2 == kept \cup {p}
             gone2 == past \ relevant
  <2>8. kept2 = now2 \cap relevant /\ gone2 = now2 \ relevant BY <2>3
  <2>9. SweptIds(h.ids, ids, n - k, kept2) BY <1>1, <2>4
  <2>10. SweptLock(v, amount, kept2) BY <2>7
  <2>11. h.timestamps = Forgotten(gone2) BY <1>4
  <2> HIDE DEF r, amount, kept2, gone2
  <2>12. Swept(v, ids, r, k) BY <2>2, <2>8, <2>9, <2>10, <2>11, SweptFact
  <2> QED BY <2>12 DEF r
<1>9. CASE p \notin relevant
  <2>1. r = [h EXCEPT !.ids = Drop(@, i), !.timestamps[p] = 0]
    BY <1>5, <1>6, <1>7, <1>9 DEF Turn
  <2> DEFINE t == [h.timestamps EXCEPT ![p] = 0]
  <2>2. r = [ids |-> Drop(h.ids, i), timestamps |-> t, lockedAmount |-> h.lockedAmount]
    <3> HIDE DEF r
    <3> QED BY <1>4, <2>1
  <2>3. now2 \cap relevant = kept /\ now2 \ relevant = (past \ relevant) \cup {p}
    BY <1>2, <1>9
  <2>4. SweptIds(Drop(h.ids, i), ids, c - 1, kept)
    <3> HIDE DEF kept, c, p, i
    <3>1. SweptIds(Drop(h.ids, c), ids, c - 1, kept) BY <1>1, <1>4, DropIds
    <3> QED BY <1>1, <3>1
  <2>5. t = Forgotten((past \ relevant) \cup {p})
    <3> DEFINE gone == past \ relevant
    <3>1. h.timestamps = Forgotten(gone) BY <1>4
    <3> HIDE DEF gone, p
    <3> QED BY <1>3, <3>1 DEF Forgotten, gone
  <2> DEFINE s == Drop(h.ids, i)
             gone2 == (past \ relevant) \cup {p}
  <2>8. kept = now2 \cap relevant /\ gone2 = now2 \ relevant BY <2>3
  <2>9. SweptIds(s, ids, n - k, kept) BY <1>1, <2>4
  <2>10. SweptLock(v, h.lockedAmount, kept) BY <1>4
  <2>11. t = Forgotten(gone2) BY <2>5
  <2> HIDE DEF r, s, t, kept, gone2
  <2>12. Swept(v, ids, r, k) BY <2>2, <2>8, <2>9, <2>10, <2>11, SweptFact DEF s
  <2> QED BY <2>12 DEF r
<1> QED BY <1>8, <1>9

(* The loop ends with every proposal swept. Its states are a recursive     *)
(* function of the number of turns; that there is one, and that it keeps   *)
(* the invariant, is shown with the least number of turns that would be an *)
(* exception.                                                              *)
LEMMA LoopFact ==
  ASSUME TypeOK, Weighted, NEW v \in Voters, NEW ids, Array(v, ids)
  PROVE  Swept(v, ids, Loop(v, ids), Len(ids))
<1> DEFINE n == Len(ids)
           first == [ids |-> ids, timestamps |-> proposalTimestamps, lockedAmount |-> 0]
           Obeys(f) == f = [k \in 0 .. n |-> IF k = 0 THEN first
                                             ELSE Turn(v, f[k - 1], n + 1 - k)]
           turn == CHOOSE f : Obeys(f)
<1>1. n \in Nat BY DEF Array
<1>2. Loop(v, ids) = turn[n] BY DEF Loop
<1>3. Swept(v, ids, first, 0)
  <2> DEFINE kept == Past(ids, 0) \cap StillRelevant(v)
             gone == Past(ids, 0) \ StillRelevant(v)
  <2>1. Past(ids, 0) = {} BY <1>1 DEF Past
  <2>2. kept = {} /\ gone = {} BY <2>1
  <2>3. SweptIds(ids, ids, n - 0, kept)
    <3>1. n - 0 = n /\ n + 1 .. n = {} BY <1>1
    <3> HIDE DEF kept
    <3> QED BY <2>2, <3>1 DEF SweptIds, Array
  <2>4. SweptLock(v, 0, kept) BY <2>2 DEF SweptLock
  <2>5. proposalTimestamps = Forgotten(gone) BY <2>2 DEF Forgotten, TypeOK
  <2>6. first = [ids |-> ids, timestamps |-> proposalTimestamps, lockedAmount |-> 0] OBVIOUS
  <2>7. kept = Past(ids, 0) \cap StillRelevant(v) /\ gone = Past(ids, 0) \ StillRelevant(v)
    OBVIOUS
  <2> HIDE DEF kept, gone, first
  <2> QED BY <2>3, <2>4, <2>5, <2>6, <2>7, SweptFact
<1> HIDE DEF first
<1> DEFINE After(g, k) == Turn(v, g, n + 1 - k)
           Upto(f, m) == f = [k \in 0 .. m |-> IF k = 0 THEN first ELSE After(f[k - 1], k)]
           stuck == {m \in 0 .. n : ~ \E f : Upto(f, m)}
<1>4. stuck = {}
  <2> HIDE DEF After
  <2> SUFFICES ASSUME stuck # {} PROVE FALSE OBVIOUS
  <2>1. stuck \subseteq Nat BY <1>1
  <2>2. PICK m \in stuck : \A j \in stuck : m <= j
    <3> HIDE DEF stuck
    <3> QED BY <2>1, MinExists
  <2>3. m \in 0 .. n /\ ~ \E f : Upto(f, m) BY <2>2
  <2>4. CASE m = 0
    <3> DEFINE f == [k \in 0 .. 0 |-> first]
    <3>1. Upto(f, 0) OBVIOUS
    <3> HIDE DEF Upto
    <3> QED BY <2>3, <2>4, <3>1
  <2>5. CASE m # 0
    <3>1. m - 1 \in 0 .. n /\ ~(m <= m - 1) /\ m \in Nat BY <1>1, <2>3, <2>5
    <3>2. m - 1 \notin stuck BY <2>2, <3>1
    <3>3. PICK f : Upto(f, m - 1) BY <3>1, <3>2
    <3> DEFINE g == [k \in 0 .. m |-> IF k = m THEN After(f[m - 1], m) ELSE f[k]]
    <3>4. \A k \in 0 .. m : k # m => k \in 0 .. m - 1 BY <3>1
    <3>5. \A k \in 0 .. m - 1 : f[k] = IF k = 0 THEN first ELSE After(f[k - 1], k) BY <3>3
    <3>6. \A k \in 0 .. m : k # 0 => k - 1 \in 0 .. m /\ k - 1 # m BY <3>1
    <3>7. \A k \in 0 .. m : k # 0 => g[k - 1] = f[k - 1] BY <3>6
    <3>8. \A k \in 0 .. m : g[k] = IF k = 0 THEN first ELSE After(g[k - 1], k)
      <4> SUFFICES ASSUME NEW k \in 0 .. m
                   PROVE  g[k] = IF k = 0 THEN first ELSE After(g[k - 1], k)
        OBVIOUS
      <4>1. CASE k = m
        <5>1. g[k] = After(f[m - 1], m) BY <4>1
        <5> HIDE DEF g
        <5> QED BY <2>5, <3>7, <4>1, <5>1
      <4>2. CASE k # m
        <5>1. g[k] = f[k] BY <4>2
        <5> HIDE DEF g
        <5> QED BY <3>4, <3>5, <3>7, <4>2, <5>1
      <4> QED BY <4>1, <4>2
    <3>9. g = [k \in 0 .. m |-> g[k]] OBVIOUS
    <3> HIDE DEF g
    <3>10. Upto(g, m) BY <3>8, <3>9
    <3> QED BY <2>3, <3>10
  <2> QED BY <2>4, <2>5
<1>5. Obeys(turn)
  <2>1. \E f : Upto(f, n) BY <1>1, <1>4
  <2>2. \E f : Obeys(f) BY <2>1
  <2> HIDE DEF Obeys
  <2> QED BY <2>2
<1>6. turn[0] = first /\ \A k \in 1 .. n : turn[k] = After(turn[k - 1], k)
  <2> HIDE DEF turn
  <2>1. 0 \in 0 .. n /\ \A k \in 1 .. n : k \in 0 .. n /\ k # 0 BY <1>1
  <2> QED BY <1>5, <2>1
<1> HIDE DEF turn, Obeys, Upto, stuck
<1> DEFINE wrong == {k \in 0 .. n : ~Swept(v, ids, turn[k], k)}
<1>7. wrong = {}
  <2> SUFFICES ASSUME wrong # {} PROVE FALSE OBVIOUS
  <2>1. wrong \subseteq Nat BY <1>1
  <2>2. PICK m \in wrong : \A j \in wrong : m <= j
    <3> HIDE DEF wrong
    <3> QED BY <2>1, MinExists
  <2>3. m \in 0 .. n /\ ~Swept(v, ids, turn[m], m) BY <2>2
  <2>4. CASE m = 0 BY <1>3, <1>6, <2>3, <2>4
  <2>5. CASE m # 0
    <3>1. m - 1 \in 0 .. n /\ ~(m <= m - 1) /\ m \in 1 .. n BY <1>1, <2>3, <2>5
    <3>2. Swept(v, ids, turn[m - 1], m - 1) BY <2>2, <3>1
    <3>3. Swept(v, ids, After(turn[m - 1], m), m) BY <3>1, <3>2, TurnFact
    <3> HIDE DEF After
    <3> QED BY <1>6, <2>3, <3>1, <3>3
  <2> QED BY <2>4, <2>5
<1>8. Swept(v, ids, turn[n], n) BY <1>1, <1>7
<1> QED BY <1>2, <1>8

(* Every order of a finite history is such an array, with all of it.       *)
LEMMA ArrayFact ==
  ASSUME TypeOK, NEW v \in Voters, IsFiniteSet(votedProposalIds[v]),
         NEW ids \in SetToSeqs(votedProposalIds[v])
  PROVE  Array(v, ids) /\ Past(ids, Len(ids)) = votedProposalIds[v]
<1> DEFINE S == votedProposalIds[v]
           n == Cardinality(S)
<1>1. n \in Nat BY FS_CardinalityType
<1>2. S \subseteq Proposals BY DEF TypeOK
<1> HIDE DEF S, n
<1>3. ids \in [1 .. n -> S] /\ \A i, j \in 1 .. n : i # j => ids[i] # ids[j]
  BY DEF SetToSeqs, S, n
<1>4. ids \in Seq(Proposals) /\ Len(ids) = n BY <1>1, <1>2, <1>3
<1>5. Array(v, ids) BY <1>3, <1>4 DEF Array, S
<1>6. \A x \in S : \E i \in 1 .. n : ids[i] = x
  <2>1. ids \in Injection(1 .. n, S) BY <1>3 DEF Injection, IsInjective
  <2>2. IsFiniteSet(1 .. n) /\ Cardinality(1 .. n) = n
    <3>1. 1 \in Int /\ n \in Int BY <1>1
    <3> QED BY <1>1, <3>1, FS_Interval
  <2>3. ids \in Surjection(1 .. n, S)
    <3>1. IsFiniteSet(S) BY DEF S
    <3>2. Cardinality(1 .. n) = Cardinality(S) BY <2>2 DEF n
    <3> QED BY <2>1, <3>1, <3>2, FS_Injection
  <2> QED BY <2>3 DEF Surjection
<1>7. Past(ids, Len(ids)) = S
  <2>1. Len(ids) + 1 - Len(ids) = 1 BY <1>1, <1>4
  <2> QED BY <1>3, <1>4, <1>6, <2>1 DEF Past
<1> QED BY <1>5, <1>7 DEF S

(* A sequence of all members of R, none twice, is one of its orders.       *)
LEMMA SeqsFact ==
  ASSUME NEW R, NEW s \in Seq(R), \A i, j \in 1 .. Len(s) : i # j => s[i] # s[j],
         \A x \in R : \E i \in 1 .. Len(s) : s[i] = x
  PROVE  s \in SetToSeqs(R)
<1> DEFINE n == Len(s)
<1>1. n \in Nat /\ s \in [1 .. n -> R] OBVIOUS
<1>2. IsFiniteSet(1 .. n) /\ Cardinality(1 .. n) = n
  <2>1. 1 \in Int /\ n \in Int BY <1>1
  <2> QED BY <1>1, <2>1, FS_Interval
<1>3. s \in Surjection(1 .. n, R) /\ s \in Injection(1 .. n, R)
  BY <1>1 DEF Surjection, Injection, IsInjective
<1>4. Cardinality(R) = n BY <1>2, <1>3, FS_Surjection
<1> HIDE DEF n
<1> QED BY <1>1, <1>4 DEF SetToSeqs, n

(* A voter has voted on finitely many proposals.                           *)
Finite == \A v \in Voters : IsFiniteSet(votedProposalIds[v])

(* In every state that the invariant allows, the loop does what Voting     *)
(* says.                                                                   *)
LEMMA HistoryFact == IInv /\ Finite => HistoryUpdated
<1> SUFFICES ASSUME IInv, Finite, NEW v \in Voters,
                    NEW ids \in SetToSeqs(votedProposalIds[v])
             PROVE  /\ Loop(v, ids).ids \in SetToSeqs(StillRelevant(v))
                    /\ Loop(v, ids).timestamps = TimestampsKept(v)
                    /\ Loop(v, ids).lockedAmount = LockedInVoting(v)
  BY DEF HistoryUpdated
<1> DEFINE S == votedProposalIds[v]
           R == StillRelevant(v)
           h == Loop(v, ids)
           n == Len(ids)
<1>1. TypeOK /\ Weighted BY DEF IInv, Safe
<1>2. Array(v, ids) /\ Past(ids, n) = S BY <1>1, ArrayFact DEF Finite
<1>3. Swept(v, ids, h, n) BY <1>1, <1>2, LoopFact
<1>4. R \subseteq S /\ S \subseteq Proposals BY <1>1 DEF StillRelevant, TypeOK
<1>5. Past(ids, n) \cap R = R BY <1>2, <1>4
<1>6. /\ SweptIds(h.ids, ids, n - n, R)
      /\ h.timestamps = Forgotten(S \ R)
      /\ SweptLock(v, h.lockedAmount, R)
  BY <1>2, <1>3, <1>5 DEF Swept
<1>7. h.ids \in SetToSeqs(R)
  <2> DEFINE s == h.ids
             L == Len(s)
  <2>1. n - n = 0 /\ n - n + 1 = 1 BY <1>2 DEF Array
  <2>2. SweptIds(s, ids, 0, R) BY <1>6, <2>1
  <2> HIDE DEF s, R
  <2>3. /\ s \in Seq(Proposals) /\ \A i, j \in 1 .. L : i # j => s[i] # s[j]
        /\ \A j \in 1 .. L : s[j] \in R
        /\ \A p \in R : \E j \in 1 .. L : s[j] = p
    BY <2>2 DEF SweptIds
  <2>4. s \in Seq(R) BY <2>3
  <2>5. s \in SetToSeqs(R) BY <2>3, <2>4, SeqsFact
  <2> QED BY <2>5 DEF s
<1>8. h.timestamps = TimestampsKept(v)
  <2>1. \A p \in Proposals : p \in S \ R <=> p \in S /\ (Expired(p) \/ proposalTimestamps[p] = 0)
    BY DEF StillRelevant
  <2>2. \A p \in Proposals : (IF p \in S \ R THEN 0 ELSE proposalTimestamps[p])
                               = IF p \in S /\ Expired(p) THEN 0 ELSE proposalTimestamps[p]
    <3> HIDE DEF S, R
    <3> QED BY <2>1
  <2> HIDE DEF h
  <2> QED BY <1>6, <2>2 DEF Forgotten, TimestampsKept
<1>9. h.lockedAmount = LockedInVoting(v)
  <2> DEFINE weights == {0} \cup {Weight(v, p) : p \in R}
             m == h.lockedAmount
  <2>1. \A p \in R : Weight(v, p) \in Nat
    BY <1>1, <1>4, WeightsFact DEF Weight, Weighted
  <2>2. m \in weights /\ \A p \in R : Weight(v, p) <= m BY <1>6 DEF SweptLock
  <2>3. weights \subseteq Nat BY <2>1
  <2>4. m \in Nat /\ \A x \in weights : x <= m BY <2>2, <2>3
  <2>5. LockedInVoting(v) = Max(weights) BY DEF LockedInVoting, Weight
  <2> HIDE DEF weights, m
  <2>6. Max(weights) \in weights /\ \A x \in weights : Max(weights) >= x
    <3>1. weights # {} BY <2>2
    <3> QED BY <2>3, <2>4, <3>1, MaxFact
  <2>7. Max(weights) = m
    <3>1. Max(weights) \in Nat /\ Max(weights) <= m BY <2>3, <2>4, <2>6
    <3>2. Max(weights) >= m BY <2>2, <2>6
    <3> QED BY <2>4, <3>1, <3>2
  <2> QED BY <2>5, <2>7 DEF m
<1> QED BY <1>7, <1>8, <1>9

(* Histories grow by one proposal at a time.                               *)
LEMMA FiniteStep ==
  ASSUME TypeOK, Finite, [Next]_vars
  PROVE  Finite'
<1> DEFINE Grows(v, S) == votedProposalIds' = [votedProposalIds EXCEPT ![v] = S]
<1>0. votedProposalIds \in [Voters -> SUBSET Proposals] BY DEF TypeOK
<1>1. ASSUME NEW v \in Voters, NEW S, IsFiniteSet(S), Grows(v, S) PROVE Finite'
  BY <1>0, <1>1 DEF Finite
<1>2. CASE UNCHANGED votedProposalIds BY <1>2 DEF Finite
<1>3. ASSUME NEW v \in Voters, NEW p, NEW votes, Record(v, p, votes) PROVE Finite'
  <2> DEFINE S == IF voted[v][p] THEN votedProposalIds[v] ELSE votedProposalIds[v] \cup {p}
  <2>1. Grows(v, S) BY <1>0, <1>3 DEF Record
  <2>2. IsFiniteSet(S) BY FS_AddElement DEF Finite
  <2> HIDE DEF Grows, S
  <2> QED BY <1>1, <2>1, <2>2
<1>4. ASSUME NEW v \in Voters, UpdatedHistory(v) PROVE Finite'
  <2>1. Grows(v, StillRelevant(v)) BY <1>4 DEF UpdatedHistory
  <2>2. StillRelevant(v) \in SUBSET votedProposalIds[v] BY DEF StillRelevant
  <2>3. IsFiniteSet(StillRelevant(v)) BY <2>2, FS_Subset DEF Finite
  <2> HIDE DEF Grows
  <2> QED BY <1>1, <2>1, <2>3
<1>5. ASSUME NEW v \in Voters, NEW p, DeleteExpiredVoterProposalId(v, p) PROVE Finite'
  <2>1. Grows(v, votedProposalIds[v] \ {p}) BY <1>0, <1>5 DEF DeleteExpiredVoterProposalId
  <2>2. IsFiniteSet(votedProposalIds[v] \ {p}) BY FS_RemoveElement DEF Finite
  <2> HIDE DEF Grows
  <2> QED BY <1>1, <2>1, <2>2
<1> HIDE DEF Grows
<1>6. CASE \E v \in Voters, n \in 1 .. MaxCelo : Deposit(v, n) \/ Withdraw(v, n)
  BY <1>2, <1>6 DEF Deposit, Withdraw, records
<1>7. CASE \E from, to \in Voters, n \in 1 .. MaxCelo : Transfer(from, to, n)
  BY <1>2, <1>7 DEF Transfer, records
<1>8. CASE \E v \in Voters, p \in Proposals :
             \/ \E votes \in Weights : VoteProposal(v, p, votes)
             \/ RevokeVotes(v, p)
             \/ DeleteExpiredVoterProposalId(v, p)
  BY <1>3, <1>5, <1>8 DEF VoteProposal, RevokeVotes
<1>9. CASE \E v \in Voters : UpdateHistory(v) \/ UnlockVoteBalance(v)
  BY <1>4, <1>9 DEF UpdateHistory, UnlockVoteBalance
<1>10. CASE \E p \in Proposals : DeleteExpiredProposalTimestamp(p) \/ Dequeue(p)
  BY <1>2, <1>10 DEF DeleteExpiredProposalTimestamp, Dequeue, records
<1>11. CASE Reward \/ Tick \/ PauseChange
  BY <1>2, <1>11 DEF Reward, Tick, PauseChange, records
<1>12. CASE UNCHANGED vars BY <1>2, <1>12 DEF vars, records
<1> QED BY <1>6, <1>7, <1>8, <1>9, <1>10, <1>11, <1>12, Zenon DEF Next

(* Vote.sol: whatever the order of a voter's array, the loop that shrinks  *)
(* it while it runs keeps the proposals that are still relevant, forgets   *)
(* the timestamps of the others and returns the largest weight among them. *)
THEOREM HistoryAlwaysUpdated == Spec => []HistoryUpdated
<1>1. Init => Finite
  <2> SUFFICES ASSUME Init, NEW v \in Voters PROVE IsFiniteSet(votedProposalIds[v]) BY DEF Finite
  <2>1. votedProposalIds[v] = {} BY DEF Init
  <2> QED BY <2>1, FS_EmptySet
<1>2. TypeOK /\ Finite /\ [Next]_vars => Finite' BY FiniteStep
<1> QED BY <1>1, <1>2, HistoryFact, AlwaysSafe, TypeCorrect, PTL DEF Spec
============================================================================
