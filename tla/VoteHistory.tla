---------------------------- MODULE VoteHistory ----------------------------
(***************************************************************************)
(* The loop of Vote.updateHistoryAndReturnLockedStCeloInVoting over the    *)
(* array of a voter's proposals (src/contracts/Vote.sol): it runs from the *)
(* end, drops the proposals that are over by moving the last entry into    *)
(* their place, and takes the largest weight of the others.  Voting treats *)
(* the array as a set and this loop as one step; here the loop is run in   *)
(* every state of Voting, for every order the array may be in.             *)
(***************************************************************************)
EXTENDS Voting, SequencesExt

Bug_OnlyPops(ids, i) == SubSeq(ids, 1, Len(ids) - 1)

(* The last entry moves into the hole, then the array is popped.           *)
Drop(ids, i) == SubSeq([ids EXCEPT ![i] = ids[Len(ids)]], 1, Len(ids) - 1)

(* One turn of the loop, on the array, the timestamps and lockedAmount.    *)
Turn(v, h, i) ==
  LET p == h.ids[i]
      timestamp == h.timestamps[p]
  IN  IF timestamp # 0 /\ now <= timestamp + ReferendumDuration
      THEN [h EXCEPT !.lockedAmount = Max({@, Total(proposalVotes[v][p])})]
      ELSE [h EXCEPT !.ids = Drop(@, i), !.timestamps[p] = 0]

(* From i = length down to 1: turn[k] is the state after k turns.          *)
Loop(v, ids) ==
  LET turn[k \in 0 .. Len(ids)] ==
        IF k = 0 THEN [ids |-> ids, timestamps |-> proposalTimestamps, lockedAmount |-> 0]
        ELSE Turn(v, turn[k - 1], Len(ids) + 1 - k)
  IN  turn[Len(ids)]

(* The loop keeps exactly the proposals that are still relevant, whatever  *)
(* the order of the array, forgets the timestamps Voting forgets and finds *)
(* the lock Voting computes with: no entry is skipped or read twice while  *)
(* the array shrinks under the loop.                                       *)
HistoryUpdated ==
  \A v \in Voters : \A ids \in SetToSeqs(votedProposalIds[v]) :
    LET h == Loop(v, ids)
    IN  /\ h.ids \in SetToSeqs(StillRelevant(v))
        /\ h.timestamps = TimestampsKept(v)
        /\ h.lockedAmount = LockedInVoting(v)
============================================================================
