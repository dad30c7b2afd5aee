---------------------------- MODULE SortedGroups ----------------------------
(***************************************************************************)
(* src/contracts/common/linkedlists: a list of groups ordered by a value   *)
(* stored with each key.  A list is a record: its keys from the tail       *)
(* (least value) to the head (greatest), and the value of every group,     *)
(* zero for those that are not in the list.  Module LinkedGroups has the   *)
(* pointers, which implement these operators (SortedGroupsProofs).         *)
(*                                                                         *)
(* Inserting needs a hint, the neighbours the new key would have, and only *)
(* one of the two must be right.                                           *)
(***************************************************************************)
EXTENDS Integers, Sequences

CONSTANTS
  Groups,  \* validator groups, the keys
  None     \* address(0)

ASSUME NoneAssumption == None \notin Groups

Keys(l) == {l.keys[i] : i \in DOMAIN l.keys}

EmptyList == [keys |-> <<>>, values |-> [g \in Groups |-> 0]]

Position(l, g) == CHOOSE i \in DOMAIN l.keys : l.keys[i] = g

KeyAt(l, i) == IF i \in DOMAIN l.keys THEN l.keys[i] ELSE None

TailOf(l) == KeyAt(l, 1)
HeadOf(l) == KeyAt(l, Len(l.keys))

(* The neighbours of a key towards the head and towards the tail; None for *)
(* what is not in the list.                                                *)
NextOf(l, g) == IF g \in Keys(l) THEN KeyAt(l, Position(l, g) + 1) ELSE None
PreviousOf(l, g) == IF g \in Keys(l) THEN KeyAt(l, Position(l, g) - 1) ELSE None

(* isValueBetween.  A gap is a pair of neighbours, None for either end.    *)
ValueBetween(l, value, gap) ==
  /\ gap[1] = None \/ l.values[gap[1]] <= value
  /\ gap[2] = None \/ l.values[gap[2]] >= value

NoGap == <<>>

(* getLesserAndGreater: the first of the gaps the hint leads to in which   *)
(* the value fits.                                                         *)
GapFor(l, value, lesser, greater) ==
  LET Fits(gap) == ValueBetween(l, value, gap)
      atTail == <<None, TailOf(l)>>
      atHead == <<HeadOf(l), None>>
      above == <<lesser, NextOf(l, lesser)>>
      below == <<PreviousOf(l, greater), greater>>
  IN  IF lesser = None /\ Fits(atTail) THEN atTail
      ELSE IF greater = None /\ Fits(atHead) THEN atHead
      ELSE IF lesser # None /\ Fits(above) THEN above
      ELSE IF greater # None /\ Fits(below) THEN below
      ELSE NoGap

(* The requires of SortedLinkedList.insert.                                *)
CanInsert(l, g, value, lesser, greater) ==
  /\ g \notin Keys(l) \cup {lesser, greater}
  /\ lesser # None \/ greater # None \/ l.keys = <<>>
  /\ {lesser, greater} \subseteq Keys(l) \cup {None}
  /\ GapFor(l, value, lesser, greater) # NoGap

InsertAfter(s, i, g) == SubSeq(s, 1, i) \o <<g>> \o SubSeq(s, i + 1, Len(s))

Insert(l, g, value, lesser, greater) ==
  LET gap == GapFor(l, value, lesser, greater)
      i == IF gap[1] = None THEN 0 ELSE Position(l, gap[1])
  IN  [keys |-> InsertAfter(l.keys, i, g), values |-> [l.values EXCEPT ![g] = value]]

DropAt(s, i) == SubSeq(s, 1, i - 1) \o SubSeq(s, i + 1, Len(s))

(* Needs g \in Keys(l).                                                    *)
Remove(l, g) ==
  [keys |-> DropAt(l.keys, Position(l, g)), values |-> [l.values EXCEPT ![g] = 0]]

(* SortedLinkedList.update: remove, then insert.                           *)
CanUpdate(l, g, value, lesser, greater) ==
  g \in Keys(l) /\ CanInsert(Remove(l, g), g, value, lesser, greater)

Update(l, g, value, lesser, greater) ==
  Insert(Remove(l, g), g, value, lesser, greater)

(* The neighbours g should have once its value has grown to value, found   *)
(* by walking towards the head over the smaller keys.  A walk that uses up *)
(* the limit finds nothing, even when its last step was the right one.     *)
NeighboursIfIncreased(l, g, value, limit) ==
  LET p == Position(l, g)
      Smaller(i) == i \in DOMAIN l.keys /\ l.values[l.keys[i]] < value
      stop == CHOOSE i \in p .. Len(l.keys) :
                ~Smaller(i + 1) /\ \A j \in p + 1 .. i : Smaller(j)
  IN  IF stop - p >= limit THEN <<None, None>>
      ELSE <<KeyAt(l, IF stop = p THEN p - 1 ELSE stop), KeyAt(l, stop + 1)>>

(* The same for a value that has shrunk, towards the tail.                 *)
NeighboursIfDecreased(l, g, value, limit) ==
  LET p == Position(l, g)
      Greater(i) == i \in DOMAIN l.keys /\ l.values[l.keys[i]] > value
      stop == CHOOSE i \in 1 .. p :
                ~Greater(i - 1) /\ \A j \in i .. p - 1 : Greater(j)
  IN  IF p - stop >= limit THEN <<None, None>>
      ELSE <<KeyAt(l, stop - 1), KeyAt(l, IF stop = p THEN p + 1 ELSE stop)>>

(* Ascending from the tail, no key twice.                                  *)
Ordered(l) ==
  \A i, j \in DOMAIN l.keys : i < j => /\ l.keys[i] # l.keys[j]
                                       /\ l.values[l.keys[i]] <= l.values[l.keys[j]]
============================================================================
