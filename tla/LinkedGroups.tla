---------------------------- MODULE LinkedGroups ----------------------------
(***************************************************************************)
(* src/contracts/common/linkedlists: LinkedList.sol, SortedLinkedList.sol  *)
(* and AddressSortedLinkedList.sol down to the pointers.  The storage is a *)
(* record, because update removes and inserts in one transaction.          *)
(*                                                                         *)
(* A call that reverts changes nothing, so a require is a guard.  Left     *)
(* out: push, popN and numElementsGreaterThan, which nothing calls.              *)
(***************************************************************************)
EXTENDS SortedGroups

CONSTANTS
  Values,   \* bound: values a group may have
  MaxLimit  \* bound: limits of the walks

ASSUME BoundsAssumption == Values \subseteq Nat /\ MaxLimit \in Nat

VARIABLE storage

Address == Groups \cup {None}

NoElement == [previousKey |-> None, nextKey |-> None, exists |-> FALSE]

EmptyStorage ==
  [head |-> None, tail |-> None, numElements |-> 0,
   elements |-> [g \in Groups |-> NoElement],
   values |-> [g \in Groups |-> 0]]

----------------------------------------------------------------------------
(* Views of a storage m.  The element of address(0) is never written.      *)

ElementOf(m, g) == IF g = None THEN NoElement ELSE m.elements[g]

Before(m, g) == ElementOf(m, g).previousKey
After(m, g) == ElementOf(m, g).nextKey

(* LinkedList.headN: n keys from the head towards the tail.                *)
HeadN(m, n) ==
  LET key[i \in 1 .. n] == IF i = 1 THEN m.head ELSE Before(m, key[i - 1])
  IN  key

GetKeys(m) == HeadN(m, m.numElements)

(* getElements, from tail to head: the list that the pointers stand for.   *)
AsList(m) ==
  [keys |-> [i \in 1 .. m.numElements |-> GetKeys(m)[m.numElements + 1 - i]],
   values |-> m.values]

Bug_TrustsLesser(m, value, lesser, greater) ==
  LET gap == <<lesser, IF lesser = None THEN m.tail ELSE After(m, lesser)>>
  IN  IF ValueBetween(m, value, gap) THEN gap ELSE NoGap

(* SortedLinkedList.getLesserAndGreater, along the pointers.               *)
LesserAndGreater(m, value, lesser, greater) ==
  LET Fits(gap) == ValueBetween(m, value, gap)
  IN  IF lesser = None /\ Fits(<<lesser, m.tail>>) THEN <<lesser, m.tail>>
      ELSE IF greater = None /\ Fits(<<m.head, greater>>) THEN <<m.head, greater>>
      ELSE IF lesser # None /\ Fits(<<lesser, After(m, lesser)>>)
           THEN <<lesser, After(m, lesser)>>
      ELSE IF greater # None /\ Fits(<<Before(m, greater), greater>>)
           THEN <<Before(m, greater), greater>>
      ELSE NoGap

(* Both walks, along the pointers onwards over the keys in passed: a step  *)
(* costs one of the limit, which may run out on the very step that arrives.*)
Walk(g, limit, onwards, passed) ==
  LET place[n \in 0 .. limit] ==  \* after at most n steps: where, and how many
        IF n = 0 THEN [at |-> g, steps |-> 0]
        ELSE LET p == place[n - 1]
             IN  IF p.steps = n - 1 /\ onwards[p.at] \in passed
                 THEN [at |-> onwards[p.at], steps |-> n] ELSE p
  IN  place[limit]

ToHead(m) == [g \in Groups |-> m.elements[g].nextKey]
ToTail(m) == [g \in Groups |-> m.elements[g].previousKey]

Bug_PassesEqual(m, g, value, limit) ==
  LET w == Walk(g, limit, ToHead(m), {k \in Groups : value >= m.values[k]})
  IN  IF w.steps = limit THEN <<None, None>>
      ELSE <<IF w.at = g THEN Before(m, g) ELSE w.at, After(m, w.at)>>

WalkIncreased(m, g, value, limit) ==
  LET w == Walk(g, limit, ToHead(m), {k \in Groups : value > m.values[k]})
  IN  IF w.steps = limit THEN <<None, None>>
      ELSE <<IF w.at = g THEN Before(m, g) ELSE w.at, After(m, w.at)>>

WalkDecreased(m, g, value, limit) ==
  LET w == Walk(g, limit, ToTail(m), {k \in Groups : value < m.values[k]})
  IN  IF w.steps = limit THEN <<None, None>>
      ELSE <<Before(m, w.at), IF w.at = g THEN After(m, g) ELSE w.at>>

----------------------------------------------------------------------------
(* LinkedList.insert and remove.                                           *)

Bug_KeepsBackPointer(m, g, gap) ==
  LET e == [previousKey |-> gap[1], nextKey |-> gap[2], exists |-> TRUE]
      forwards == IF gap[1] = None THEN m.elements
                  ELSE [m.elements EXCEPT ![gap[1]].nextKey = g]
  IN  [m EXCEPT !.tail = IF gap[1] = None THEN g ELSE @,
                !.head = IF gap[2] = None THEN g ELSE @,
                !.elements = [forwards EXCEPT ![g] = e],
                !.numElements = @ + 1]

(* The two requires on adjacent keys, and the zero hint that only an empty *)
(* list accepts.                                                           *)
CanLink(m, g, gap) ==
  \/ m.numElements = 0
  \/ /\ gap # <<None, None>>
     /\ gap[1] # None => m.elements[gap[1]].exists /\ After(m, gap[1]) = gap[2]
     /\ gap[2] # None => m.elements[gap[2]].exists /\ Before(m, gap[2]) = gap[1]

Link(m, g, gap) ==
  LET ends == IF m.numElements = 0 THEN <<None, None>> ELSE gap
      e == [previousKey |-> ends[1], nextKey |-> ends[2], exists |-> TRUE]
      forwards == IF ends[1] = None THEN m.elements
                  ELSE [m.elements EXCEPT ![ends[1]].nextKey = g]
      both == IF ends[2] = None THEN forwards
              ELSE [forwards EXCEPT ![ends[2]].previousKey = g]
  IN  [m EXCEPT !.tail = IF ends[1] = None THEN g ELSE @,
                !.head = IF ends[2] = None THEN g ELSE @,
                !.elements = [both EXCEPT ![g] = e],
                !.numElements = @ + 1]

Bug_ForgetsHead(m, g) ==
  LET e == m.elements[g]
      forwards == IF e.previousKey = None THEN m.elements
                  ELSE [m.elements EXCEPT ![e.previousKey].nextKey = e.nextKey]
      both == IF e.nextKey = None THEN forwards
              ELSE [forwards EXCEPT ![e.nextKey].previousKey = e.previousKey]
  IN  [m EXCEPT !.tail = IF e.previousKey = None THEN e.nextKey ELSE @,
                !.elements = [both EXCEPT ![g] = NoElement],
                !.numElements = @ - 1]

Unlink(m, g) ==
  LET e == m.elements[g]
      forwards == IF e.previousKey = None THEN m.elements
                  ELSE [m.elements EXCEPT ![e.previousKey].nextKey = e.nextKey]
      both == IF e.nextKey = None THEN forwards
              ELSE [forwards EXCEPT ![e.nextKey].previousKey = e.previousKey]
  IN  [m EXCEPT !.tail = IF e.previousKey = None THEN e.nextKey ELSE @,
                !.head = IF e.nextKey = None THEN e.previousKey ELSE @,
                !.elements = [both EXCEPT ![g] = NoElement],
                !.numElements = @ - 1]

(* SortedLinkedList.insert, remove and update.                             *)
Insertable(m, g, value, lesser, greater) ==
  LET gap == LesserAndGreater(m, value, lesser, greater)
  IN  /\ g \notin {lesser, greater}
      /\ ~m.elements[g].exists
      /\ lesser # None \/ greater # None \/ m.numElements = 0
      /\ \A k \in {lesser, greater} \ {None} : m.elements[k].exists
      /\ gap # NoGap
      /\ CanLink(m, g, gap)

Inserted(m, g, value, lesser, greater) ==
  [Link(m, g, LesserAndGreater(m, value, lesser, greater)) EXCEPT !.values[g] = value]

Removed(m, g) == [Unlink(m, g) EXCEPT !.values[g] = 0]

----------------------------------------------------------------------------
LinkedInit == storage = EmptyStorage

InsertKey(g, value, lesser, greater) ==
  /\ Insertable(storage, g, value, lesser, greater)
  /\ storage' = Inserted(storage, g, value, lesser, greater)

RemoveKey(g) ==
  /\ storage.elements[g].exists
  /\ storage' = Removed(storage, g)

UpdateKey(g, value, lesser, greater) ==
  /\ storage.elements[g].exists
  /\ Insertable(Removed(storage, g), g, value, lesser, greater)
  /\ storage' = Inserted(Removed(storage, g), g, value, lesser, greater)

LinkedNext ==
  \E g \in Groups :
    \/ RemoveKey(g)
    \/ \E value \in Values, lesser, greater \in Address :
         \/ InsertKey(g, value, lesser, greater)
         \/ UpdateKey(g, value, lesser, greater)

LinkedSpec == LinkedInit /\ [][LinkedNext]_storage

----------------------------------------------------------------------------
(* The pointers form one doubly linked list: walking from the head visits  *)
(* exactly the keys that exist, ends at the tail, and every pointer        *)
(* towards the head is undone by one towards the tail.                     *)
WellLinked ==
  LET l == AsList(storage)
  IN  /\ Keys(l) = {g \in Groups : storage.elements[g].exists}
      /\ storage.tail = TailOf(l) /\ storage.head = HeadOf(l)
      /\ \A g \in Groups : /\ After(storage, g) = NextOf(l, g)
                           /\ Before(storage, g) = PreviousOf(l, g)

(* The two walks of AddressSortedLinkedList find, on every list and for    *)
(* every limit, the neighbours that SortedGroups defines in closed form.   *)
WalksAgree ==
  LET l == AsList(storage)
  IN  \A g \in Keys(l), value \in Values, limit \in 0 .. MaxLimit :
        /\ WalkIncreased(storage, g, value, limit) = NeighboursIfIncreased(l, g, value, limit)
        /\ WalkDecreased(storage, g, value, limit) = NeighboursIfDecreased(l, g, value, limit)

(* SortedLinkedList.sol:65: only one of the two hints needs to be correct. *)
(* The other may be any key of the list, or address(0) unless both are.    *)
OneHintSuffices ==
  \A g \in Groups, value \in Values :
    LET m == Removed(storage, g)
        present == {k \in Groups : m.elements[k].exists}
    IN  storage.elements[g].exists =>
          \A lesser, greater, other \in present \cup {None} :
            /\ Insertable(m, g, value, lesser, greater)
            /\ <<lesser, greater>> = LesserAndGreater(m, value, lesser, greater)
            => /\ <<lesser, other>> # <<None, None>> => Insertable(m, g, value, lesser, other)
               /\ <<other, greater>> # <<None, None>> => Insertable(m, g, value, other, greater)

(* The pointers implement the sequence that the other modules use.         *)
OrderedKeys == INSTANCE OrderedList WITH list <- AsList(storage)
ImplementsOrderedList == OrderedKeys!Spec

============================================================================
