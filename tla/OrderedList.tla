---------------------------- MODULE OrderedList ----------------------------
(***************************************************************************)
(* What the list of groups promises its users: a sequence of groups,       *)
(* ascending by their values, changed by one insertion, removal or update  *)
(* at a time.                                                              *)
(***************************************************************************)
EXTENDS SortedGroups

CONSTANT Values

VARIABLE list

Init == list = EmptyList

InsertKey(g, value, lesser, greater) ==
  /\ CanInsert(list, g, value, lesser, greater)
  /\ list' = Insert(list, g, value, lesser, greater)

RemoveKey(g) ==
  /\ g \in Keys(list)
  /\ list' = Remove(list, g)

UpdateKey(g, value, lesser, greater) ==
  /\ CanUpdate(list, g, value, lesser, greater)
  /\ list' = Update(list, g, value, lesser, greater)

Next ==
  \E g \in Groups :
    \/ RemoveKey(g)
    \/ \E value \in Values, lesser, greater \in Groups \cup {None} :
         \/ InsertKey(g, value, lesser, greater)
         \/ UpdateKey(g, value, lesser, greater)

Spec == Init /\ [][Next]_list
============================================================================
