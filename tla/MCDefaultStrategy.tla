------------------------- MODULE MCDefaultStrategy -------------------------
(* TLC instances of DefaultStrategy.                                       *)
EXTENDS DefaultStrategy, TLC

OneToOne == [stCelo |-> 1, celo |-> 1]
AfterRewards == [stCelo |-> 2, celo |-> 3]

ParRate == {OneToOne}
OneRate == {AfterRewards}
TwoRates == {OneToOne, AfterRewards}

(* The parameters the contract starts with, and walks that find a place    *)
(* only if nothing moves, or only one step away.                           *)
ShortWalk == [distributeTo |-> 8, withdrawFrom |-> 8, loopLimit |-> 1]
TwoSteps == [distributeTo |-> 8, withdrawFrom |-> 8, loopLimit |-> 2]
Initial == [distributeTo |-> 8, withdrawFrom |-> 8, loopLimit |-> 10]

Walk2 == {TwoSteps}
Initials == {Initial}
TwoParams == {ShortWalk, Initial}

(* Lists of some of the groups, and books with little stCELO in them.      *)
Lists == {s \in UNION {[1 .. n -> Groups] : n \in 0 .. Cardinality(Groups)} :
            \A i, j \in DOMAIN s : s[i] = s[j] => i = j}

SettlingInit ==
  /\ \E keys \in Lists, values, stCelo \in [Groups -> 0 .. MaxStCelo],
        flag \in BOOLEAN, unsorted \in SUBSET Groups :
       /\ Total(stCelo) <= MaxStCelo
       /\ \A g \in Groups : (\A i \in DOMAIN keys : keys[i] # g) => values[g] = 0
       /\ books = [activeGroups |-> [keys |-> keys, values |-> values],
                   stCeloInGroup |-> stCelo, totalStCeloInStrategy |-> Total(stCelo),
                   sorted |-> flag, unsortedGroups |-> unsorted]
  /\ activatableGroups = {}
  /\ minCountOfActiveGroups = 0
  /\ sortingParams \in SortingParams
  /\ paused = FALSE
  /\ tx = NoTx
  /\ owed = 0
  /\ adjusted = {}
  /\ Consistent

SettlingSpec == SettlingInit /\ [][RebalanceStep]_vars /\ SettlingFairness

Symmetry == Permutations(Groups)
============================================================================
