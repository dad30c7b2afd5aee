-------------------------- MODULE DeploymentProofs --------------------------
(***************************************************************************)
(* A deployment hands no contract over unwired, and a network never runs a *)
(* mixture of releases, for any groups and owners, however many runs are   *)
(* cut short and in whatever order tasks are run and proposals signed.     *)
(*                                                                         *)
(* The invariant of the deployment says how far the run at work has come:  *)
(* past the script that sets the dependencies of a contract they are set,  *)
(* unless the contract was handed over by an earlier run, when they were   *)
(* set before.  That of releases adds what runs have deployed by now, that *)
(* the contracts are at the release checked out or at the one before it,   *)
(* and that what is printed or submitted upgrades all that differs.        *)
(***************************************************************************)
EXTENDS Release, AmountsProofs

USE GroupsAssumption

(* The script that sets the dependencies of a contract.                    *)
Wiring(c) ==
  CASE c = "Manager" -> 8
    [] c = "Vote" -> 9
    [] c = "SpecificGroupStrategy" -> 10
    [] c = "DefaultStrategy" -> 11

(* The contracts that are given dependencies.                              *)
Wired == {"Manager", "Vote", "SpecificGroupStrategy", "DefaultStrategy"}

(* The script that deploys a contract.                                     *)
Created(c) ==
  CASE c = "MultiSig" -> 0
    [] c = "Manager" -> 1
    [] c = "Account" -> 2
    [] c = "StakedCelo" -> 3
    [] c = "Vote" -> 4
    [] c = "GroupHealth" -> 5
    [] c = "SpecificGroupStrategy" -> 6
    [] c = "DefaultStrategy" -> 7
    [] c = "RebasedStakedCelo" -> 13

(* What exists has an owner and code, and was deployed from a record.      *)
Exists ==
  \A c \in Contracts : /\ owner[c] = "nobody" <=> code[c] = 0
                       /\ abi[c] = 0 <=> code[c] = 0

(* The run at work is through with script k, or at least in its loop.      *)
Past(k) == run.script > k \/ (run.script = k /\ run.loop)

(* The run at work has come as far as its scripts say, and one over a      *)
(* network in use keeps to the scripts of its tag.                         *)
Done ==
  /\ run.tag = "core" =>
       /\ \A c \in Contracts : Past(Created(c)) => code[c] # 0
       /\ \A c \in Wired : Past(Wiring(c)) /\ owner[c] # "MultiSig" => dependencies[c] = 2
  /\ run.tag = "proxy" => run.script \in Tagged("proxy") \cup {14}

(* Of a contract that was handed over, what its code needs is set; and of  *)
(* what Manager reaches, whoever owns it.                                  *)
Prepared ==
  /\ \A c \in Wired : owner[c] = "MultiSig" => dependencies[c] >= Needs(c, code[c])
  /\ owner["Manager"] = "MultiSig" /\ code["Manager"] >= 2 =>
       \A c \in Wired : dependencies[c] = 2

(* The inductive invariant.                                                *)
IInv == TypeOK /\ Exists /\ Done /\ Prepared

(* From release 2 on there is code for every contract; release 1 had the   *)
(* first contracts only.                                                   *)
LEMMA VersionFact ==
  ASSUME NEW c \in Contracts, NEW release \in 1 .. 4
  PROVE  /\ Version(c, release) \in 0 .. 4
         /\ release >= 2 => Version(c, release) >= 2
         /\ release = 1 => Version(c, release) = IF c \in FirstContracts THEN 1 ELSE 0
<1> DEFINE S == {0} \cup {v \in 1 .. release : c \in ChangedIn(v)}
<1>1. S \subseteq 0 .. 4 /\ 0 \in S OBVIOUS
<1>2. release >= 2 => 2 \in S BY DEF ChangedIn
<1>3. \E m \in S : \A x \in S : m >= x
  <2> HIDE DEF S
  <2>1. CASE 4 \in S BY <1>1, <2>1
  <2>2. CASE 4 \notin S /\ 3 \in S BY <1>1, <2>2
  <2>3. CASE 4 \notin S /\ 3 \notin S /\ 2 \in S BY <1>1, <2>3
  <2>4. CASE 4 \notin S /\ 3 \notin S /\ 2 \notin S /\ 1 \in S BY <1>1, <2>4
  <2>5. CASE 4 \notin S /\ 3 \notin S /\ 2 \notin S /\ 1 \notin S BY <1>1, <2>5
  <2> QED BY <2>1, <2>2, <2>3, <2>4, <2>5
<1>4. Version(c, release) = Max(S) BY DEF Version
<1> HIDE DEF S
<1>5. Max(S) \in S /\ \A x \in S : Max(S) >= x BY <1>3, Zenon DEF Max
<1> DEFINE m == Max(S)
<1>6. m \in 0 .. 4 BY <1>1, <1>5
<1>7. release >= 2 => m >= 2 BY <1>2, <1>5
<1> HIDE DEF m
<1>9. release = 1 => m = IF c \in FirstContracts THEN 1 ELSE 0
  <2> SUFFICES ASSUME release = 1 PROVE m = IF c \in FirstContracts THEN 1 ELSE 0
    OBVIOUS
  <2>1. S = {0} \cup {v \in {1} : c \in FirstContracts} BY DEF S, ChangedIn
  <2>2. CASE c \in FirstContracts
    <3>1. S = {0, 1} BY <2>1, <2>2
    <3> QED BY <1>5, <1>6, <2>2, <3>1 DEF m
  <2>3. CASE c \notin FirstContracts
    <3>1. S = {0} BY <2>1, <2>3
    <3> QED BY <1>5, <2>3, <3>1 DEF m
  <2> QED BY <2>2, <2>3
<1> QED BY <1>4, <1>6, <1>7, <1>9 DEF m

(* On to the next script: in a run of all of them, the next number.        *)
LEMMA ContinueFact ==
  ASSUME TypeOK, run.tag # "none", run.script <= 13, Continue
  PROVE  /\ run' \in [tag : {"none", "core", "proxy"}, script : 0 .. 14, loop : BOOLEAN,
                       todo : SUBSET Groups, placed : BOOLEAN, next : 1 .. 7]
         /\ run'.tag = run.tag /\ ~run'.loop /\ run'.next = 1
         /\ \A k \in Tagged(run.tag) : k > run.script => run'.script <= k
         /\ run.tag = "core" => run'.script = run.script + 1
         /\ run.tag = "proxy" => run'.script \in Tagged("proxy") \cup {14}
         /\ outcome' = outcome
<1> DEFINE S == {14} \cup {k \in Tagged(run.tag) : k > run.script}
           m == Min(S)
<1>1. /\ run \in [tag : {"none", "core", "proxy"}, script : 0 .. 14, loop : BOOLEAN,
                  todo : SUBSET Groups, placed : BOOLEAN, next : 1 .. 7]
      /\ run.script \in 0 .. 13
  BY DEF TypeOK
<1>2. S \subseteq 0 .. 14 /\ 14 \in S
  BY <1>1 DEF Tagged
<1>3. \E x \in S : \A y \in S : x <= y
  <2> HIDE DEF S
  <2>1. S \subseteq Nat /\ S # {} BY <1>2
  <2> QED BY <2>1, MinExists
<1>4. m \in S /\ \A y \in S : m <= y
  <2> HIDE DEF S
  <2> QED BY <1>3, Zenon DEF Min
<1>5. run' = [Idle EXCEPT !.tag = run.tag, !.script = m] /\ outcome' = outcome
  BY DEF Continue
<1>6. run.tag = "core" => m = run.script + 1
  <2> SUFFICES ASSUME run.tag = "core" PROVE m = run.script + 1 OBVIOUS
  <2>1. run.script + 1 \in S BY <1>1 DEF Tagged
  <2>2. \A y \in S : y > run.script BY <1>1
  <2> HIDE DEF m, S
  <2> QED BY <1>1, <1>2, <1>4, <2>1, <2>2
<1>7. run.tag = "proxy" => m \in Tagged("proxy") \cup {14}
  <2> HIDE DEF m
  <2> QED BY <1>4
<1>8. run' = [tag |-> run.tag, script |-> m, loop |-> FALSE, todo |-> {}, placed |-> FALSE, next |-> 1]
  BY <1>5 DEF Idle
<1>9. m \in 0 .. 14
  <2> HIDE DEF m, S
  <2> QED BY <1>2, <1>4
<1>12. \A k \in Tagged(run.tag) : k > run.script => m <= k
  <2>1. \A k \in Tagged(run.tag) : k > run.script => k \in S OBVIOUS
  <2> HIDE DEF m, S
  <2> QED BY <1>4, <2>1
<1> HIDE DEF m, S
<1>10. /\ run' \in [tag : {"none", "core", "proxy"}, script : 0 .. 14, loop : BOOLEAN,
                   todo : SUBSET Groups, placed : BOOLEAN, next : 1 .. 7]
  BY <1>1, <1>8, <1>9
<1>11. run'.tag = run.tag /\ ~run'.loop /\ run'.script = m /\ run'.next = 1 BY <1>8
<1> QED BY <1>5, <1>6, <1>7, <1>10, <1>11, <1>12

(* What deploying c leaves: it exists, the others are as they were, and it *)
(* is MultiSig's, with the code it had, if it was so before.               *)
LEMMA DeployFact ==
  ASSUME TypeOK, Exists, NEW c \in Contracts, NEW first \in {"deployer", "MultiSig"},
         DeployProxy(c, first)
  PROVE  /\ implementation' \in [Contracts -> 0 .. 4] /\ abi' \in [Contracts -> 0 .. 4]
         /\ code' \in [Contracts -> 0 .. 4]
         /\ owner' \in [Contracts -> {"nobody", "deployer", "MultiSig"}]
         /\ Exists' /\ code'[c] # 0
         /\ \A d \in Contracts : d # c => owner'[d] = owner[d] /\ code'[d] = code[d]
         /\ owner[c] = "MultiSig" => owner'[c] = "MultiSig" /\ code'[c] = code[c]
         /\ first = "deployer" /\ owner'[c] = "MultiSig" => owner[c] = "MultiSig"
<1> DEFINE v == Version(c, tree)
<1>1. v \in 0 .. 4 /\ v # 0
  <2>1. tree \in 1 .. 4 /\ tree >= 2 BY DEF TypeOK
  <2> QED BY <2>1, VersionFact
<1>2. /\ implementation \in [Contracts -> 0 .. 4] /\ abi \in [Contracts -> 0 .. 4]
      /\ code \in [Contracts -> 0 .. 4]
      /\ owner \in [Contracts -> {"nobody", "deployer", "MultiSig"}]
      /\ \A d \in Contracts : (owner[d] = "nobody" <=> code[d] = 0)
                             /\ (abi[d] = 0 <=> code[d] = 0)
  BY DEF TypeOK, Exists
<1> USE <1>1, <1>2
<1>3. CASE abi[c] = 0
  <2>1. /\ implementation' = [implementation EXCEPT ![c] = v]
        /\ abi' = [abi EXCEPT ![c] = v]
        /\ code' = [code EXCEPT ![c] = v]
        /\ owner' = [owner EXCEPT ![c] = first]
    BY <1>3 DEF DeployProxy
  <2> HIDE DEF v
  <2> QED BY <1>3, <2>1 DEF Exists
<1>4. CASE abi[c] # 0 /\ implementation[c] # v /\ owner[c] = "deployer"
  <2>1. /\ implementation' = [implementation EXCEPT ![c] = v]
        /\ abi' = [abi EXCEPT ![c] = v]
        /\ code' = [code EXCEPT ![c] = v]
        /\ owner' = owner
    BY <1>4 DEF DeployProxy
  <2> HIDE DEF v
  <2> QED BY <1>4, <2>1 DEF Exists
<1>5. CASE abi[c] # 0 /\ implementation[c] # v /\ owner[c] # "deployer"
  <2>1. /\ implementation' = [implementation EXCEPT ![c] = v]
        /\ UNCHANGED <<abi, code, owner>>
    BY <1>5 DEF DeployProxy
  <2> HIDE DEF v
  <2> QED BY <1>5, <2>1 DEF Exists
<1>6. CASE abi[c] # 0 /\ implementation[c] = v
  <2>1. UNCHANGED <<implementation, abi, code, owner>> BY <1>6 DEF DeployProxy, proxies
  <2> HIDE DEF v
  <2> QED BY <1>6, <2>1 DEF Exists
<1> QED BY <1>3, <1>4, <1>5, <1>6

(* What is known of the numbers of the scripts.                            *)
LEMMA ScriptFact ==
  /\ \A c \in Contracts : Created(c) \in (0 .. 7) \cup {13}
  /\ \A c \in Wired : Wiring(c) \in 8 .. 11 /\ c \in Contracts
  /\ \A c \in Contracts, d \in Contracts : Created(c) = Created(d) => c = d
  /\ \A c \in Wired, d \in Wired : Wiring(c) = Wiring(d) => c = d
<1>1. \A c \in Contracts : Created(c) \in (0 .. 7) \cup {13} BY DEF Contracts, Created
<1>2. \A c \in Wired : Wiring(c) \in 8 .. 11 /\ c \in Contracts BY DEF Contracts, Wired, Wiring
<1>3. \A c \in Contracts, d \in Contracts : Created(c) = Created(d) => c = d
  BY DEF Contracts, Created
<1>4. \A c \in Wired, d \in Wired : Wiring(c) = Wiring(d) => c = d BY DEF Wired, Wiring
<1> QED BY <1>1, <1>2, <1>3, <1>4

(* The dependencies a contract needs are at most of the second generation; *)
(* only those that scripts set are needed at all.                          *)
LEMMA NeedsFact ==
  /\ \A c \in Contracts, v \in 0 .. 4 : Needs(c, v) \in 0 .. 2
  /\ \A c \in Contracts, v \in 0 .. 4 : c \notin Wired => Needs(c, v) = 0
  /\ \A c \in Wired, v \in 1 .. 4 : c # "Manager" => Needs(c, v) = 2
<1>1. \A c \in Contracts, v \in 0 .. 4 : Needs(c, v) \in 0 .. 2 BY DEF Contracts, Needs
<1>2. \A c \in Contracts, v \in 0 .. 4 : c \notin Wired => Needs(c, v) = 0
  BY DEF Contracts, Needs, Wired
<1>3. \A c \in Wired, v \in 1 .. 4 : c # "Manager" => Needs(c, v) = 2 BY DEF Wired, Needs
<1> QED BY <1>1, <1>2, <1>3

----------------------------------------------------------------------------
(* The invariant, step by step.                                            *)

(* The states a run can be in.                                             *)
Runs == [tag : {"none", "core", "proxy"}, script : 0 .. 14, loop : BOOLEAN,
         todo : SUBSET Groups, placed : BOOLEAN, next : 1 .. 7]

(* What the invariant says of the single variables.                        *)
LEMMA StateFact ==
  ASSUME IInv
  PROVE  /\ run \in Runs /\ run.script \in 0 .. 14 /\ run.loop \in BOOLEAN
         /\ run.todo \subseteq Groups /\ run.next \in 1 .. 7
         /\ code \in [Contracts -> 0 .. 4] /\ dependencies \in [Contracts -> 0 .. 2]
         /\ owner \in [Contracts -> {"nobody", "deployer", "MultiSig"}]
         /\ TypeOK /\ Exists /\ Done /\ Prepared
BY DEF IInv, TypeOK, Runs

(* A script ends: what is past it afterwards was past it before, or is     *)
(* what the script itself did.                                             *)
LEMMA PastFact ==
  ASSUME IInv, run.tag # "none", run.script <= 13, Continue
  PROVE  /\ run' \in Runs /\ run'.tag = run.tag /\ outcome' = outcome
         /\ run.tag = "core" => \A k \in 0 .. 13 : Past(k)' => Past(k) \/ k = run.script
         /\ run.tag = "proxy" => run'.script \in Tagged("proxy") \cup {14}
<1>1. TypeOK BY DEF IInv
<1>2. /\ run' \in Runs /\ run'.tag = run.tag /\ ~run'.loop /\ outcome' = outcome
      /\ run.tag = "core" => run'.script = run.script + 1
      /\ run.tag = "proxy" => run'.script \in Tagged("proxy") \cup {14}
  BY <1>1, ContinueFact DEF Runs
<1>3. run.script \in 0 .. 14 BY StateFact
<1> QED BY <1>2, <1>3 DEF Past

(* The run is over, or goes on within its script, and the contracts stay   *)
(* as they are.                                                            *)
LEMMA QuietInv ==
  ASSUME IInv, TypeOK', UNCHANGED <<abi, code, owner, dependencies>>,
         \/ run'.tag = "none"
         \/ run'.script = 0 /\ ~run'.loop
         \/ run'.tag = run.tag /\ run'.script = run.script /\ run'.loop = run.loop
  PROVE  IInv'
<1>1. Exists' /\ Prepared' BY StateFact DEF Exists, Prepared
<1>2. ASSUME run'.script = 0 /\ ~run'.loop PROVE Done'
  <2>1. \A k \in 0 .. 13 : ~Past(k)' BY <1>2 DEF Past
  <2> QED BY <1>2, <2>1, ScriptFact DEF Done, Tagged
<1>3. ASSUME run'.tag = run.tag /\ run'.script = run.script /\ run'.loop = run.loop PROVE Done'
  BY <1>3, StateFact DEF Done, Past
<1>4. ASSUME run'.tag = "none" PROVE Done' BY <1>4 DEF Done
<1> QED BY <1>1, <1>2, <1>3, <1>4 DEF IInv

(* A script ends that has left the contracts as they are.                  *)
LEMMA AdvanceInv ==
  ASSUME IInv, TypeOK', UNCHANGED <<abi, code, owner, dependencies>>,
         run.tag # "none", run.script <= 13, Continue,
         run.loop \/ run.script = 12
  PROVE  IInv'
<1>1. Exists' /\ Prepared' BY StateFact DEF Exists, Prepared
<1>2. /\ run'.tag = run.tag
      /\ run.tag = "core" => \A k \in 0 .. 13 : Past(k)' => Past(k) \/ k = run.script
      /\ run.tag = "proxy" => run'.script \in Tagged("proxy") \cup {14}
  BY PastFact
<1>3. run.tag = "core" =>
        /\ \A c \in Contracts : Past(Created(c))' => Past(Created(c))
        /\ \A c \in Wired : Past(Wiring(c))' => Past(Wiring(c))
  BY <1>2, ScriptFact DEF Past
<1>4. Done' BY <1>2, <1>3, StateFact DEF Done
<1> QED BY <1>1, <1>4 DEF IInv

(* A script has deployed its contract.                                     *)
LEMMA DeployedInv ==
  ASSUME IInv, TypeOK', NEW c \in Contracts, NEW first \in {"deployer", "MultiSig"},
         first = "deployer" \/ c \notin Wired,
         DeployProxy(c, first), UNCHANGED dependencies,
         run.script = Created(c), run'.tag = run.tag,
         run.tag = "core" => \A k \in 0 .. 13 : Past(k)' => Past(k) \/ k = run.script,
         run.tag = "proxy" => run'.script \in Tagged("proxy") \cup {14}
  PROVE  IInv'
<1>1. /\ Exists' /\ code'[c] # 0
      /\ \A d \in Contracts : d # c => owner'[d] = owner[d] /\ code'[d] = code[d]
      /\ owner[c] = "MultiSig" => owner'[c] = "MultiSig" /\ code'[c] = code[c]
      /\ first = "deployer" /\ owner'[c] = "MultiSig" => owner[c] = "MultiSig"
  BY StateFact, DeployFact
<1>2. \A d \in Wired : /\ owner'[d] = "MultiSig" <=> owner[d] = "MultiSig"
                       /\ owner[d] = "MultiSig" => code'[d] = code[d]
  BY <1>1, ScriptFact
<1>3. Prepared'
  <2>1. "Manager" \in Wired BY DEF Wired
  <2> QED BY <1>2, <2>1, StateFact DEF Prepared
<1>4. Done'
  <2>1. run'.tag = "core" => \A d \in Contracts : Past(Created(d))' => code'[d] # 0
    <3> SUFFICES ASSUME run.tag = "core", NEW d \in Contracts, Past(Created(d))', d # c
                 PROVE  code'[d] # 0
      BY <1>1
    <3>1. Created(d) # run.script /\ Created(d) \in 0 .. 13 BY ScriptFact
    <3>2. Past(Created(d)) BY <3>1, ScriptFact DEF Past
    <3> QED BY <1>1, <3>2, StateFact DEF Done
  <2>2. run'.tag = "core" =>
          \A d \in Wired : Past(Wiring(d))' /\ owner'[d] # "MultiSig" => dependencies'[d] = 2
    <3> SUFFICES ASSUME run.tag = "core", NEW d \in Wired, Past(Wiring(d))',
                        owner'[d] # "MultiSig"
                 PROVE  dependencies[d] = 2
      OBVIOUS
    <3>1. Wiring(d) \in 8 .. 11 /\ run.script \in (0 .. 7) \cup {13} BY ScriptFact
    <3>2. Past(Wiring(d)) BY <3>1 DEF Past
    <3> QED BY <1>2, <3>2, StateFact DEF Done
  <2> QED BY <2>1, <2>2 DEF Done
<1> QED BY <1>1, <1>3, <1>4 DEF IInv

(* The scripts that only deploy.                                           *)
LEMMA DeployOnlyInv ==
  ASSUME IInv, NEW c \in Contracts, NEW first \in {"deployer", "MultiSig"},
         first = "deployer" \/ c \notin Wired, DeployOnly(Created(c), c, first)
  PROVE  IInv'
<1>1. /\ run.tag # "none" /\ run.script = Created(c) /\ DeployProxy(c, first) /\ Continue
      /\ UNCHANGED <<tree, dependencies, groupState, validatorGroups>>
  BY DEF DeployOnly, AtScript
<1>2. run.script <= 13 BY <1>1, ScriptFact
<1>3. /\ run' \in Runs /\ run'.tag = run.tag /\ outcome' = outcome
      /\ run.tag = "core" => \A k \in 0 .. 13 : Past(k)' => Past(k) \/ k = run.script
      /\ run.tag = "proxy" => run'.script \in Tagged("proxy") \cup {14}
  BY <1>1, <1>2, PastFact
<1>4. TypeOK'
  <2>1. /\ implementation' \in [Contracts -> 0 .. 4] /\ abi' \in [Contracts -> 0 .. 4]
        /\ code' \in [Contracts -> 0 .. 4]
        /\ owner' \in [Contracts -> {"nobody", "deployer", "MultiSig"}]
    BY <1>1, StateFact, DeployFact
  <2> QED BY <1>1, <1>3, <2>1, StateFact DEF TypeOK, Runs, groupState
<1> QED BY <1>1, <1>3, <1>4, DeployedInv

(* 05_group_health begins.                                                 *)
LEMMA DeployGroupHealthInv ==
  ASSUME IInv, DeployGroupHealth
  PROVE  IInv'
<1>1. /\ run.tag # "none" /\ run.script = 5 /\ ~run.loop
      /\ DeployProxy("GroupHealth", "MultiSig")
      /\ UNCHANGED <<tree, dependencies, groupState, validatorGroups>>
  BY DEF DeployGroupHealth, AtScript
<1>2. PICK groups \in SUBSET Groups : Loop(groups)
  BY StateFact DEF DeployGroupHealth, TypeOK
<1>3. /\ run' \in Runs /\ run'.tag = run.tag /\ outcome' = outcome
      /\ run'.script = run.script /\ run'.loop
  BY <1>2, StateFact DEF Loop, Runs
<1>4. run.tag = "core" => \A k \in 0 .. 13 : Past(k)' => Past(k) \/ k = run.script
  BY <1>1, <1>3 DEF Past
<1>5. run.tag = "proxy" => run'.script \in Tagged("proxy") \cup {14}
  BY <1>1, <1>3 DEF Tagged
<1>6. "GroupHealth" \in Contracts /\ "GroupHealth" \notin Wired /\ Created("GroupHealth") = 5
  BY DEF Contracts, Wired, Created
<1>7. TypeOK'
  <2>1. /\ implementation' \in [Contracts -> 0 .. 4] /\ abi' \in [Contracts -> 0 .. 4]
        /\ code' \in [Contracts -> 0 .. 4]
        /\ owner' \in [Contracts -> {"nobody", "deployer", "MultiSig"}]
    BY <1>1, <1>6, StateFact, DeployFact
  <2> QED BY <1>1, <1>3, <2>1, StateFact DEF TypeOK, Runs, groupState
<1> QED BY <1>1, <1>3, <1>4, <1>5, <1>6, <1>7, DeployedInv

(* A script has set the dependencies of its contract.                      *)
LEMMA WiredInv ==
  ASSUME IInv, NEW c \in Wired, SetDependencies(c),
         UNCHANGED <<tree, proxies, groupState, validatorGroups, outcome>>,
         run.script = Wiring(c), run' \in Runs, run'.tag = run.tag,
         run.tag = "core" => \A k \in 0 .. 13 : Past(k)' => Past(k) \/ k = run.script,
         run.tag = "proxy" => run'.script \in Tagged("proxy") \cup {14}
  PROVE  IInv'
<1>1. /\ dependencies' \in [Contracts -> 0 .. 2]
      /\ \A d \in Contracts : dependencies'[d] = dependencies[d] \/ dependencies'[d] = 2
      /\ owner[c] # "MultiSig" => dependencies'[c] = 2
  BY StateFact, ScriptFact DEF SetDependencies
<1>2. UNCHANGED <<implementation, abi, code, owner>> BY DEF proxies
<1>3. TypeOK' BY <1>1, <1>2, StateFact DEF TypeOK, Runs, groupState
<1>4. Exists' BY <1>2, StateFact DEF Exists
<1>5. Prepared'
  <2>1. \A d \in Wired : owner[d] = "MultiSig" => dependencies'[d] >= Needs(d, code[d])
    BY <1>1, StateFact, ScriptFact, NeedsFact DEF Prepared
  <2>2. owner["Manager"] = "MultiSig" /\ code["Manager"] >= 2 =>
          \A d \in Wired : dependencies'[d] = 2
    BY <1>1, StateFact, ScriptFact DEF Prepared
  <2> QED BY <1>2, <2>1, <2>2 DEF Prepared
<1>6. Done'
  <2>1. run'.tag = "core" => \A d \in Contracts : Past(Created(d))' => code'[d] # 0
    <3> SUFFICES ASSUME run.tag = "core", NEW d \in Contracts, Past(Created(d))'
                 PROVE  code[d] # 0
      BY <1>2
    <3>1. Created(d) # run.script /\ Created(d) \in 0 .. 13 BY ScriptFact
    <3>2. Past(Created(d)) BY <3>1 DEF Past
    <3> QED BY <3>2, StateFact DEF Done
  <2>2. run'.tag = "core" =>
          \A d \in Wired : Past(Wiring(d))' /\ owner'[d] # "MultiSig" => dependencies'[d] = 2
    <3> SUFFICES ASSUME run.tag = "core", NEW d \in Wired, Past(Wiring(d))',
                        owner[d] # "MultiSig", d # c
                 PROVE  dependencies'[d] = 2
      BY <1>1, <1>2
    <3>1. Wiring(d) # run.script /\ Wiring(d) \in 0 .. 13 BY ScriptFact
    <3>2. Past(Wiring(d)) BY <3>1 DEF Past
    <3>3. dependencies[d] = 2 BY <3>2, StateFact DEF Done
    <3> QED BY <1>1, <3>3, ScriptFact
  <2> QED BY <2>1, <2>2 DEF Done
<1> QED BY <1>3, <1>4, <1>5, <1>6 DEF IInv

(* The scripts that only set dependencies.                                 *)
LEMMA SetDependenciesOnlyInv ==
  ASSUME IInv, NEW c \in Wired, SetDependenciesOnly(Wiring(c), c)
  PROVE  IInv'
<1>1. /\ run.tag # "none" /\ run.script = Wiring(c) /\ SetDependencies(c) /\ Continue
      /\ UNCHANGED <<tree, proxies, groupState, validatorGroups>>
  BY DEF SetDependenciesOnly, AtScript
<1>2. run.script <= 13 BY <1>1, ScriptFact
<1> QED BY <1>1, <1>2, PastFact, WiredInv

(* 11_set_dependencies_on_default_strategy begins.                         *)
LEMMA SetDefaultStrategyDependenciesInv ==
  ASSUME IInv, SetDefaultStrategyDependencies
  PROVE  IInv'
<1>1. /\ run.tag # "none" /\ run.script = 11 /\ ~run.loop
      /\ SetDependencies("DefaultStrategy")
      /\ UNCHANGED <<tree, proxies, groupState, validatorGroups>>
  BY DEF SetDefaultStrategyDependencies, AtScript
<1>2. PICK groups \in SUBSET Groups : Loop(groups)
  BY StateFact DEF SetDefaultStrategyDependencies, TypeOK
<1>3. /\ run' \in Runs /\ run'.tag = run.tag /\ outcome' = outcome
      /\ run'.script = run.script /\ run'.loop
  BY <1>2, StateFact DEF Loop, Runs
<1>4. run.tag = "core" => \A k \in 0 .. 13 : Past(k)' => Past(k) \/ k = run.script
  BY <1>1, <1>3 DEF Past
<1>5. run.tag # "proxy" BY <1>1, StateFact DEF Done, Tagged
<1>6. "DefaultStrategy" \in Wired /\ Wiring("DefaultStrategy") = 11 BY DEF Wired, Wiring
<1> QED BY <1>1, <1>3, <1>4, <1>5, <1>6, WiredInv

(* A contract is handed over only past all scripts that set dependencies.  *)
LEMMA TransferOwnershipInv ==
  ASSUME IInv, TransferOwnership
  PROVE  IInv'
<1> DEFINE c == TransferOrder[run.next]
<1>1. /\ run.tag # "none" /\ run.script = 12 /\ ~run.loop /\ run.next <= 6
      /\ owner' = IF owner[c] # "MultiSig" THEN [owner EXCEPT ![c] = "MultiSig"] ELSE owner
      /\ run' = [run EXCEPT !.next = run.next + 1]
      /\ UNCHANGED <<tree, implementation, abi, code, dependencies, groupState,
                     validatorGroups, outcome>>
  BY DEF TransferOwnership, AtScript
<1>2. run.tag = "core"
  <2>1. run.tag # "proxy" BY <1>1, StateFact DEF Done, Tagged
  <2> QED BY <1>1, <2>1, StateFact DEF Runs
<1>3. c \in Contracts /\ Created(c) \in 0 .. 7
  <2>1. run.next \in 1 .. 6 BY <1>1, StateFact
  <2> QED BY <2>1 DEF TransferOrder, Contracts, Created
<1> HIDE DEF c
<1>4. /\ owner' \in [Contracts -> {"nobody", "deployer", "MultiSig"}]
      /\ \A d \in Contracts : d # c => owner'[d] = owner[d]
      /\ owner'[c] = "MultiSig"
  BY <1>1, <1>3, StateFact
<1>5. run' \in Runs /\ run'.tag = run.tag /\ run'.script = run.script /\ run'.loop = run.loop
  BY <1>1, StateFact DEF Runs
<1>6. TypeOK' BY <1>1, <1>4, <1>5, StateFact DEF TypeOK, Runs, groupState
<1>7. code[c] # 0 BY <1>1, <1>2, <1>3, StateFact DEF Done, Past
<1>8. Exists' BY <1>1, <1>4, <1>7, StateFact DEF Exists
<1>9. Done' BY <1>1, <1>2, <1>4, <1>5, StateFact, ScriptFact DEF Done, Past
<1>10. \A d \in Wired : owner[d] # "MultiSig" => dependencies[d] = 2
  BY <1>1, <1>2, StateFact, ScriptFact DEF Done, Past
<1>11. \A d \in Wired : code[d] \in 0 .. 4 /\ Needs(d, code[d]) \in 0 .. 2
  BY StateFact, ScriptFact, NeedsFact
<1>12. \A d \in Wired : owner'[d] = "MultiSig" => dependencies[d] >= Needs(d, code[d])
  BY <1>4, <1>10, <1>11, StateFact, ScriptFact DEF Prepared
<1>13. ASSUME owner'["Manager"] = "MultiSig", code["Manager"] >= 2
       PROVE  \A d \in Wired : dependencies[d] = 2
  <2>1. CASE owner["Manager"] = "MultiSig" BY <1>13, <2>1, StateFact DEF Prepared
  <2>2. CASE owner["Manager"] # "MultiSig"
    <3> SUFFICES ASSUME NEW d \in Wired, owner[d] = "MultiSig" PROVE dependencies[d] = 2
      BY <1>10
    <3>1. code[d] \in 1 .. 4 BY <1>11, StateFact, ScriptFact DEF Exists
    <3>2. Needs(d, code[d]) = 2 BY <2>2, <3>1, NeedsFact
    <3> QED BY <3>2, StateFact, ScriptFact DEF Prepared
  <2> QED BY <2>1, <2>2
<1>14. Prepared' BY <1>1, <1>12, <1>13 DEF Prepared
<1> QED BY <1>6, <1>8, <1>9, <1>14 DEF IInv

(* The invariant holds on a new network and on one that release 1 runs on. *)
LEMMA InitInv == Init => IInv
<1> SUFFICES ASSUME Init PROVE IInv OBVIOUS
<1>1. /\ abi = implementation /\ code = implementation
      /\ dependencies = [c \in Contracts |-> Needs(c, code[c])]
      /\ run = Idle
  BY DEF Init
<1>2. /\ tree \in 2 .. 4
      /\ implementation \in [Contracts -> 0 .. 1]
      /\ owner \in [Contracts -> {"nobody", "MultiSig"}]
      /\ \A c \in Contracts : owner[c] = "nobody" <=> implementation[c] = 0
  <2>1. CASE /\ tree \in 2 .. 4
             /\ implementation = [c \in Contracts |-> 0]
             /\ owner = [c \in Contracts |-> "nobody"]
    BY <2>1
  <2>2. CASE /\ tree = 2
             /\ implementation = [c \in Contracts |-> Version(c, 1)]
             /\ owner = [c \in Contracts |->
                           IF c \in FirstContracts THEN "MultiSig" ELSE "nobody"]
    <3>1. \A c \in Contracts : Version(c, 1) = IF c \in FirstContracts THEN 1 ELSE 0
      BY VersionFact
    <3> QED BY <2>2, <3>1
  <2> QED BY <2>1, <2>2 DEF Init
<1>3. code \in [Contracts -> 0 .. 4] BY <1>1, <1>2
<1>4. dependencies \in [Contracts -> 0 .. 2] BY <1>1, <1>3, NeedsFact
<1>5. TypeOK BY <1>1, <1>2, <1>3, <1>4 DEF Init, TypeOK, Idle
<1>6. Exists BY <1>1, <1>2 DEF Exists
<1>7. Done BY <1>1 DEF Done, Idle
<1>8. Prepared
  <2>1. "Manager" \in Contracts BY DEF Contracts
  <2>2. ~(code["Manager"] >= 2) BY <1>1, <1>2, <2>1
  <2>3. \A c \in Wired : dependencies[c] >= Needs(c, code[c])
    <3>1. \A c \in Wired : dependencies[c] = Needs(c, code[c]) /\ Needs(c, code[c]) \in 0 .. 2
      BY <1>1, <1>3, ScriptFact, NeedsFact
    <3> QED BY <3>1
  <2> QED BY <2>2, <2>3 DEF Prepared
<1> QED BY <1>5, <1>6, <1>7, <1>8 DEF IInv

(* Every step of a script keeps it,                                        *)
LEMMA ScriptInv == IInv /\ Script => IInv'
<1> SUFFICES ASSUME IInv, Script PROVE IInv' OBVIOUS
<1>1. CASE \/ DeployMultiSig \/ DeployManager \/ DeployAccount \/ DeployStakedCelo
           \/ DeployVote \/ DeploySpecificGroupStrategy \/ DeployDefaultStrategy
           \/ DeployRebasedStakedCelo
  <2>1. PICK c \in Contracts, first \in {"deployer", "MultiSig"} :
          (first = "deployer" \/ c \notin Wired) /\ DeployOnly(Created(c), c, first)
    BY <1>1 DEF DeployMultiSig, DeployManager, DeployAccount, DeployStakedCelo, DeployVote,
                DeploySpecificGroupStrategy, DeployDefaultStrategy, DeployRebasedStakedCelo,
                Contracts, Wired, Created
  <2> QED BY <2>1, DeployOnlyInv
<1>2. CASE \/ SetManagerDependencies \/ SetVoteDependencies
           \/ SetSpecificGroupStrategyDependencies
  <2>1. PICK c \in Wired : SetDependenciesOnly(Wiring(c), c)
    BY <1>2 DEF SetManagerDependencies, SetVoteDependencies,
                SetSpecificGroupStrategyDependencies, Wired, Wiring
  <2> QED BY <2>1, SetDependenciesOnlyInv
<1>3. ASSUME NEW g \in Groups, UpdateGroupHealth(g) PROVE IInv'
  <2>1. /\ healthy' \subseteq Groups
        /\ run' = [run EXCEPT !.todo = run.todo \ {g}]
        /\ UNCHANGED <<tree, proxies, dependencies, active, activatable, validatorGroups,
                       outcome>>
    BY <1>3, StateFact DEF UpdateGroupHealth, TypeOK
  <2>2. /\ run' \in Runs /\ run'.tag = run.tag /\ run'.script = run.script
        /\ run'.loop = run.loop
    BY <2>1, StateFact DEF Runs
  <2>3. TypeOK' BY <2>1, <2>2, StateFact DEF TypeOK, Runs, proxies
  <2> QED BY <2>1, <2>2, <2>3, QuietInv DEF proxies
<1>4. CASE GroupHealthDone \/ GroupsActivated \/ AllTransferred
  <2>1. /\ run.tag # "none" /\ run.script <= 13 /\ (run.loop \/ run.script = 12)
        /\ Continue
        /\ UNCHANGED <<tree, proxies, dependencies, groupState, validatorGroups>>
    BY <1>4 DEF GroupHealthDone, GroupsActivated, AllTransferred, InLoop, AtScript
  <2>2. run' \in Runs /\ outcome' = outcome BY <2>1, PastFact
  <2>3. TypeOK' BY <2>1, <2>2, StateFact DEF TypeOK, Runs, proxies, groupState
  <2> QED BY <2>1, <2>3, AdvanceInv DEF proxies
<1>5. ASSUME NEW g \in Groups, ActivateGroup(g) \/ SkipUnhealthyGroup(g) PROVE IInv'
  <2>1. /\ active' \subseteq Groups /\ activatable' \subseteq Groups
        /\ \/ run' = [run EXCEPT !.todo = run.todo \ {g}]
           \/ run' = [run EXCEPT !.todo = run.todo \ {g}, !.placed = TRUE]
        /\ UNCHANGED <<tree, proxies, dependencies, healthy, validatorGroups, outcome>>
    BY <1>5, StateFact DEF ActivateGroup, SkipUnhealthyGroup, TypeOK, groupState
  <2>2. /\ run' \in Runs /\ run'.tag = run.tag /\ run'.script = run.script
        /\ run'.loop = run.loop
    BY <2>1, StateFact DEF Runs
  <2>3. TypeOK' BY <2>1, <2>2, StateFact DEF TypeOK, Runs, proxies
  <2> QED BY <2>1, <2>2, <2>3, QuietInv DEF proxies
<1>6. ASSUME \/ \E g \in Groups : ActivateGroupFails(g)
             \/ Finish
      PROVE  IInv'
  <2>1. /\ run' = Idle /\ outcome' \in {"failed", "finished"}
        /\ UNCHANGED <<tree, proxies, dependencies, groupState, validatorGroups>>
    BY <1>6 DEF ActivateGroupFails, Throw, Finish
  <2>2. run' \in Runs /\ run'.tag = "none" BY <2>1 DEF Idle, Runs
  <2>3. TypeOK' BY <2>1, <2>2, StateFact DEF TypeOK, Runs, proxies, groupState
  <2> QED BY <2>1, <2>2, <2>3, QuietInv DEF proxies
<1> QED
  BY <1>1, <1>2, <1>3, <1>4, <1>5, <1>6, DeployGroupHealthInv,
     SetDefaultStrategyDependenciesInv, TransferOwnershipInv DEF Script

(* and so does everything that happens to a run.                           *)
LEMMA NextInv == IInv /\ [Next]_vars => IInv'
<1> SUFFICES ASSUME IInv, [Next]_vars PROVE IInv' OBVIOUS
<1>1. CASE Script BY <1>1, ScriptInv
<1>2. CASE Interrupt
  <2>1. /\ run' = Idle /\ outcome' = "interrupted"
        /\ UNCHANGED <<tree, proxies, dependencies, groupState, validatorGroups>>
    BY <1>2 DEF Interrupt
  <2>2. run' \in Runs /\ run'.tag = "none" BY <2>1 DEF Idle, Runs
  <2>3. TypeOK' BY <2>1, <2>2, StateFact DEF TypeOK, Runs, proxies, groupState
  <2> QED BY <2>1, <2>2, <2>3, QuietInv DEF proxies
<1>3. CASE Configure
  <2>1. /\ validatorGroups' \subseteq Groups
        /\ UNCHANGED <<tree, proxies, dependencies, groupState, run, outcome>>
    BY <1>3 DEF Configure
  <2>2. TypeOK' BY <2>1, StateFact DEF TypeOK, Runs, proxies, groupState
  <2> QED BY <2>1, <2>2, QuietInv DEF proxies
<1>4. ASSUME NEW tag \in {"core", "proxy"}, Start(tag) PROVE IInv'
  <2>1. /\ run' = [Idle EXCEPT !.tag = tag] /\ outcome' = "running"
        /\ UNCHANGED <<tree, proxies, dependencies, groupState, validatorGroups>>
    BY <1>4 DEF Start
  <2>2. run' \in Runs /\ run'.script = 0 /\ ~run'.loop
    <3>1. run' = [tag |-> tag, script |-> 0, loop |-> FALSE, todo |-> {}, placed |-> FALSE, next |-> 1]
      BY <2>1 DEF Idle
    <3> QED BY <3>1 DEF Runs
  <2>3. TypeOK' BY <2>1, <2>2, StateFact DEF TypeOK, Runs, proxies, groupState
  <2> QED BY <2>1, <2>2, <2>3, QuietInv DEF proxies
<1>5. CASE UNCHANGED vars
  <2>1. UNCHANGED <<tree, implementation, abi, code, owner, dependencies, healthy, active,
                    activatable, validatorGroups, run, outcome>>
    BY <1>5 DEF vars, proxies, groupState
  <2>2. TypeOK' BY <2>1, StateFact DEF TypeOK
  <2> QED BY <2>1, <2>2, QuietInv
<1> QED BY <1>1, <1>2, <1>3, <1>4, <1>5 DEF Next

(* What the invariant says of the contracts that were handed over.         *)
LEMMA InvWired == IInv => HandedOverWired
<1> SUFFICES ASSUME IInv, NEW c \in Contracts, owner[c] = "MultiSig", NEW d \in Reaches(c)
             PROVE  dependencies[d] >= Needs(d, code[d])
  BY DEF HandedOverWired
<1>1. d \in Contracts BY DEF Reaches, Contracts
<1>2. /\ dependencies[d] \in 0 .. 2 /\ code[d] \in 0 .. 4 /\ Needs(d, code[d]) \in 0 .. 2
  BY <1>1, StateFact, NeedsFact
<1>3. CASE d = c
  <2>1. CASE c \in Wired BY <1>3, <2>1, StateFact DEF Prepared
  <2>2. CASE c \notin Wired BY <1>1, <1>2, <1>3, <2>2, NeedsFact
  <2> QED BY <2>1, <2>2
<1>4. CASE d # c
  <2>1. c = "Manager" /\ code["Manager"] >= 2 /\ d \in Wired BY <1>4 DEF Reaches, Wired
  <2>2. dependencies[d] = 2 BY <2>1, StateFact DEF Prepared
  <2> QED BY <1>2, <2>2
<1> QED BY <1>3, <1>4

(* The invariant holds in every state of every deployment.                 *)
THEOREM AlwaysDone == Spec => []IInv
BY InitInv, NextInv, PTL DEF Spec

(* Every variable keeps its type.                                          *)
THEOREM TypeCorrect == Spec => []TypeOK
<1>1. IInv => TypeOK BY DEF IInv
<1> QED BY <1>1, AlwaysDone, PTL

(* Whatever run is cut short wherever, and whatever groups are configured, *)
(* no contract is handed to MultiSig before everything it reaches has the  *)
(* dependencies that its code needs.                                       *)
THEOREM AlwaysHandedOverWired == Spec => []HandedOverWired
<1> QED BY InvWired, AlwaysDone, PTL

----------------------------------------------------------------------------
(* A run and the records it makes.                                         *)
(* The new implementation of c is deployed.                                *)
Placed(c) == implementation[c] = Version(c, tree)

(* What runs have done by now: the implementations of all contracts whose  *)
(* script is past are deployed, and after a run that finished MultiSig     *)
(* owns every contract that has dependencies.                              *)
Worked ==
  /\ run.tag = "none" => run.script = 0 /\ ~run.loop
  /\ \A c \in Contracts : Past(Created(c)) => Placed(c)
  /\ run.tag = "proxy" => \A c \in Contracts : owner[c] = "MultiSig"
  /\ run.tag = "core" /\ run.script = 12 =>
       \A i \in 1 .. run.next - 1 : owner[TransferOrder[i]] = "MultiSig"
  /\ run.tag = "core" /\ run.script > 12 => \A c \in Wired : owner[c] = "MultiSig"
  /\ outcome = "finished" => /\ \A c \in Contracts : Placed(c)
                             /\ \A c \in Wired : owner[c] = "MultiSig"

(* Nothing that was deployed, or handed over, is undone.                   *)
Onward ==
  /\ tree' = tree
  /\ \A c \in Contracts : /\ Placed(c) => Placed(c)'
                          /\ owner[c] = "MultiSig" => owner'[c] = "MultiSig"

(* The first scripts and the last are run for both tags.                   *)
LEMMA CreatedTagged ==
  \A c \in Contracts, tag \in {"core", "proxy"} : Created(c) \in Tagged(tag)
BY ScriptFact DEF Tagged

(* A script is over that has deployed its contract, if it has one, or      *)
(* handed over its contracts, if it is the twelfth.                        *)
LEMMA AdvanceWorked ==
  ASSUME IInv, Worked, Onward, run.tag # "none", run.script <= 13, Continue,
         \A c \in Contracts : Created(c) = run.script /\ ~run.loop => Placed(c)',
         run.tag = "core" /\ run.script = 12 => \A c \in Wired : owner'[c] = "MultiSig"
  PROVE  Worked'
<1>1. /\ run.tag \in {"core", "proxy"} /\ run.script \in 0 .. 13 /\ run.loop \in BOOLEAN
  BY StateFact DEF Runs
<1>2. /\ run' \in Runs /\ run'.tag = run.tag /\ ~run'.loop /\ run'.next = 1
      /\ run.tag = "core" => run'.script = run.script + 1
      /\ \A k \in Tagged(run.tag) : k > run.script => run'.script <= k
      /\ outcome' = outcome
  BY ContinueFact, StateFact DEF Runs
<1>3. run'.script \in 0 .. 14 BY <1>2 DEF Runs
<1>4. ASSUME NEW c \in Contracts, Past(Created(c))' PROVE Placed(c)'
  <2>1. Created(c) \in Tagged(run.tag) /\ Created(c) \in 0 .. 13
    BY <1>1, CreatedTagged, ScriptFact
  <2>2. run'.script > Created(c) BY <1>2, <1>3, <1>4, <2>1 DEF Past
  <2>3. ~(Created(c) > run.script) BY <1>1, <1>2, <1>3, <2>1, <2>2
  <2>4. CASE Created(c) = run.script /\ ~run.loop BY <2>4
  <2>5. CASE Created(c) = run.script /\ run.loop
    BY <2>5 DEF Past, Worked, Onward
  <2>6. CASE Created(c) < run.script BY <2>6, <1>1, <2>1 DEF Past, Worked, Onward
  <2> QED BY <1>1, <2>1, <2>3, <2>4, <2>5, <2>6
<1>5. run'.tag = "core" /\ run'.script > 12 => \A c \in Wired : owner'[c] = "MultiSig"
  BY <1>1, <1>2, ScriptFact DEF Worked, Onward
<1>6. run'.tag = "core" /\ run'.script = 12 =>
        \A i \in 1 .. run'.next - 1 : owner'[TransferOrder[i]] = "MultiSig"
  BY <1>2
<1>7. run'.tag # "none" /\ (run'.tag = "proxy" => \A c \in Contracts : owner'[c] = "MultiSig")
  BY <1>1, <1>2 DEF Worked, Onward
<1>8. outcome' = "finished" => /\ \A c \in Contracts : Placed(c)'
                               /\ \A c \in Wired : owner'[c] = "MultiSig"
  BY <1>2, ScriptFact DEF Worked, Onward
<1> HIDE DEF Placed
<1> QED BY <1>4, <1>5, <1>6, <1>7, <1>8 DEF Worked

(* A script goes on.                                                       *)
LEMMA StayWorked ==
  ASSUME IInv, Worked, Onward, run'.tag = run.tag, run'.script = run.script,
         outcome' = outcome,
         run.tag # "none",
         \A c \in Contracts : Created(c) = run.script /\ ~run.loop /\ run'.loop => Placed(c)',
         run.tag = "core" /\ run.script = 12 =>
           \A i \in 1 .. run'.next - 1 : owner'[TransferOrder[i]] = "MultiSig"
  PROVE  Worked'
<1>1. ASSUME NEW c \in Contracts, Past(Created(c))' PROVE Placed(c)'
  <2>1. CASE Past(Created(c)) BY <2>1 DEF Worked, Onward
  <2>2. CASE ~Past(Created(c))
    <3>1. Created(c) = run.script /\ ~run.loop /\ run'.loop BY <1>1, <2>2 DEF Past
    <3> QED BY <3>1
  <2> QED BY <2>1, <2>2
<1>2. run.tag = "core" /\ run.script > 12 => \A c \in Wired : owner'[c] = "MultiSig"
  BY ScriptFact DEF Worked, Onward
<1>3. run.tag = "proxy" => \A c \in Contracts : owner'[c] = "MultiSig"
  BY DEF Worked, Onward
<1>5. outcome' = "finished" => /\ \A c \in Contracts : Placed(c)'
                               /\ \A c \in Wired : owner'[c] = "MultiSig"
  BY ScriptFact DEF Worked, Onward
<1> HIDE DEF Placed
<1> QED BY <1>1, <1>2, <1>3, <1>5 DEF Worked

(* No run is at work, or one begins.                                       *)
LEMMA OutsideWorked ==
  ASSUME run'.script = 0, ~run'.loop,
         run'.tag = "proxy" => \A c \in Contracts : owner'[c] = "MultiSig",
         outcome' = "finished" => /\ \A c \in Contracts : Placed(c)'
                                  /\ \A c \in Wired : owner'[c] = "MultiSig"
  PROVE  Worked'
<1>1. \A k \in 0 .. 13 : ~Past(k)' BY DEF Past
<1> HIDE DEF Placed
<1> QED BY <1>1, ScriptFact DEF Worked

(* After deploying c its implementation is in place; no contract of        *)
(* MultiSig has other code or another owner.                               *)
LEMMA DeployOnward ==
  ASSUME IInv, NEW c \in Contracts, NEW first \in {"deployer", "MultiSig"},
         DeployProxy(c, first), tree' = tree
  PROVE  /\ Onward /\ Placed(c)'
         /\ \A d \in Contracts : \/ code'[d] = code[d]
                                 \/ /\ d = c /\ owner[d] # "MultiSig"
                                    /\ code'[d] = Version(d, tree)
<1> DEFINE v == Version(c, tree)
<1>1. /\ implementation \in [Contracts -> 0 .. 4] /\ code \in [Contracts -> 0 .. 4]
      /\ owner \in [Contracts -> {"nobody", "deployer", "MultiSig"}]
      /\ owner[c] = "nobody" <=> code[c] = 0
      /\ abi[c] = 0 <=> code[c] = 0
  BY DEF IInv, TypeOK, Exists
<1>2. \A d \in Contracts : Version(d, tree)' = Version(d, tree) BY DEF Version
<1>3. CASE abi[c] = 0
  <2>1. /\ implementation' = [implementation EXCEPT ![c] = v]
        /\ code' = [code EXCEPT ![c] = v]
        /\ owner' = [owner EXCEPT ![c] = first]
    BY <1>3 DEF DeployProxy
  <2> HIDE DEF v
  <2>2. implementation'[c] = v /\ \A d \in Contracts : d # c => implementation'[d] = implementation[d]
    BY <1>1, <2>1
  <2>3. code'[c] = v /\ \A d \in Contracts : d # c => code'[d] = code[d] /\ owner'[d] = owner[d]
    BY <1>1, <2>1
  <2>4. owner[c] # "MultiSig" BY <1>1, <1>3
  <2> QED BY <1>2, <2>2, <2>3, <2>4 DEF Onward, Placed, v
<1>4. CASE abi[c] # 0 /\ implementation[c] # v
  <2>1. /\ implementation' = [implementation EXCEPT ![c] = v] /\ owner' = owner
        /\ code' = code \/ (owner[c] = "deployer" /\ code' = [code EXCEPT ![c] = v])
    BY <1>4 DEF DeployProxy
  <2> HIDE DEF v
  <2>2. implementation'[c] = v /\ \A d \in Contracts : d # c => implementation'[d] = implementation[d]
    BY <1>1, <2>1
  <2>3. \A d \in Contracts : \/ code'[d] = code[d]
                             \/ d = c /\ owner[d] # "MultiSig" /\ code'[d] = v
    BY <1>1, <2>1
  <2> QED BY <1>2, <2>1, <2>2, <2>3 DEF Onward, Placed, v
<1>5. CASE abi[c] # 0 /\ implementation[c] = v
  <2>1. UNCHANGED <<implementation, abi, code, owner>> BY <1>5 DEF DeployProxy, proxies
  <2> QED BY <1>2, <1>5, <2>1 DEF Onward, Placed
<1> QED BY <1>3, <1>4, <1>5

(* What a step of a run does to the contracts: only those that are not     *)
(* MultiSig's get new code, that of the release checked out, and           *)
(* RebasedStakedCelo exists only when all others do.                       *)
Builds ==
  /\ Onward
  /\ \A c \in Contracts : \/ code'[c] = code[c]
                          \/ owner[c] # "MultiSig" /\ code'[c] = Version(c, tree)
  /\ code'["RebasedStakedCelo"] # 0 =>
       \/ code["RebasedStakedCelo"] # 0
       \/ \A c \in Contracts \ {"RebasedStakedCelo"} : code[c] # 0

(* Steps that change no code and no record of an implementation.           *)
LEMMA QuietOnward ==
  ASSUME UNCHANGED <<tree, implementation, code>>,
         \A c \in Contracts : owner[c] = "MultiSig" => owner'[c] = "MultiSig"
  PROVE  Onward /\ Builds
<1>1. \A c \in Contracts : Version(c, tree)' = Version(c, tree) BY DEF Version
<1>2. Onward BY <1>1 DEF Onward, Placed
<1> QED BY <1>2 DEF Builds

(* Every contract but the last is there when a run comes to script 13.     *)
LEMMA LastScript ==
  ASSUME IInv, Worked, run.tag # "none", run.script = 13
  PROVE  \A c \in Contracts \ {"RebasedStakedCelo"} : code[c] # 0
<1> SUFFICES ASSUME NEW c \in Contracts, c # "RebasedStakedCelo" PROVE code[c] # 0
  OBVIOUS
<1>1. CASE run.tag = "core"
  <2>1. Created(c) \in 0 .. 7
    <3>1. Created("RebasedStakedCelo") = 13 /\ "RebasedStakedCelo" \in Contracts
      BY DEF Created, Contracts
    <3> QED BY <3>1, ScriptFact
  <2> QED BY <1>1, <2>1, StateFact DEF Done, Past
<1>2. CASE run.tag = "proxy" BY <1>2, StateFact DEF Worked, Exists
<1> QED BY <1>1, <1>2, StateFact DEF Runs

(* The scripts that only deploy.                                           *)
LEMMA DeployOnlyWorked ==
  ASSUME IInv, Worked, NEW c \in Contracts, NEW first \in {"deployer", "MultiSig"},
         DeployOnly(Created(c), c, first)
  PROVE  Worked' /\ Builds
<1>1. /\ run.tag # "none" /\ run.script = Created(c) /\ ~run.loop
      /\ DeployProxy(c, first) /\ Continue /\ tree' = tree
  BY DEF DeployOnly, AtScript
<1>2. /\ Onward /\ Placed(c)'
      /\ \A d \in Contracts : \/ code'[d] = code[d]
                              \/ /\ d = c /\ owner[d] # "MultiSig"
                                 /\ code'[d] = Version(d, tree)
  BY <1>1, DeployOnward
<1>3. run.script \in (0 .. 7) \cup {13} /\ \A d \in Contracts : Created(d) = run.script => d = c
  BY <1>1, ScriptFact
<1>4. Worked'
  <2>1. \A d \in Contracts : Created(d) = run.script => Placed(d)' BY <1>2, <1>3
  <2>2. run.script <= 13 /\ run.script # 12 BY <1>3
  <2> HIDE DEF Placed
  <2> QED BY <1>1, <1>2, <2>1, <2>2, AdvanceWorked
<1>5. Builds
  <2>1. CASE c = "RebasedStakedCelo"
    <3>1. run.script = 13 BY <1>1, <2>1 DEF Created
    <3> QED BY <1>1, <1>2, <3>1, LastScript DEF Builds
  <2>2. CASE c # "RebasedStakedCelo"
    <3>1. "RebasedStakedCelo" \in Contracts BY DEF Contracts
    <3> QED BY <1>2, <2>2, <3>1 DEF Builds
  <2> QED BY <2>1, <2>2
<1> QED BY <1>4, <1>5

(* 05_deploy_group_health begins.                                          *)
LEMMA DeployGroupHealthWorked ==
  ASSUME IInv, Worked, DeployGroupHealth
  PROVE  Worked' /\ Builds
<1>1. /\ run.tag # "none" /\ run.script = 5 /\ ~run.loop
      /\ DeployProxy("GroupHealth", "MultiSig") /\ tree' = tree
  BY DEF DeployGroupHealth, AtScript
<1>2. PICK groups : Loop(groups) BY DEF DeployGroupHealth
<1>3. /\ run'.tag = run.tag /\ outcome' = outcome /\ run'.script = run.script
  BY <1>2, StateFact DEF Loop, Runs
<1>4. "GroupHealth" \in Contracts /\ "RebasedStakedCelo" \in Contracts
      /\ Created("GroupHealth") = 5
  BY DEF Contracts, Created
<1>5. /\ Onward /\ Placed("GroupHealth")'
      /\ \A d \in Contracts : \/ code'[d] = code[d]
                              \/ /\ d = "GroupHealth" /\ owner[d] # "MultiSig"
                                 /\ code'[d] = Version(d, tree)
  BY <1>1, <1>4, DeployOnward
<1>6. Builds BY <1>4, <1>5 DEF Builds
<1>7. \A d \in Contracts : Created(d) = run.script => d = "GroupHealth"
  BY <1>1, <1>4, ScriptFact
<1>8. Worked'
  <2>1. \A d \in Contracts : Created(d) = run.script => Placed(d)' BY <1>5, <1>7
  <2> HIDE DEF Placed
  <2> QED BY <1>1, <1>3, <1>5, <2>1, StayWorked
<1> QED BY <1>6, <1>8

(* A script that leaves the contracts alone goes on, or is over.           *)
LEMMA QuietWorked ==
  ASSUME IInv, Worked, UNCHANGED <<tree, implementation, code, owner>>,
         \A c \in Contracts : Created(c) = run.script => run.loop,
         run.tag # "none",
         \/ /\ run'.tag = run.tag /\ run'.script = run.script /\ outcome' = outcome
            /\ run'.next = run.next
         \/ /\ run.script <= 13 /\ Continue
            /\ run.tag = "core" /\ run.script = 12 => \A c \in Wired : owner[c] = "MultiSig"
  PROVE  Worked' /\ Builds
<1>1. Onward /\ Builds BY QuietOnward
<1>2. run.tag = "core" /\ run.script = 12 =>
        \A i \in 1 .. run.next - 1 : owner'[TransferOrder[i]] = "MultiSig"
  BY DEF Worked
<1> HIDE DEF Placed
<1> QED BY <1>1, <1>2, StayWorked, AdvanceWorked

(* A transfer of ownership.                                                *)
LEMMA TransferOwnershipWorked ==
  ASSUME IInv, Worked, TransferOwnership
  PROVE  Worked' /\ Builds
<1> DEFINE c == TransferOrder[run.next]
<1>1. /\ run.tag # "none" /\ run.script = 12 /\ ~run.loop /\ run.next <= 6
      /\ owner' = IF owner[c] # "MultiSig" THEN [owner EXCEPT ![c] = "MultiSig"] ELSE owner
      /\ run' = [run EXCEPT !.next = run.next + 1]
      /\ UNCHANGED <<tree, implementation, abi, code, outcome>>
  BY DEF TransferOwnership, AtScript
<1>2. run.next \in 1 .. 6 BY <1>1, StateFact
<1>3. c \in Contracts BY <1>2 DEF TransferOrder, Contracts
<1> HIDE DEF c
<1>4. /\ \A d \in Contracts : owner[d] = "MultiSig" => owner'[d] = "MultiSig"
      /\ owner'[c] = "MultiSig"
  BY <1>1, <1>3, StateFact
<1>5. Onward /\ Builds BY <1>1, <1>4, QuietOnward
<1>6. /\ run'.tag = run.tag /\ run'.script = run.script /\ run'.loop = run.loop
      /\ run'.next = run.next + 1
  BY <1>1, StateFact DEF Runs
<1>7. ASSUME run.tag = "core", NEW i \in 1 .. run'.next - 1
      PROVE  owner'[TransferOrder[i]] = "MultiSig"
  <2>1. i \in 1 .. run.next BY <1>2, <1>6
  <2>2. TransferOrder[i] \in Contracts BY <1>2, <2>1 DEF TransferOrder, Contracts
  <2>3. CASE i = run.next BY <1>4, <2>3 DEF c
  <2>4. CASE i # run.next
    <3>1. i \in 1 .. run.next - 1 BY <1>2, <2>1, <2>4
    <3>2. owner[TransferOrder[i]] = "MultiSig" BY <1>1, <1>7, <3>1 DEF Worked
    <3> QED BY <1>4, <2>2, <3>2
  <2> QED BY <2>3, <2>4
<1>8. \A d \in Contracts : Created(d) # run.script BY <1>1, ScriptFact
<1>9. Worked'
  <2> HIDE DEF Placed
  <2> QED BY <1>1, <1>5, <1>6, <1>7, <1>8, StayWorked
<1> QED BY <1>5, <1>9

(* A run ends with everything in its place.                                *)
LEMMA FinishWorked ==
  ASSUME IInv, Worked, Finish
  PROVE  Worked' /\ Builds
<1>1. /\ run.script = 14 /\ run' = Idle
      /\ UNCHANGED <<tree, implementation, abi, code, owner>>
  BY DEF Finish, proxies
<1>2. run'.script = 0 /\ ~run'.loop /\ run'.tag = "none" BY <1>1 DEF Idle
<1>3. Onward /\ Builds BY <1>1, QuietOnward
<1>4. \A c \in Contracts : Placed(c)' BY <1>1, <1>3, ScriptFact DEF Past, Worked, Onward
<1>5. \A c \in Wired : owner'[c] = "MultiSig"
  <2>1. run.tag \in {"core", "proxy"} BY <1>1, StateFact DEF Runs, Worked
  <2> QED BY <1>1, <2>1, ScriptFact DEF Worked
<1>6. Worked'
  <2> HIDE DEF Placed
  <2> QED BY <1>2, <1>4, <1>5, OutsideWorked
<1> QED BY <1>3, <1>6

(* The other ways in which a run stops or begins.                          *)
LEMMA StopWorked ==
  ASSUME IInv, Worked, UNCHANGED <<tree, implementation, code, owner>>,
         run'.script = 0, ~run'.loop, outcome' # "finished",
         run'.tag = "proxy" => \A c \in Contracts : owner[c] = "MultiSig"
  PROVE  Worked' /\ Builds
<1>1. Builds BY QuietOnward
<1>2. Worked'
  <2> HIDE DEF Placed
  <2> QED BY OutsideWorked
<1> QED BY <1>1, <1>2

(* All steps of scripts,                                                   *)
LEMMA ScriptWorked == IInv /\ Worked /\ Script => Worked' /\ Builds
<1> SUFFICES ASSUME IInv, Worked, Script PROVE Worked' /\ Builds OBVIOUS
<1> USE DEF proxies
<1>0. run \in Runs BY StateFact
<1>1. CASE \/ DeployMultiSig \/ DeployManager \/ DeployAccount \/ DeployStakedCelo
           \/ DeployVote \/ DeploySpecificGroupStrategy \/ DeployDefaultStrategy
           \/ DeployRebasedStakedCelo
  <2>1. PICK c \in Contracts, first \in {"deployer", "MultiSig"} :
          DeployOnly(Created(c), c, first)
    BY <1>1 DEF DeployMultiSig, DeployManager, DeployAccount, DeployStakedCelo, DeployVote,
                DeploySpecificGroupStrategy, DeployDefaultStrategy, DeployRebasedStakedCelo,
                Contracts, Created
  <2> QED BY <2>1, DeployOnlyWorked
<1>2. CASE \/ SetManagerDependencies \/ SetVoteDependencies
           \/ SetSpecificGroupStrategyDependencies
  <2>1. PICK c \in Wired : SetDependenciesOnly(Wiring(c), c)
    BY <1>2 DEF SetManagerDependencies, SetVoteDependencies,
                SetSpecificGroupStrategyDependencies, Wired, Wiring
  <2>2. /\ run.tag # "none" /\ run.script = Wiring(c) /\ ~run.loop /\ Continue
        /\ UNCHANGED <<tree, implementation, code, owner>>
    BY <2>1 DEF SetDependenciesOnly, AtScript
  <2>3. run.script \in 8 .. 11 /\ \A d \in Contracts : Created(d) # run.script
    BY <2>2, ScriptFact
  <2> QED BY <2>2, <2>3, QuietWorked
<1>3. CASE SetDefaultStrategyDependencies
  <2>1. /\ run.tag # "none" /\ run.script = 11 /\ ~run.loop
        /\ UNCHANGED <<tree, implementation, code, owner>>
    BY <1>3 DEF SetDefaultStrategyDependencies, AtScript
  <2>2. PICK groups : Loop(groups) BY <1>3 DEF SetDefaultStrategyDependencies
  <2>3. /\ run'.tag = run.tag /\ outcome' = outcome /\ run'.script = run.script
        /\ run'.next = run.next
    BY <1>0, <2>2 DEF Loop, Runs
  <2>4. \A d \in Contracts : Created(d) # run.script BY <2>1, ScriptFact
  <2> QED BY <2>1, <2>3, <2>4, QuietWorked
<1>4. ASSUME NEW g \in Groups, UpdateGroupHealth(g) \/ ActivateGroup(g) \/ SkipUnhealthyGroup(g)
      PROVE  Worked' /\ Builds
  <2>1. /\ \/ run' = [run EXCEPT !.todo = run.todo \ {g}]
           \/ run' = [run EXCEPT !.todo = run.todo \ {g}, !.placed = TRUE]
        /\ run.loop
        /\ UNCHANGED <<tree, implementation, code, owner>> /\ outcome' = outcome
        /\ run.tag # "none"
    BY <1>4 DEF UpdateGroupHealth, ActivateGroup, SkipUnhealthyGroup, InLoop
  <2>2. /\ run'.tag = run.tag /\ run'.script = run.script /\ outcome' = outcome
        /\ run'.next = run.next
    BY <1>0, <2>1 DEF Runs
  <2>3. \A d \in Contracts : Created(d) = run.script => run.loop BY <2>1
  <2> QED BY <2>1, <2>2, <2>3, QuietWorked
<1>5. CASE GroupHealthDone \/ GroupsActivated
  <2>1. /\ run.tag # "none" /\ run.script \in {5, 11} /\ run.loop /\ Continue
        /\ UNCHANGED <<tree, implementation, code, owner>>
    BY <1>5 DEF GroupHealthDone, GroupsActivated, InLoop
  <2>2. run.script <= 13 /\ run.script # 12 BY <2>1
  <2>3. \A d \in Contracts : Created(d) = run.script => run.loop BY <2>1
  <2> QED BY <2>1, <2>2, <2>3, QuietWorked
<1>6. CASE AllTransferred
  <2>1. /\ run.tag # "none" /\ run.script = 12 /\ run.next > 6 /\ Continue
        /\ UNCHANGED <<tree, implementation, code, owner>>
    BY <1>6 DEF AllTransferred, AtScript
  <2>2. run.next = 7 BY <1>0, <2>1 DEF Runs
  <2>3. run.tag = "core" => \A i \in 1 .. 6 : owner[TransferOrder[i]] = "MultiSig"
    BY <2>1, <2>2 DEF Worked
  <2>4. \A c \in Wired : \E i \in 1 .. 6 : c = TransferOrder[i]
    <3>1. /\ TransferOrder[3] = "Manager" /\ TransferOrder[4] = "Vote"
          /\ TransferOrder[5] = "SpecificGroupStrategy" /\ TransferOrder[6] = "DefaultStrategy"
      BY DEF TransferOrder
    <3> QED BY <3>1 DEF Wired
  <2>5. \A d \in Contracts : Created(d) # run.script BY <2>1, ScriptFact
  <2>6. run.tag = "core" => \A c \in Wired : owner[c] = "MultiSig" BY <2>3, <2>4
  <2> QED BY <2>1, <2>5, <2>6, QuietWorked
<1>7. ASSUME NEW g \in Groups, ActivateGroupFails(g) PROVE Worked' /\ Builds
  <2>1. /\ run' = Idle /\ outcome' = "failed"
        /\ UNCHANGED <<tree, implementation, code, owner>>
    BY <1>7 DEF ActivateGroupFails, Throw
  <2> QED BY <2>1, StopWorked DEF Idle
<1> QED
  BY <1>1, <1>2, <1>3, <1>4, <1>5, <1>6, <1>7, DeployGroupHealthWorked,
     TransferOwnershipWorked, FinishWorked DEF Script

(* and all that happens to a run.                                          *)
LEMMA RunWorked == IInv /\ Worked /\ [Next]_vars => Worked' /\ Builds
<1> SUFFICES ASSUME IInv, Worked, [Next]_vars PROVE Worked' /\ Builds OBVIOUS
<1> USE DEF proxies
<1>1. CASE Script BY <1>1, ScriptWorked
<1>2. CASE Interrupt
  <2>1. /\ run' = Idle /\ outcome' = "interrupted"
        /\ UNCHANGED <<tree, implementation, code, owner>>
    BY <1>2 DEF Interrupt
  <2> QED BY <2>1, StopWorked DEF Idle
<1>3. ASSUME NEW tag \in {"core", "proxy"}, Start(tag) PROVE Worked' /\ Builds
  <2>1. /\ run' = [Idle EXCEPT !.tag = tag] /\ outcome' = "running"
        /\ tag = "proxy" => \A c \in Contracts : owner[c] = "MultiSig"
        /\ UNCHANGED <<tree, implementation, code, owner>>
    BY <1>3 DEF Start
  <2>2. run'.script = 0 /\ ~run'.loop /\ run'.tag = tag BY <2>1 DEF Idle
  <2> QED BY <2>1, <2>2, StopWorked
<1>4. CASE Configure \/ UNCHANGED vars
  <2>1. UNCHANGED <<tree, implementation, code, owner, run, outcome>>
    BY <1>4 DEF Configure, vars
  <2>2. Builds BY <2>1, QuietOnward
  <2>3. \A c \in Contracts : Version(c, tree)' = Version(c, tree) BY <2>1 DEF Version
  <2>4. Worked' BY <2>1, <2>3 DEF Worked, Placed, Past
  <2> QED BY <2>2, <2>4
<1> QED BY <1>1, <1>2, <1>3, <1>4 DEF Next

----------------------------------------------------------------------------
(* Releases.                                                               *)
(* Every contract there is has the code of the release checked out; if the *)
(* last one is there, all are.                                             *)
Current ==
  /\ \A c \in Contracts : code[c] \in {0, Version(c, tree)}
  /\ code["RebasedStakedCelo"] # 0 => \A c \in Contracts : code[c] # 0

(* MultiSig owns what the release before brought, and it is as it was;     *)
(* what this release brings may be there already.                          *)
Upgrading ==
  \A c \in Contracts :
    IF Version(c, tree - 1) # 0
    THEN owner[c] = "MultiSig" /\ code[c] = Version(c, tree - 1)
    ELSE code[c] \in {0, Version(c, tree)}

(* What is called with what.                                               *)
Arguments == Nat \cup BOOLEAN \cup {"MultiSig", NewOwner} \cup Groups

Names == {"", "upgradeTo", "activateGroup", "setAllowedToVoteOverMaxNumberOfGroups",
          "setDependencies", "setPauser", "setMinCountOfActiveGroups", "addOwner"}

Calls == [fn : Names, to : Contracts, arg : Arguments]

(* The calls of a proposal upgrade to the release checked out; if none is  *)
(* blank, they upgrade all contracts that the release changes, set the     *)
(* pauser of all or of none, and give Manager its new dependencies when    *)
(* the release is the one that needs them.                                 *)
Sound(calls, release) ==
  /\ \A call \in calls :
       /\ call.fn = "upgradeTo" => call.arg = Version(call.to, release)
       /\ call.fn = "activateGroup" => call.arg \in Groups
  /\ (\A call \in calls : call.fn # "") =>
       /\ \A c \in Contracts : Version(c, release - 1) \notin {0, Version(c, release)} =>
            \E call \in calls : call.fn = "upgradeTo" /\ call.to = c
       /\ \/ \A call \in calls : call.fn # "setPauser"
          \/ \A c \in Contracts : \E call \in calls : call.fn = "setPauser" /\ call.to = c
       /\ release = 2 => \E call \in calls : call.fn = "setDependencies" /\ call.to = "Manager"

(* Calls are printed only after a run that finished, and the release stays *)
(* checked out until they are executed; what is submitted has no blanks.   *)
Waits ==
  /\ printed \in Seq(Calls)
  /\ proposal \in [stage : {"none", "submitted", "scheduled", "executable"},
                   calls : Seq(Calls), confirmedBy : SUBSET (Owners \cup {NewOwner})]
  /\ printed # <<>> \/ proposal.stage # "none" =>
       /\ \A c \in Contracts : Placed(c) /\ code[c] # 0
       /\ \A c \in Wired : owner[c] = "MultiSig"
  /\ printed # <<>> => Sound(SeqExt!ToSet(printed), tree)
  /\ proposal.stage # "none" =>
       /\ Sound(SeqExt!ToSet(proposal.calls), tree)
       /\ \A call \in SeqExt!ToSet(proposal.calls) : call.fn # ""

(* The inductive invariant of releases.                                    *)
RInv ==
  /\ IInv /\ Worked
  /\ Current \/ Upgrading
  /\ Waits
  /\ pausers \in {{}, Contracts}

(* The last release leaves alone what it does not change.                  *)
LEMMA LastRelease ==
  ASSUME NEW c \in Contracts \ ChangedIn(4)
  PROVE  Version(c, 4) = Version(c, 3)
<1>1. {v \in 1 .. 4 : c \in ChangedIn(v)} = {v \in 1 .. 3 : c \in ChangedIn(v)}
  <2>1. \A v \in 1 .. 4 : v = 4 \/ v \in 1 .. 3 OBVIOUS
  <2>2. \A v \in 1 .. 3 : v \in 1 .. 4 OBVIOUS
  <2> QED BY <2>1, <2>2
<1> QED BY <1>1 DEF Version

(* The versions in two releases, one after the other.                      *)
LEMMA ReleasesFact ==
  ASSUME TypeOK, NEW c \in Contracts
  PROVE  /\ tree \in 2 .. 4 /\ Version(c, tree) \in 2 .. 4 /\ Version(c, tree - 1) \in 0 .. 4
         /\ Version(c, tree - 1) = 0 => tree = 2 /\ c \notin FirstContracts
         /\ tree # 2 => Version(c, tree - 1) >= 2
<1>1. tree \in 2 .. 4 BY DEF TypeOK
<1>2. Version(c, tree) \in 0 .. 4 /\ Version(c, tree) >= 2 BY <1>1, VersionFact
<1>3. Version(c, 1) = IF c \in FirstContracts THEN 1 ELSE 0 BY VersionFact
<1>4. Version(c, tree - 1) \in 0 .. 4 BY <1>1, VersionFact
<1>5. tree # 2 => tree - 1 \in 1 .. 4 /\ tree - 1 >= 2 BY <1>1
<1>6. tree # 2 => Version(c, tree - 1) >= 2 BY <1>5, VersionFact
<1>7. tree = 2 => Version(c, tree - 1) = IF c \in FirstContracts THEN 1 ELSE 0 BY <1>3
<1> QED BY <1>1, <1>2, <1>4, <1>6, <1>7

(* A run keeps the contracts at one release, or on the way to the next.    *)
LEMMA BuildsStanding ==
  ASSUME IInv, IInv', Current \/ Upgrading, Builds
  PROVE  Current' \/ Upgrading'
<1>1. \A c \in Contracts : Version(c, tree)' = Version(c, tree)
                           /\ Version(c, tree - 1)' = Version(c, tree - 1)
  BY DEF Builds, Onward, Version
<1>2. CASE Current
  <2>1. \A c \in Contracts : code'[c] \in {0, Version(c, tree)} BY <1>2 DEF Current, Builds
  <2>2. ASSUME code'["RebasedStakedCelo"] # 0, NEW c \in Contracts PROVE code'[c] # 0
    <3>1. Version(c, tree) # 0 BY ReleasesFact DEF IInv
    <3>2. c = "RebasedStakedCelo" \/ code[c] # 0 BY <1>2, <2>2 DEF Current, Builds
    <3> QED BY <2>2, <3>1, <3>2 DEF Builds
  <2> QED BY <1>1, <2>1, <2>2 DEF Current
<1>3. CASE Upgrading
  <2> SUFFICES ASSUME NEW c \in Contracts
               PROVE  IF Version(c, tree - 1) # 0
                      THEN owner'[c] = "MultiSig" /\ code'[c] = Version(c, tree - 1)
                      ELSE code'[c] \in {0, Version(c, tree)}
    BY <1>1 DEF Upgrading
  <2> QED BY <1>3 DEF Upgrading, Builds, Onward
<1> QED BY <1>2, <1>3

(* A run leaves what waits as it is, and as good as it is.                 *)
LEMMA BuildsWaits ==
  ASSUME IInv, Waits, Builds, UNCHANGED <<printed, proposal>>
  PROVE  Waits'
<1>1. tree' = tree BY DEF Builds, Onward
<1>3. \A c \in Contracts : /\ Placed(c) => Placed(c)'
                           /\ code[c] # 0 => code'[c] # 0
                           /\ owner[c] = "MultiSig" => owner'[c] = "MultiSig"
  BY ReleasesFact DEF Builds, Onward, IInv
<1>6. /\ SeqExt!ToSet(printed)' = SeqExt!ToSet(printed)
      /\ SeqExt!ToSet(proposal.calls)' = SeqExt!ToSet(proposal.calls)
  BY DEF SeqExt!ToSet
<1>7. \A c \in Wired : c \in Contracts BY ScriptFact
<1> HIDE DEF Placed
<1> QED BY <1>1, <1>3, <1>6, <1>7 DEF Waits

----------------------------------------------------------------------------
(* The calls that the update tasks print.                                  *)
(* The elements of a concatenation.                                        *)
LEMMA ConcatFact ==
  ASSUME NEW S, NEW s \in Seq(S), NEW t \in Seq(S)
  PROVE  /\ s \o t \in Seq(S)
         /\ SeqExt!ToSet(s \o t) = SeqExt!ToSet(s) \cup SeqExt!ToSet(t)
<1>1. /\ Len(s) \in Nat /\ Len(t) \in Nat /\ s \o t \in Seq(S)
      /\ Len(s \o t) = Len(s) + Len(t)
      /\ \A i \in 1 .. Len(s) + Len(t) :
           (s \o t)[i] = IF i <= Len(s) THEN s[i] ELSE t[i - Len(s)]
  OBVIOUS
<1>2. /\ DOMAIN s = 1 .. Len(s) /\ DOMAIN t = 1 .. Len(t)
      /\ DOMAIN (s \o t) = 1 .. Len(s) + Len(t)
  BY <1>1
<1> DEFINE r == s \o t
           m == Len(s)
           n == Len(t)
<1> HIDE DEF r, m, n
<1>3. ASSUME NEW i \in 1 .. m PROVE s[i] \in SeqExt!ToSet(r)
  <2>1. i \in DOMAIN r /\ r[i] = s[i] BY <1>1, <1>2 DEF r, m, n
  <2> QED BY <2>1 DEF SeqExt!ToSet
<1>4. ASSUME NEW i \in 1 .. n PROVE t[i] \in SeqExt!ToSet(r)
  <2>1. m + i \in DOMAIN r /\ r[m + i] = t[i] BY <1>1, <1>2 DEF r, m, n
  <2> QED BY <2>1 DEF SeqExt!ToSet
<1>5. ASSUME NEW i \in DOMAIN r
      PROVE  (i \in DOMAIN s /\ r[i] = s[i]) \/ (i - m \in DOMAIN t /\ r[i] = t[i - m])
  BY <1>1, <1>2 DEF r, m, n
<1>6. SeqExt!ToSet(r) = SeqExt!ToSet(s) \cup SeqExt!ToSet(t)
  BY <1>2, <1>3, <1>4, <1>5 DEF SeqExt!ToSet, m, n
<1> QED BY <1>1, <1>6 DEF r

(* A call of f of contract c with x, or a blank in its place; an upgrade   *)
(* is never blank.                                                         *)
Calling(call, f, c, x) ==
  /\ call \in Calls /\ call.to = c /\ call.arg = x /\ call.fn \in {"", f}
  /\ f = "upgradeTo" => call.fn = f

(* What is encoded is such a call.                                         *)
LEMMA EncodedFact ==
  ASSUME NEW recorded, NEW f \in Names, NEW c \in Contracts, NEW x \in Arguments
  PROVE  Calling(Encoded(recorded, f, c, x), f, c, x)
<1> DEFINE name == IF Knows(recorded[c], f) THEN f ELSE ""
<1>1. name \in Names /\ name \in {"", f} BY DEF Names
<1>2. f = "upgradeTo" => name = f BY DEF Knows
<1>3. Encoded(recorded, f, c, x) = [fn |-> name, to |-> c, arg |-> x] BY DEF Encoded
<1> HIDE DEF name
<1>4. [fn |-> name, to |-> c, arg |-> x] \in Calls BY <1>1 DEF Calls
<1> DEFINE e == [fn |-> name, to |-> c, arg |-> x]
<1>5. e.fn = name /\ e.to = c /\ e.arg = x OBVIOUS
<1> HIDE DEF e
<1> QED BY <1>1, <1>2, <1>3, <1>4, <1>5 DEF e, Calling

(* The upgrades of some contracts whose new implementations are in place.  *)
LEMMA UpdatesFact ==
  ASSUME TypeOK, \A c \in Contracts : Placed(c), NEW recorded,
         NEW contracts \in Seq(Contracts)
  PROVE  LET calls == ContractUpdates(recorded, contracts)
         IN  /\ calls \in Seq(Calls)
             /\ \A call \in SeqExt!ToSet(calls) :
                  call.fn = "upgradeTo" /\ call.arg = Version(call.to, tree)
             /\ \A c \in SeqExt!ToSet(contracts) :
                  \E call \in SeqExt!ToSet(calls) : call.fn = "upgradeTo" /\ call.to = c
<1> DEFINE calls == ContractUpdates(recorded, contracts)
           n == Len(contracts)
<1>1. n \in Nat /\ DOMAIN contracts = 1 .. n OBVIOUS
<1>2. calls = [i \in 1 .. n |-> ContractUpdate(recorded, contracts[i])]
  BY <1>1 DEF ContractUpdates
<1> DEFINE call(i) == ContractUpdate(recorded, contracts[i])
<1>3. ASSUME NEW i \in 1 .. n
      PROVE  /\ call(i) \in Calls /\ call(i).fn = "upgradeTo" /\ call(i).to = contracts[i]
             /\ call(i).arg = Version(contracts[i], tree)
  <2> DEFINE c == contracts[i]
             new == implementation[c]
  <2>1. c \in Contracts OBVIOUS
  <2>2. new \in Arguments /\ new = Version(c, tree)
    BY <2>1 DEF TypeOK, Placed, Arguments
  <2>3. "upgradeTo" \in Names BY DEF Names
  <2>4. call(i) = Encoded(recorded, "upgradeTo", c, new) BY DEF ContractUpdate
  <2> HIDE DEF c, new, call
  <2>5. Calling(call(i), "upgradeTo", c, new) BY <2>1, <2>2, <2>3, <2>4, EncodedFact
  <2>6. call(i) \in Calls /\ call(i).fn = "upgradeTo" /\ call(i).to = c /\ call(i).arg = new
    BY <2>5 DEF Calling
  <2> QED BY <2>2, <2>6 DEF c
<1> HIDE DEF calls, call
<1>4. calls \in Seq(Calls)
  <2>1. calls \in [1 .. n -> Calls] BY <1>2, <1>3 DEF call
  <2> QED BY <1>1, <2>1
<1>5. DOMAIN calls = 1 .. n BY <1>2
<1>6. \A i \in 1 .. n : calls[i] = call(i) BY <1>2 DEF call
<1> HIDE DEF n
<1> QED BY <1>1, <1>3, <1>4, <1>5, <1>6 DEF SeqExt!ToSet, calls

(* The activations of groups.                                              *)
LEMMA GroupActivateFact ==
  ASSUME TypeOK
  PROVE  /\ GroupActivate \in Seq(Calls)
         /\ \A call \in SeqExt!ToSet(GroupActivate) :
              call.fn \in {"", "activateGroup"} /\ call.arg \in Groups
<1> DEFINE S == validatorGroups \cap CheckGroupHealth
           groups == SeqExt!SetToSeq(S)
           n == SeqExt!Cardinality(S)
<1>1. S \subseteq Groups
  <2> HIDE DEF groups, n
  <2> QED BY DEF TypeOK
<1>11. S \in SUBSET Groups
  <2> HIDE DEF S
  <2> QED BY <1>1
<1>10. IsFiniteSet(S)
  <2> HIDE DEF S
  <2>1. IsFiniteSet(Groups) BY GroupsAssumption
  <2> QED BY <1>11, <2>1, FS_Subset
<1>2. n = Cardinality(S) BY DEF SeqExt!Cardinality, Cardinality
<1>3. n \in Nat /\ \E f \in [1 .. n -> S] : SeqExt!IsInjective(f)
  <2> HIDE DEF S, n
  <2>1. Cardinality(S) \in Nat /\ ExistsBijection(1 .. Cardinality(S), S)
    BY <1>10, FS_CardinalityType
  <2> QED BY <1>2, <2>1 DEF ExistsBijection, Bijection, Injection, IsInjective, SeqExt!IsInjective
<1>4. groups \in [1 .. n -> S] BY <1>3 DEF SeqExt!SetToSeq
<1>5. GroupActivate = [i \in DOMAIN groups |-> Encoded(abi, "activateGroup", "DefaultStrategy", groups[i])]
  BY DEF GroupActivate
<1> HIDE DEF S, groups, n
<1> DEFINE call(i) == Encoded(abi, "activateGroup", "DefaultStrategy", groups[i])
<1>6. ASSUME NEW i \in 1 .. n
      PROVE  call(i) \in Calls /\ call(i).fn \in {"", "activateGroup"} /\ call(i).arg \in Groups
  <2> DEFINE g == groups[i]
  <2>1. g \in Groups BY <1>1, <1>4
  <2>2. g \in Arguments /\ "DefaultStrategy" \in Contracts BY <2>1 DEF Arguments, Contracts
  <2>3. "activateGroup" \in Names BY DEF Names
  <2>4. call(i) = Encoded(abi, "activateGroup", "DefaultStrategy", g) OBVIOUS
  <2> HIDE DEF g, call
  <2>5. Calling(call(i), "activateGroup", "DefaultStrategy", g)
    BY <2>2, <2>3, <2>4, EncodedFact
  <2> QED BY <2>1, <2>5 DEF Calling
<1>7. GroupActivate \in [1 .. n -> Calls]
  BY <1>4, <1>5, <1>6
<1>8. GroupActivate \in Seq(Calls) BY <1>3, <1>7
<1>9. \A i \in DOMAIN GroupActivate :
        /\ GroupActivate[i].fn \in {"", "activateGroup"}
        /\ GroupActivate[i].arg \in Groups
  BY <1>4, <1>5, <1>6
<1> QED BY <1>8, <1>9 DEF SeqExt!ToSet

(* One call by itself.                                                     *)
LEMMA OneCall ==
  ASSUME NEW call \in Calls
  PROVE  <<call>> \in Seq(Calls) /\ SeqExt!ToSet(<<call>>) = {call}
BY DEF SeqExt!ToSet

(* The contracts the tasks name.                                           *)
LEMMA OrderFact ==
  LET v2 == <<"MultiSig", "Manager", "Account", "StakedCelo", "RebasedStakedCelo">>
      v4 == <<"Manager", "SpecificGroupStrategy", "DefaultStrategy", "Account">>
  IN  /\ v2 \in Seq(Contracts) /\ AllInOrder \in Seq(Contracts) /\ v4 \in Seq(Contracts)
      /\ FirstContracts \subseteq SeqExt!ToSet(v2)
      /\ Contracts \subseteq SeqExt!ToSet(AllInOrder)
      /\ ChangedIn(4) \subseteq SeqExt!ToSet(v4)
<1> DEFINE v2 == <<"MultiSig", "Manager", "Account", "StakedCelo", "RebasedStakedCelo">>
           v4 == <<"Manager", "SpecificGroupStrategy", "DefaultStrategy", "Account">>
<1>1. v2 \in Seq(Contracts) /\ v4 \in Seq(Contracts) /\ AllInOrder \in Seq(Contracts)
  BY DEF Contracts, AllInOrder
<1>2. /\ DOMAIN v2 = 1 .. 5 /\ v2[1] = "MultiSig" /\ v2[2] = "Manager" /\ v2[3] = "Account"
      /\ v2[4] = "StakedCelo" /\ v2[5] = "RebasedStakedCelo"
  OBVIOUS
<1>3. /\ DOMAIN v4 = 1 .. 4 /\ v4[1] = "Manager" /\ v4[2] = "SpecificGroupStrategy"
      /\ v4[3] = "DefaultStrategy" /\ v4[4] = "Account"
  OBVIOUS
<1> DEFINE all == AllInOrder
<1>4. /\ DOMAIN all = 1 .. 9 /\ all[1] = "MultiSig" /\ all[2] = "Manager"
      /\ all[3] = "Account" /\ all[4] = "StakedCelo" /\ all[5] = "Vote"
      /\ all[6] = "GroupHealth" /\ all[7] = "SpecificGroupStrategy"
      /\ all[8] = "DefaultStrategy" /\ all[9] = "RebasedStakedCelo"
  BY DEF AllInOrder
<1> HIDE DEF v2, v4, all
<1>5. FirstContracts \subseteq SeqExt!ToSet(v2)
  <2>1. \A i \in 1 .. 5 : v2[i] \in SeqExt!ToSet(v2) BY <1>2 DEF SeqExt!ToSet
  <2> QED BY <1>2, <2>1 DEF FirstContracts
<1>6. Contracts \subseteq SeqExt!ToSet(all)
  <2>1. \A i \in 1 .. 9 : all[i] \in SeqExt!ToSet(all) BY <1>4 DEF SeqExt!ToSet
  <2> QED BY <1>4, <2>1 DEF Contracts
<1>7. ChangedIn(4) \subseteq SeqExt!ToSet(v4)
  <2>1. \A i \in 1 .. 4 : v4[i] \in SeqExt!ToSet(v4) BY <1>3 DEF SeqExt!ToSet
  <2> QED BY <1>3, <2>1 DEF ChangedIn
<1> QED BY <1>1, <1>5, <1>6, <1>7 DEF v2, v4, all

----------------------------------------------------------------------------
(* The tasks.                                                              *)
(* The tasks and the edits that touch nothing but records keep the         *)
(* invariant of the deployment and the release the contracts are at.       *)
LEMMA RecordsInv ==
  ASSUME IInv, Worked, Current \/ Upgrading,
         UNCHANGED <<tree, implementation, code, owner, dependencies>>,
         UNCHANGED <<active, activatable, validatorGroups, run, outcome>>,
         abi' \in [Contracts -> 0 .. 4], healthy' \subseteq Groups,
         \A c \in Contracts : abi'[c] = 0 <=> abi[c] = 0
  PROVE  IInv' /\ Worked' /\ (Current' \/ Upgrading')
<1>1. TypeOK' BY StateFact DEF TypeOK
<1>2. Exists' /\ Prepared' BY StateFact DEF Exists, Prepared
<1>3. Done' BY StateFact DEF Done, Past
<1>4. Worked' BY DEF Worked, Past, Placed
<1>5. Current' \/ Upgrading' BY DEF Current, Upgrading
<1> QED BY <1>1, <1>2, <1>3, <1>4, <1>5 DEF IInv

(* What is printed when a task is ready waits as it should, if it is sound. *)
LEMMA PublishWaits ==
  ASSUME IInv, Worked, Waits, NEW release, Ready(release),
         UNCHANGED <<tree, implementation, code, owner, proposal>>,
         printed' \in Seq(Calls), Sound(SeqExt!ToSet(printed'), tree)
  PROVE  Waits'
<1>1. /\ \A c \in Contracts : Placed(c) /\ code[c] # 0
      /\ \A c \in Wired : owner[c] = "MultiSig"
      /\ proposal.stage = "none"
  BY StateFact DEF Worked, Ready, Recorded, Exists, NoProposal
<1>2. \A c \in Contracts : Placed(c)' BY <1>1 DEF Placed
<1>3. \A c \in Wired : c \in Contracts BY ScriptFact
<1> HIDE DEF Placed
<1> QED BY <1>1, <1>2, <1>3 DEF Waits

(* The task of release 2 brings all that release 1 had up to date.         *)
LEMMA UpdateV1ToV2Inv == RInv /\ UpdateV1ToV2 => RInv'
<1> SUFFICES ASSUME RInv, UpdateV1ToV2 PROVE RInv' OBVIOUS
<1>1. /\ IInv /\ Worked /\ (Current \/ Upgrading) /\ Waits /\ pausers \in {{}, Contracts}
      /\ TypeOK /\ Ready(2) /\ tree = 2
  BY DEF RInv, IInv, UpdateV1ToV2, Ready
<1>2. /\ UNCHANGED <<tree, implementation, code, owner, dependencies>>
      /\ UNCHANGED <<active, activatable, validatorGroups, run, outcome>>
      /\ UNCHANGED <<pausers, proposal>>
      /\ healthy' = CheckGroupHealth /\ abi' = UpdateAbiOfV1
  BY DEF UpdateV1ToV2
<1>3. healthy' \subseteq Groups BY <1>1, <1>2 DEF CheckGroupHealth, TypeOK
<1>4. /\ abi' \in [Contracts -> 0 .. 4]
      /\ \A c \in Contracts : abi'[c] = 0 <=> abi[c] = 0
  <2>1. \A c \in Contracts : Version(c, tree) \in 0 .. 4 /\ Version(c, tree) # 0
    BY <1>1, ReleasesFact
  <2>2. \A c \in Contracts : abi[c] \in 0 .. 4 /\ abi[c] # 0
    BY <1>1 DEF TypeOK, Ready, Recorded
  <2> QED BY <1>2, <2>1, <2>2 DEF UpdateAbiOfV1
<1>5. IInv' /\ Worked' /\ (Current' \/ Upgrading') BY <1>1, <1>2, <1>3, <1>4, RecordsInv
<1> DEFINE order == <<"MultiSig", "Manager", "Account", "StakedCelo", "RebasedStakedCelo">>
           A == GroupActivate
           U == ContractUpdates(abi', order)
           e1 == Encoded(abi', "setAllowedToVoteOverMaxNumberOfGroups", "Account", TRUE)
           e2 == Encoded(abi', "setDependencies", "Manager", 2)
<1>6. printed' = A \o U \o <<e1, e2>>
  BY DEF UpdateV1ToV2, SetDependenciesCall
<1>7. /\ A \in Seq(Calls)
      /\ \A call \in SeqExt!ToSet(A) : call.fn \in {"", "activateGroup"} /\ call.arg \in Groups
  BY <1>1, GroupActivateFact
<1>8. order \in Seq(Contracts) /\ FirstContracts \subseteq SeqExt!ToSet(order) BY OrderFact
<1>9. \A c \in Contracts : Placed(c) BY <1>1 DEF Worked, Ready
<1>10. /\ U \in Seq(Calls)
       /\ \A call \in SeqExt!ToSet(U) : call.fn = "upgradeTo" /\ call.arg = Version(call.to, tree)
       /\ \A c \in SeqExt!ToSet(order) :
            \E call \in SeqExt!ToSet(U) : call.fn = "upgradeTo" /\ call.to = c
  <2> HIDE DEF order
  <2> QED BY <1>1, <1>8, <1>9, UpdatesFact
<1>11. /\ Calling(e1, "setAllowedToVoteOverMaxNumberOfGroups", "Account", TRUE)
       /\ Calling(e2, "setDependencies", "Manager", 2)
  <2>1. /\ "setAllowedToVoteOverMaxNumberOfGroups" \in Names /\ "setDependencies" \in Names
        /\ "Account" \in Contracts /\ "Manager" \in Contracts
    BY DEF Names, Contracts
  <2>2. TRUE \in Arguments /\ 2 \in Arguments BY DEF Arguments
  <2> QED BY <2>1, <2>2, EncodedFact
<1> HIDE DEF A, U, e1, e2, order
<1>12. /\ <<e1, e2>> \in Seq(Calls) /\ SeqExt!ToSet(<<e1, e2>>) = {e1, e2}
  <2>1. e1 \in Calls /\ e2 \in Calls BY <1>11 DEF Calling
  <2> QED BY <2>1 DEF SeqExt!ToSet
<1>13. /\ printed' \in Seq(Calls)
       /\ SeqExt!ToSet(printed') = SeqExt!ToSet(A) \cup SeqExt!ToSet(U) \cup {e1, e2}
  <2>1. A \o U \in Seq(Calls) /\ SeqExt!ToSet(A \o U) = SeqExt!ToSet(A) \cup SeqExt!ToSet(U)
    <3>1. A \in Seq(Calls) /\ U \in Seq(Calls) BY <1>7, <1>10
    <3> QED BY <3>1, ConcatFact
  <2> DEFINE r == A \o U
             s == <<e1, e2>>
  <2>2. r \in Seq(Calls) /\ s \in Seq(Calls) /\ printed' = r \o s BY <1>6, <1>12, <2>1
  <2>3. r \o s \in Seq(Calls) /\ SeqExt!ToSet(r \o s) = SeqExt!ToSet(r) \cup SeqExt!ToSet(s)
    <3> HIDE DEF r, s
    <3> QED BY <2>2, ConcatFact
  <2> QED BY <1>12, <2>1, <2>2, <2>3
<1> DEFINE calls == SeqExt!ToSet(printed')
           a == SeqExt!ToSet(A)
           u == SeqExt!ToSet(U)
<1>14. calls = a \cup u \cup {e1, e2} BY <1>13
<1>15. /\ \A call \in a : call.fn \in {"", "activateGroup"} /\ call.arg \in Groups
       /\ \A call \in u : call.fn = "upgradeTo" /\ call.arg = Version(call.to, tree)
       /\ \A c \in FirstContracts : \E call \in u : call.fn = "upgradeTo" /\ call.to = c
  BY <1>7, <1>8, <1>10
<1>16. /\ e1.fn \in {"", "setAllowedToVoteOverMaxNumberOfGroups"}
       /\ e2.fn \in {"", "setDependencies"} /\ e2.to = "Manager"
  BY <1>11 DEF Calling
<1> HIDE DEF calls, a, u
<1>17. \A call \in calls : /\ call.fn = "upgradeTo" => call.arg = Version(call.to, tree)
                           /\ call.fn = "activateGroup" => call.arg \in Groups
                           /\ call.fn # "setPauser"
  BY <1>14, <1>15, <1>16
<1>18. \A c \in Contracts : Version(c, tree - 1) # 0 => c \in FirstContracts
  <2>1. \A c \in Contracts : Version(c, 1) = IF c \in FirstContracts THEN 1 ELSE 0
    BY VersionFact
  <2>2. tree - 1 = 1 BY <1>1
  <2> QED BY <2>1, <2>2
<1>19. Sound(calls, tree)
  <2>1. ASSUME NEW c \in Contracts, Version(c, tree - 1) \notin {0, Version(c, tree)}
        PROVE  \E call \in calls : call.fn = "upgradeTo" /\ call.to = c
    BY <1>14, <1>15, <1>18, <2>1
  <2>2. ASSUME \A call \in calls : call.fn # ""
        PROVE  \E call \in calls : call.fn = "setDependencies" /\ call.to = "Manager"
    BY <1>14, <1>16, <2>2
  <2> QED BY <1>17, <2>1, <2>2 DEF Sound
<1>20. Waits' BY <1>1, <1>2, <1>13, <1>19, PublishWaits DEF calls
<1> QED BY <1>1, <1>2, <1>5, <1>20 DEF RInv

(* The pausers the task of release 3 sets: those of all contracts.         *)
LEMMA SetPausersFact ==
  /\ SetPausers \in Seq(Calls)
  /\ \A call \in SeqExt!ToSet(SetPausers) : call.fn \in {"", "setPauser"}
  /\ \A c \in Contracts : \E call \in SeqExt!ToSet(SetPausers) : call.to = c
<1> DEFINE order == AllInOrder
           call(i) == Encoded(abi, "setPauser", order[i], "MultiSig")
           calls == SetPausers
<1>1. order \in Seq(Contracts) /\ Contracts \subseteq SeqExt!ToSet(order) BY OrderFact
<1>2. calls = [i \in DOMAIN order |-> call(i)]
  BY DEF SetPausers, SetPauserOrder
<1> HIDE DEF order, calls
<1> DEFINE n == Len(order)
<1>3. n \in Nat /\ DOMAIN order = 1 .. n BY <1>1
<1>4. ASSUME NEW i \in 1 .. n
      PROVE  /\ call(i) \in Calls /\ call(i).fn \in {"", "setPauser"}
             /\ call(i).to = order[i]
  <2> DEFINE c == order[i]
  <2>1. c \in Contracts BY <1>1, <1>3
  <2>2. "setPauser" \in Names /\ "MultiSig" \in Arguments BY DEF Names, Arguments
  <2>3. call(i) = Encoded(abi, "setPauser", c, "MultiSig") OBVIOUS
  <2> HIDE DEF c, call
  <2>4. Calling(call(i), "setPauser", c, "MultiSig") BY <2>1, <2>2, <2>3, EncodedFact
  <2> QED BY <2>4 DEF Calling, c
<1> HIDE DEF n, call
<1>5. calls \in [1 .. n -> Calls] BY <1>2, <1>3, <1>4
<1>6. calls \in Seq(Calls) BY <1>3, <1>5
<1>7. DOMAIN calls = 1 .. n /\ \A i \in 1 .. n : calls[i] = call(i) BY <1>2, <1>3
<1>8. \A c \in Contracts : \E i \in 1 .. n : order[i] = c
  BY <1>1, <1>3 DEF SeqExt!ToSet
<1>9. \A i \in 1 .. n : calls[i].fn \in {"", "setPauser"} /\ calls[i].to = order[i]
  BY <1>4, <1>7
<1>10. SeqExt!ToSet(calls) = {calls[i] : i \in 1 .. n} BY <1>7 DEF SeqExt!ToSet
<1>11. \A e \in SeqExt!ToSet(calls) : e.fn \in {"", "setPauser"} BY <1>9, <1>10
<1>12. ASSUME NEW c \in Contracts PROVE \E e \in SeqExt!ToSet(calls) : e.to = c
  <2>1. PICK i \in 1 .. n : order[i] = c BY <1>8
  <2>2. calls[i] \in SeqExt!ToSet(calls) /\ calls[i].to = c BY <1>9, <1>10, <2>1
  <2> QED BY <2>2
<1> QED BY <1>6, <1>11, <1>12 DEF calls

(* The task of release 3 brings everything up to date and sets all pausers. *)
LEMMA UpdateV2ToV3Inv == RInv /\ UpdateV2ToV3 => RInv'
<1> SUFFICES ASSUME RInv, UpdateV2ToV3 PROVE RInv' OBVIOUS
<1>1. /\ IInv /\ Worked /\ (Current \/ Upgrading) /\ Waits /\ pausers \in {{}, Contracts}
      /\ TypeOK /\ Ready(3) /\ tree = 3
  BY DEF RInv, IInv, UpdateV2ToV3, Ready
<1>2. /\ UNCHANGED <<tree, implementation, code, owner, dependencies>>
      /\ UNCHANGED <<active, activatable, validatorGroups, run, outcome>>
      /\ UNCHANGED <<pausers, proposal, abi, healthy>>
  BY DEF UpdateV2ToV3, Publish, vars, proxies, groupState
<1>3. abi' \in [Contracts -> 0 .. 4] /\ healthy' \subseteq Groups BY <1>1, <1>2 DEF TypeOK
<1>4. IInv' /\ Worked' /\ (Current' \/ Upgrading') BY <1>1, <1>2, <1>3, RecordsInv
<1> DEFINE U == ContractUpdates(abi, AllInOrder)
           P == SetPausers
           e1 == Encoded(abi, "setMinCountOfActiveGroups", "DefaultStrategy", 3)
           e2 == Encoded(abi, "addOwner", "MultiSig", NewOwner)
           N == IF Network = "alfajores" THEN <<>> ELSE <<e2>>
<1>5. printed' = U \o P \o <<e1>> \o N
  BY DEF UpdateV2ToV3, Publish, SetMinCount, AddOwner
<1>6. \A c \in Contracts : Placed(c) BY <1>1 DEF Worked, Ready
<1>7. /\ U \in Seq(Calls)
      /\ \A call \in SeqExt!ToSet(U) : call.fn = "upgradeTo" /\ call.arg = Version(call.to, tree)
      /\ \A c \in Contracts :
           \E call \in SeqExt!ToSet(U) : call.fn = "upgradeTo" /\ call.to = c
  <2> DEFINE order == AllInOrder
  <2>1. order \in Seq(Contracts) /\ Contracts \subseteq SeqExt!ToSet(order) BY OrderFact
  <2> HIDE DEF order
  <2> DEFINE V == ContractUpdates(abi, order)
  <2>2. /\ V \in Seq(Calls)
        /\ \A call \in SeqExt!ToSet(V) : call.fn = "upgradeTo" /\ call.arg = Version(call.to, tree)
        /\ \A c \in SeqExt!ToSet(order) :
             \E call \in SeqExt!ToSet(V) : call.fn = "upgradeTo" /\ call.to = c
    BY <1>1, <1>6, <2>1, UpdatesFact
  <2> QED BY <2>1, <2>2 DEF order
<1>8. /\ P \in Seq(Calls)
      /\ \A call \in SeqExt!ToSet(P) : call.fn \in {"", "setPauser"}
      /\ \A c \in Contracts : \E call \in SeqExt!ToSet(P) : call.to = c
  BY SetPausersFact
<1>9. /\ Calling(e1, "setMinCountOfActiveGroups", "DefaultStrategy", 3)
      /\ Calling(e2, "addOwner", "MultiSig", NewOwner)
  <2>1. /\ "setMinCountOfActiveGroups" \in Names /\ "addOwner" \in Names
        /\ "MultiSig" \in Contracts /\ "DefaultStrategy" \in Contracts
    BY DEF Names, Contracts
  <2>2. NewOwner \in Arguments /\ 3 \in Arguments BY DEF Arguments
  <2> QED BY <2>1, <2>2, EncodedFact
<1> HIDE DEF U, P, e1, e2
<1>10. /\ e1 \in Calls /\ e1.fn \in {"", "setMinCountOfActiveGroups"}
       /\ e2 \in Calls /\ e2.fn \in {"", "addOwner"}
  BY <1>9 DEF Calling
<1>11. /\ <<e1>> \in Seq(Calls) /\ SeqExt!ToSet(<<e1>>) = {e1}
       /\ N \in Seq(Calls) /\ SeqExt!ToSet(N) \subseteq {e2}
  <2>1. <<e1>> \in Seq(Calls) /\ SeqExt!ToSet(<<e1>>) = {e1} BY <1>10, OneCall
  <2>2. <<e2>> \in Seq(Calls) /\ SeqExt!ToSet(<<e2>>) = {e2} BY <1>10, OneCall
  <2>3. <<>> \in Seq(Calls) /\ SeqExt!ToSet(<<>>) = {} BY DEF SeqExt!ToSet
  <2> QED BY <2>1, <2>2, <2>3
<1> DEFINE Q == <<e1>>
           r == U \o P
           s == r \o Q
<1>12. r \in Seq(Calls) /\ SeqExt!ToSet(r) = SeqExt!ToSet(U) \cup SeqExt!ToSet(P)
  <2>1. U \in Seq(Calls) /\ P \in Seq(Calls) BY <1>7, <1>8
  <2> QED BY <2>1, ConcatFact
<1>13. s \in Seq(Calls) /\ SeqExt!ToSet(s) = SeqExt!ToSet(r) \cup SeqExt!ToSet(Q)
  <2>1. r \in Seq(Calls) /\ Q \in Seq(Calls) BY <1>11, <1>12
  <2> HIDE DEF r, Q
  <2> QED BY <2>1, ConcatFact
<1>14. s \o N \in Seq(Calls) /\ SeqExt!ToSet(s \o N) = SeqExt!ToSet(s) \cup SeqExt!ToSet(N)
  <2>1. s \in Seq(Calls) /\ N \in Seq(Calls) BY <1>11, <1>13
  <2> HIDE DEF s, N
  <2> QED BY <2>1, ConcatFact
<1> DEFINE calls == SeqExt!ToSet(printed')
           u == SeqExt!ToSet(U)
           p == SeqExt!ToSet(P)
           n == SeqExt!ToSet(N)
<1>15. printed' = s \o N BY <1>5
<1>16. printed' \in Seq(Calls) /\ calls = u \cup p \cup {e1} \cup n
  <2> HIDE DEF s, r, N
  <2> QED BY <1>11, <1>12, <1>13, <1>14, <1>15
<1>17. /\ \A call \in u : call.fn = "upgradeTo" /\ call.arg = Version(call.to, tree)
       /\ \A c \in Contracts : \E call \in u : call.fn = "upgradeTo" /\ call.to = c
       /\ \A call \in p : call.fn \in {"", "setPauser"}
       /\ \A c \in Contracts : \E call \in p : call.to = c
       /\ n \subseteq {e2}
  BY <1>7, <1>8, <1>11
<1> HIDE DEF calls, u, p, n
<1>18. Sound(calls, tree)
  <2>1. \A call \in calls : /\ call.fn = "upgradeTo" => call.arg = Version(call.to, tree)
                            /\ call.fn = "activateGroup" => call.arg \in Groups
    BY <1>10, <1>16, <1>17
  <2>2. \A c \in Contracts : \E call \in calls : call.fn = "upgradeTo" /\ call.to = c
    BY <1>16, <1>17
  <2>3. ASSUME \A call \in calls : call.fn # ""
        PROVE  \A c \in Contracts : \E call \in calls : call.fn = "setPauser" /\ call.to = c
    <3> SUFFICES ASSUME NEW c \in Contracts
                 PROVE  \E call \in calls : call.fn = "setPauser" /\ call.to = c
      OBVIOUS
    <3>1. PICK call \in p : call.to = c BY <1>17
    <3>2. call \in calls BY <1>16
    <3>3. call.fn = "setPauser" BY <1>17, <2>3, <3>2
    <3> QED BY <3>1, <3>2, <3>3
  <2>4. tree # 2 BY <1>1
  <2> QED BY <2>1, <2>2, <2>3, <2>4 DEF Sound
<1>19. Waits' BY <1>1, <1>2, <1>16, <1>18, PublishWaits DEF calls
<1> QED BY <1>1, <1>2, <1>4, <1>19 DEF RInv

(* The task of release 4 brings up to date what the release changed.       *)
LEMMA UpdateV3ToV4Inv == RInv /\ UpdateV3ToV4 => RInv'
<1> SUFFICES ASSUME RInv, UpdateV3ToV4 PROVE RInv' OBVIOUS
<1>1. /\ IInv /\ Worked /\ (Current \/ Upgrading) /\ Waits /\ pausers \in {{}, Contracts}
      /\ TypeOK /\ Ready(4) /\ tree = 4
  BY DEF RInv, IInv, UpdateV3ToV4, Ready
<1>2. /\ UNCHANGED <<tree, implementation, code, owner, dependencies>>
      /\ UNCHANGED <<active, activatable, validatorGroups, run, outcome>>
      /\ UNCHANGED <<pausers, proposal, abi, healthy>>
  BY DEF UpdateV3ToV4, Publish, vars, proxies, groupState
<1>3. abi' \in [Contracts -> 0 .. 4] /\ healthy' \subseteq Groups BY <1>1, <1>2 DEF TypeOK
<1>4. IInv' /\ Worked' /\ (Current' \/ Upgrading') BY <1>1, <1>2, <1>3, RecordsInv
<1> DEFINE order == <<"Manager", "SpecificGroupStrategy", "DefaultStrategy", "Account">>
           U == ContractUpdates(abi, order)
<1>5. printed' = U BY DEF UpdateV3ToV4, Publish
<1>6. \A c \in Contracts : Placed(c) BY <1>1 DEF Worked, Ready
<1>7. order \in Seq(Contracts) /\ ChangedIn(4) \subseteq SeqExt!ToSet(order) BY OrderFact
<1>8. /\ U \in Seq(Calls)
      /\ \A call \in SeqExt!ToSet(U) : call.fn = "upgradeTo" /\ call.arg = Version(call.to, tree)
      /\ \A c \in SeqExt!ToSet(order) :
           \E call \in SeqExt!ToSet(U) : call.fn = "upgradeTo" /\ call.to = c
  <2> HIDE DEF order
  <2> QED BY <1>1, <1>6, <1>7, UpdatesFact
<1> HIDE DEF U, order
<1> DEFINE calls == SeqExt!ToSet(U)
<1>9. Sound(calls, tree)
  <2>1. ASSUME NEW c \in Contracts, Version(c, tree - 1) \notin {0, Version(c, tree)}
        PROVE  \E call \in calls : call.fn = "upgradeTo" /\ call.to = c
    <3>1. tree - 1 = 3 BY <1>1
    <3>2. c \in ChangedIn(4)
      <4>1. Version(c, 4) # Version(c, 3) BY <1>1, <2>1, <3>1
      <4> QED BY <4>1, LastRelease
    <3> QED BY <1>7, <1>8, <3>2
  <2>2. tree # 2 BY <1>1
  <2> HIDE DEF calls
  <2>3. \A call \in calls : call.fn = "upgradeTo" /\ call.arg = Version(call.to, tree)
    BY <1>8 DEF calls
  <2> QED BY <2>1, <2>2, <2>3 DEF Sound
<1>10. Waits' BY <1>1, <1>2, <1>5, <1>8, <1>9, PublishWaits
<1> QED BY <1>1, <1>2, <1>4, <1>10 DEF RInv

----------------------------------------------------------------------------
(* The proposal.                                                           *)
(* Who may sign.                                                           *)
Signers == Owners \cup {NewOwner}

(* Nothing that the deployment is about changes.                           *)
LEMMA SameInv ==
  ASSUME IInv, Worked, Current \/ Upgrading, UNCHANGED vars
  PROVE  IInv' /\ Worked' /\ (Current' \/ Upgrading')
<1>1. /\ UNCHANGED <<tree, implementation, code, owner, dependencies>>
      /\ UNCHANGED <<active, activatable, validatorGroups, run, outcome>>
      /\ UNCHANGED <<abi, healthy>>
  BY DEF vars, proxies, groupState
<1>2. abi' \in [Contracts -> 0 .. 4] /\ healthy' \subseteq Groups
  BY <1>1 DEF IInv, TypeOK
<1> QED BY <1>1, <1>2, RecordsInv

(* An empty list is one of calls.                                          *)
LEMMA NoCall == <<>> \in Seq(Calls)
OBVIOUS

(* What waits stays, or is gone, while the contracts stay as they are.     *)
LEMMA WaitsOn ==
  ASSUME Waits, UNCHANGED <<tree, implementation, code, owner>>,
         printed' \in {<<>>, printed},
         proposal' \in [stage : {"none", "submitted", "scheduled", "executable"},
                        calls : Seq(Calls), confirmedBy : SUBSET Signers],
         proposal'.stage # "none" =>
           \/ proposal.stage # "none" /\ proposal'.calls = proposal.calls
           \/ /\ printed # <<>> /\ proposal'.calls = printed
              /\ \A i \in DOMAIN printed : printed[i].fn # ""
  PROVE  Waits'
<1>1. \A c \in Contracts : Placed(c) => Placed(c)' BY DEF Placed
<1>2. printed' \in Seq(Calls)
  <2>1. printed \in Seq(Calls) BY DEF Waits
  <2>2. <<>> \in Seq(Calls) BY NoCall
  <2> QED BY <2>1, <2>2
<1>3. ASSUME printed' # <<>> \/ proposal'.stage # "none"
      PROVE  printed # <<>> \/ proposal.stage # "none"
  BY <1>3
<1>4. \A c \in Wired : c \in Contracts BY ScriptFact
<1>5. printed' # <<>> => Sound(SeqExt!ToSet(printed'), tree) BY DEF Waits
<1>6. ASSUME proposal'.stage # "none"
      PROVE  /\ Sound(SeqExt!ToSet(proposal'.calls), tree)
             /\ \A call \in SeqExt!ToSet(proposal'.calls) : call.fn # ""
  <2>1. CASE proposal.stage # "none" /\ proposal'.calls = proposal.calls
    BY <2>1 DEF Waits
  <2>2. CASE /\ printed # <<>> /\ proposal'.calls = printed
             /\ \A i \in DOMAIN printed : printed[i].fn # ""
    <3>1. \A call \in SeqExt!ToSet(printed) : call.fn # "" BY <2>2 DEF SeqExt!ToSet
    <3> QED BY <2>2, <3>1 DEF Waits
  <2> QED BY <1>6, <2>1, <2>2
<1>7. ASSUME printed' # <<>> \/ proposal'.stage # "none"
      PROVE  /\ \A c \in Contracts : Placed(c)' /\ code'[c] # 0
             /\ \A c \in Wired : owner'[c] = "MultiSig"
  BY <1>1, <1>3, <1>4, <1>7 DEF Waits
<1> HIDE DEF Placed
<1> QED BY <1>2, <1>5, <1>6, <1>7 DEF Waits, Signers

(* Edits of the records.                                                   *)
LEMMA RecordInv == RInv /\ (EncodeSetDependencies \/ RefreshAbi) => RInv'
<1> SUFFICES ASSUME RInv, EncodeSetDependencies \/ RefreshAbi PROVE RInv' OBVIOUS
<1>1. /\ IInv /\ Worked /\ (Current \/ Upgrading) /\ Waits /\ pausers \in {{}, Contracts}
      /\ TypeOK
  BY DEF RInv, IInv
<1>2. /\ UNCHANGED <<tree, implementation, code, owner, dependencies>>
      /\ UNCHANGED <<active, activatable, validatorGroups, run, outcome>>
      /\ UNCHANGED <<pausers, proposal, printed, healthy>>
  BY DEF EncodeSetDependencies, RefreshAbi, groupState
<1>3. \A c \in Contracts : Version(c, tree) \in 0 .. 4 /\ Version(c, tree) # 0
  BY <1>1, ReleasesFact
<1>4. /\ abi' \in [Contracts -> 0 .. 4]
      /\ \A c \in Contracts : abi'[c] = 0 <=> abi[c] = 0
  <2>1. abi \in [Contracts -> 0 .. 4] /\ "Manager" \in Contracts BY <1>1 DEF TypeOK, Contracts
  <2>2. CASE EncodeSetDependencies
    <3> DEFINE v == Version("Manager", tree)
    <3>1. abi["Manager"] # 0 /\ abi' = [abi EXCEPT !["Manager"] = v]
      BY <2>2 DEF EncodeSetDependencies
    <3>2. v \in 0 .. 4 /\ v # 0 BY <1>3, <2>1
    <3> HIDE DEF v
    <3> QED BY <2>1, <3>1, <3>2
  <2>3. CASE RefreshAbi
    <3>1. abi' = [c \in Contracts |-> IF abi[c] = 0 THEN 0 ELSE Version(c, tree)]
      BY <2>3 DEF RefreshAbi
    <3> QED BY <1>3, <2>1, <3>1
  <2> QED BY <2>2, <2>3
<1>5. healthy' \subseteq Groups BY <1>1, <1>2 DEF TypeOK
<1>6. IInv' /\ Worked' /\ (Current' \/ Upgrading') BY <1>1, <1>2, <1>4, <1>5, RecordsInv
<1>7. Waits'
  <2>1. /\ printed' \in {<<>>, printed} /\ proposal' = proposal
        /\ UNCHANGED <<tree, implementation, code, owner>>
    BY <1>2
  <2>2. proposal' \in [stage : {"none", "submitted", "scheduled", "executable"},
                        calls : Seq(Calls), confirmedBy : SUBSET Signers]
    BY <1>1, <2>1 DEF Waits, Signers
  <2> QED BY <1>1, <2>1, <2>2, WaitsOn
<1> QED BY <1>1, <1>2, <1>6, <1>7 DEF RInv

(* The owners submit, confirm and revoke, and the time lock passes.        *)
LEMMA SignInv ==
  ASSUME RInv,
         \/ \E o \in Signers : SubmitProposal(o) \/ ConfirmProposal(o) \/ RevokeConfirmation(o)
         \/ TimelockPasses
  PROVE  RInv'
<1> DEFINE stages == {"none", "submitted", "scheduled", "executable"}
           Proposals == [stage : stages, calls : Seq(Calls), confirmedBy : SUBSET Signers]
<1>1. /\ IInv /\ Worked /\ (Current \/ Upgrading) /\ Waits /\ pausers \in {{}, Contracts}
      /\ proposal \in Proposals /\ printed \in Seq(Calls)
  BY DEF RInv, Waits, Signers
<1>2. UNCHANGED vars /\ UNCHANGED pausers
  BY DEF SubmitProposal, ConfirmProposal, RevokeConfirmation, TimelockPasses
<1>3. UNCHANGED <<tree, implementation, code, owner>> BY <1>2 DEF vars, proxies
<1>4. IInv' /\ Worked' /\ (Current' \/ Upgrading') BY <1>1, <1>2, SameInv
<1>5. \A C \in SUBSET Signers, stage \in stages : Scheduled(C, stage) \in stages
  BY DEF Scheduled
<1> DEFINE Kept ==
             /\ printed' \in {<<>>, printed} /\ proposal' \in Proposals
             /\ proposal'.stage # "none" =>
                  \/ proposal.stage # "none" /\ proposal'.calls = proposal.calls
                  \/ /\ printed # <<>> /\ proposal'.calls = printed
                     /\ \A i \in DOMAIN printed : printed[i].fn # ""
<1>6. Kept
  <2>1. ASSUME NEW o \in Signers, SubmitProposal(o) PROVE Kept
    <3> DEFINE stage == Scheduled({o}, "submitted")
    <3>1. stage \in stages
      <4>1. {o} \in SUBSET Signers OBVIOUS
      <4> QED BY <1>5, <4>1
    <3>2. printed # <<>> /\ printed' = <<>> BY <2>1 DEF SubmitProposal
    <3>3. proposal' = IF \E i \in DOMAIN printed : printed[i].fn = "" THEN proposal
                      ELSE [stage |-> stage, calls |-> printed, confirmedBy |-> {o}]
      BY <2>1 DEF SubmitProposal
    <3> HIDE DEF stage
    <3>4. CASE \E i \in DOMAIN printed : printed[i].fn = ""
      BY <1>1, <3>2, <3>3, <3>4
    <3>5. CASE \A i \in DOMAIN printed : printed[i].fn # ""
      <4>1. proposal' = [stage |-> stage, calls |-> printed, confirmedBy |-> {o}]
        BY <3>3, <3>5
      <4>2. proposal' \in Proposals /\ proposal'.calls = printed BY <1>1, <3>1, <4>1
      <4> QED BY <3>2, <3>5, <4>2
    <3> QED BY <3>4, <3>5
  <2>2. ASSUME NEW o \in Signers, ConfirmProposal(o) PROVE Kept
    <3> DEFINE C == proposal.confirmedBy \cup {o}
               stage == Scheduled(C, proposal.stage)
    <3>1. proposal.stage # "none" /\ printed' = printed
          /\ proposal' = [proposal EXCEPT !.confirmedBy = C, !.stage = stage]
      BY <2>2 DEF ConfirmProposal
    <3>2. C \in SUBSET Signers BY <1>1, <2>2
    <3>3. stage \in stages BY <1>1, <1>5, <3>2
    <3> HIDE DEF C, stage
    <3> QED BY <1>1, <3>1, <3>2, <3>3
  <2>3. ASSUME NEW o \in Signers, RevokeConfirmation(o) PROVE Kept
    <3>1. printed' = printed
          /\ proposal' = [proposal EXCEPT !.confirmedBy = @ \ {o}]
      BY <2>3 DEF RevokeConfirmation
    <3> QED BY <1>1, <3>1
  <2>4. CASE TimelockPasses
    <3>1. /\ printed' = printed /\ proposal.stage = "scheduled"
          /\ proposal' = [proposal EXCEPT !.stage = "executable"]
      BY <2>4 DEF TimelockPasses
    <3> QED BY <1>1, <3>1
  <2> QED BY <2>1, <2>2, <2>3, <2>4
<1>7. Waits' BY <1>1, <1>3, <1>6, WaitsOn
<1> QED BY <1>1, <1>2, <1>4, <1>7 DEF RInv

(* The calls of the proposal, one by one.                                  *)
LEMMA ProposalFact ==
  ASSUME RInv, proposal.stage # "none"
  PROVE  /\ proposal.calls \in Seq(Calls) /\ Len(proposal.calls) \in Nat
         /\ DOMAIN proposal.calls = 1 .. Len(proposal.calls)
         /\ \A i \in 1 .. Len(proposal.calls) :
              /\ proposal.calls[i] \in Calls
              /\ proposal.calls[i] \in SeqExt!ToSet(proposal.calls)
              /\ proposal.calls[i].fn # ""
              /\ proposal.calls[i].fn = "upgradeTo" =>
                   proposal.calls[i].arg = Version(proposal.calls[i].to, tree)
         /\ \A call \in SeqExt!ToSet(proposal.calls) :
              \E i \in 1 .. Len(proposal.calls) : proposal.calls[i] = call
<1> DEFINE calls == proposal.calls
<1>1. /\ calls \in Seq(Calls) /\ Sound(SeqExt!ToSet(calls), tree)
      /\ \A call \in SeqExt!ToSet(calls) : call.fn # ""
  BY DEF RInv, Waits
<1> HIDE DEF calls
<1> DEFINE n == Len(calls)
<1>9. calls \in Seq(Calls) BY <1>1
<1>2. n \in Nat /\ DOMAIN calls = 1 .. n BY <1>9
<1>3. \A i \in 1 .. n : calls[i] \in Calls BY <1>9, <1>2
<1>4. SeqExt!ToSet(calls) = {calls[i] : i \in 1 .. n} BY <1>2 DEF SeqExt!ToSet
<1>5. \A i \in 1 .. n : calls[i] \in SeqExt!ToSet(calls) BY <1>4
<1>6. \A call \in SeqExt!ToSet(calls) : call.fn = "upgradeTo" => call.arg = Version(call.to, tree)
  BY <1>1 DEF Sound
<1> HIDE DEF n
<1>7. \A i \in 1 .. n : /\ calls[i].fn # ""
                        /\ calls[i].fn = "upgradeTo" => calls[i].arg = Version(calls[i].to, tree)
  BY <1>1, <1>5, <1>6
<1>8. \A call \in SeqExt!ToSet(calls) : \E i \in 1 .. n : calls[i] = call BY <1>4
<1> QED BY <1>1, <1>2, <1>3, <1>5, <1>7, <1>8 DEF n, calls

(* While the calls are made, a contract keeps its code or gets that of the *)
(* release checked out; when all are made, what they upgrade has it.       *)
LEMMA CodeFact ==
  ASSUME RInv, proposal.stage # "none", NEW n \in 0 .. Len(proposal.calls),
         NEW c \in Contracts
  PROVE  LET upgraded == \E i \in 1 .. n : /\ proposal.calls[i].fn = "upgradeTo"
                                           /\ proposal.calls[i].to = c
         IN  CodeAfter(n)[c] = IF upgraded THEN Version(c, tree) ELSE code[c]
<1> DEFINE calls == proposal.calls
           upgrades == {i \in 1 .. n : calls[i].fn = "upgradeTo" /\ calls[i].to = c}
<1>1. Len(calls) \in Nat
      /\ \A i \in 1 .. Len(calls) :
           calls[i].fn = "upgradeTo" => calls[i].arg = Version(calls[i].to, tree)
  BY ProposalFact
<1>2. CodeAfter(n)[c] = IF upgrades = {} THEN code[c] ELSE calls[Max(upgrades)].arg
  BY DEF CodeAfter
<1>3. n \in Nat /\ upgrades \subseteq 1 .. n /\ \A i \in 1 .. n : i \in 1 .. Len(calls)
  BY <1>1
<1>4. CASE upgrades = {} BY <1>2, <1>4
<1>5. CASE upgrades # {}
  <2> DEFINE m == Max(upgrades)
  <2>1. m \in upgrades
    <3>0. upgrades \subseteq Nat /\ \A x \in upgrades : x <= n BY <1>3
    <3> HIDE DEF upgrades, m
    <3>1. \E x \in upgrades : \A y \in upgrades : x >= y BY <1>3, <1>5, <3>0, MaxExists
    <3> QED BY <3>1, Zenon DEF Max, m
  <2> HIDE DEF m
  <2>2. m \in 1 .. Len(calls) /\ calls[m].fn = "upgradeTo" /\ calls[m].to = c
    BY <1>3, <2>1
  <2>3. calls[m].arg = Version(c, tree) BY <1>1, <2>2
  <2> QED BY <1>2, <1>5, <2>1, <2>2, <2>3 DEF m
<1> QED BY <1>4, <1>5

(* The contracts a proposal leaves behind: all at the release checked out, *)
(* and those that need dependencies have those of the second generation.   *)
LEMMA ExecuteFact ==
  ASSUME RInv, ExecuteProposal
  PROVE  /\ \A c \in Contracts : code[c] # 0 /\ code'[c] = Version(c, tree)
         /\ \A c \in Wired : owner[c] = "MultiSig" /\ dependencies'[c] = 2
         /\ dependencies' \in [Contracts -> 0 .. 2]
<1> DEFINE calls == proposal.calls
           n == Len(calls)
           set == SeqExt!ToSet(calls)
<1>1. /\ IInv /\ TypeOK /\ (Current \/ Upgrading) /\ proposal.stage # "none"
      /\ \A c \in Contracts : code[c] # 0
      /\ \A c \in Wired : owner[c] = "MultiSig"
      /\ Sound(set, tree) /\ \A call \in set : call.fn # ""
  BY DEF RInv, IInv, Waits, ExecuteProposal
<1>2. /\ code' = CodeAfter(n)
      /\ dependencies' = [c \in Contracts |->
                            IF \E call \in CallsOf("setDependencies") : call.to = c
                            THEN 2 ELSE dependencies[c]]
  BY DEF ExecuteProposal
<1>3. n \in Nat /\ \A call \in set : \E i \in 1 .. n : calls[i] = call
  BY <1>1, ProposalFact
<1>4. n \in 0 .. n BY <1>3
<1> HIDE DEF set, n, calls
<1>5. ASSUME NEW c \in Contracts PROVE code'[c] = Version(c, tree)
  <2> DEFINE upgraded == \E i \in 1 .. n : calls[i].fn = "upgradeTo" /\ calls[i].to = c
  <2>1. code'[c] = IF upgraded THEN Version(c, tree) ELSE code[c]
    BY <1>1, <1>2, <1>4, CodeFact DEF n, calls
  <2>2. code[c] = Version(c, tree) \/ upgraded
    <3>1. CASE Current BY <1>1, <3>1 DEF Current
    <3>2. CASE Upgrading
      <4>1. CASE Version(c, tree - 1) = 0 BY <1>1, <3>2, <4>1 DEF Upgrading
      <4>2. CASE Version(c, tree - 1) = Version(c, tree)
        BY <1>1, <3>2, <4>2 DEF Upgrading
      <4>3. CASE Version(c, tree - 1) \notin {0, Version(c, tree)}
        <5>1. PICK call \in set : call.fn = "upgradeTo" /\ call.to = c
          BY <1>1, <4>3 DEF Sound
        <5> QED BY <1>3, <5>1
      <4> QED BY <4>1, <4>2, <4>3
    <3> QED BY <1>1, <3>1, <3>2
  <2> QED BY <2>1, <2>2
<1>6. dependencies \in [Contracts -> 0 .. 2] BY <1>1 DEF TypeOK
<1>7. \A c \in Contracts : dependencies'[c] \in {2, dependencies[c]} BY <1>2
<1>8. dependencies' \in [Contracts -> 0 .. 2]
  <2> DEFINE given(c) == \E call \in CallsOf("setDependencies") : call.to = c
  <2>1. dependencies' = [c \in Contracts |-> IF given(c) THEN 2 ELSE dependencies[c]]
    BY <1>2
  <2> HIDE DEF given
  <2> QED BY <1>6, <2>1
<1>9. ASSUME NEW c \in Wired PROVE dependencies'[c] = 2
  <2>1. c \in Contracts /\ "Manager" \in Wired /\ "Manager" \in Contracts
    BY ScriptFact DEF Wired, Contracts
  <2>2. Prepared /\ code \in [Contracts -> 0 .. 4] BY <1>1, StateFact
  <2>3. CASE c # "Manager"
    <3>1. code[c] \in 1 .. 4
      <4>1. code[c] \in 0 .. 4 /\ code[c] # 0 BY <1>1, <2>1, <2>2
      <4> QED BY <4>1
    <3>2. Needs(c, code[c]) = 2 BY <2>3, <3>1, NeedsFact
    <3>3. dependencies[c] >= Needs(c, code[c]) BY <1>1, <2>2 DEF Prepared
    <3>4. dependencies[c] \in 0 .. 2 BY <1>6, <2>1
    <3>5. dependencies[c] = 2 BY <3>2, <3>3, <3>4
    <3> QED BY <1>7, <2>1, <3>5
  <2>4. CASE c = "Manager" /\ code["Manager"] >= 2
    <3>1. dependencies[c] = 2 BY <1>1, <2>1, <2>2, <2>4 DEF Prepared
    <3> QED BY <1>7, <2>1, <3>1
  <2>5. CASE c = "Manager" /\ ~(code["Manager"] >= 2)
    <3>1. tree = 2
      <4>1. /\ tree \in 2 .. 4 /\ Version(c, tree) >= 2
            /\ tree # 2 => Version(c, tree - 1) >= 2
        <5>1. Version(c, tree) \in 2 .. 4 BY <1>1, <2>1, ReleasesFact
        <5>2. tree \in 2 .. 4 /\ (tree # 2 => Version(c, tree - 1) >= 2)
          BY <1>1, <2>1, ReleasesFact
        <5> DEFINE v == Version(c, tree)
        <5>3. v \in 2 .. 4 BY <5>1
        <5> HIDE DEF v
        <5>4. v >= 2 BY <5>3
        <5> QED BY <5>2, <5>4 DEF v
      <4>2. code[c] # Version(c, tree) BY <2>5, <4>1
      <4>3. Upgrading BY <1>1, <2>1, <4>2 DEF Current
      <4>4. tree # 2 => code[c] = Version(c, tree - 1)
        <5>1. tree # 2 => Version(c, tree - 1) # 0 BY <4>1
        <5> QED BY <2>1, <4>3, <5>1 DEF Upgrading
      <4> QED BY <2>5, <4>1, <4>4
    <3>2. PICK call \in set : call.fn = "setDependencies" /\ call.to = "Manager"
      BY <1>1, <3>1 DEF Sound
    <3>3. call \in CallsOf("setDependencies") BY <3>2 DEF CallsOf, set, calls
    <3> QED BY <1>2, <2>1, <2>5, <3>2, <3>3
  <2> QED BY <2>3, <2>4, <2>5
<1> QED BY <1>1, <1>5, <1>8, <1>9

(* What a proposal activates are groups, and the pausers it sets are those *)
(* of all contracts.                                                       *)
LEMMA ExecuteOthers ==
  ASSUME RInv, ExecuteProposal
  PROVE  /\ active' \subseteq Groups /\ activatable' \subseteq Groups
         /\ pausers' \in {{}, Contracts}
<1> DEFINE set == SeqExt!ToSet(proposal.calls)
<1>1. /\ TypeOK /\ proposal.stage # "none" /\ pausers \in {{}, Contracts}
      /\ Sound(set, tree) /\ \A call \in set : call.fn # ""
  BY DEF RInv, IInv, Waits, ExecuteProposal
<1>2. \A call \in set : call \in Calls BY <1>1, ProposalFact
<1>3. /\ active' = active \cup {call.arg : call \in {call \in set : call.fn = "activateGroup"}}
      /\ activatable' = activatable \ active'
      /\ pausers' = pausers \cup {call.to : call \in {call \in set : call.fn = "setPauser"}}
  BY DEF ExecuteProposal, CallsOf
<1> HIDE DEF set
<1>4. \A call \in set : call.fn = "activateGroup" => call.arg \in Groups BY <1>1 DEF Sound
<1>5. active' \subseteq Groups /\ activatable' \subseteq Groups BY <1>1, <1>3, <1>4 DEF TypeOK
<1>6. \A call \in set : call.to \in Contracts BY <1>2 DEF Calls
<1> DEFINE paused == {call.to : call \in {call \in set : call.fn = "setPauser"}}
<1>7. paused \in {{}, Contracts}
  <2>1. CASE \A call \in set : call.fn # "setPauser" BY <2>1
  <2>2. CASE \A c \in Contracts : \E call \in set : call.fn = "setPauser" /\ call.to = c
    <3>1. paused \subseteq Contracts BY <1>6
    <3>2. Contracts \subseteq paused BY <2>2
    <3> QED BY <3>1, <3>2
  <2> QED BY <1>1, <2>1, <2>2 DEF Sound
<1>8. pausers' = pausers \cup paused BY <1>3
<1> HIDE DEF paused
<1> QED BY <1>1, <1>5, <1>7, <1>8

(* Executing a proposal takes the network to the release checked out.      *)
LEMMA ExecuteInv == RInv /\ ExecuteProposal => RInv'
<1> SUFFICES ASSUME RInv, ExecuteProposal PROVE RInv' OBVIOUS
<1>1. /\ IInv /\ Worked /\ Waits /\ TypeOK BY DEF RInv, IInv
<1>2. /\ UNCHANGED <<tree, implementation, abi, owner, healthy, validatorGroups, run, outcome>>
      /\ printed' = printed /\ proposal' = NoProposal
  BY DEF ExecuteProposal
<1>3. /\ \A c \in Contracts : code[c] # 0 /\ code'[c] = Version(c, tree)
      /\ \A c \in Wired : owner[c] = "MultiSig" /\ dependencies'[c] = 2
      /\ dependencies' \in [Contracts -> 0 .. 2]
  BY ExecuteFact
<1>4. \A c \in Contracts : Version(c, tree) \in 0 .. 4 /\ Version(c, tree) # 0
  BY <1>1, ReleasesFact
<1>5. code' \in [Contracts -> 0 .. 4]
  <2> DEFINE kept(c) == IF \E i \in 1 .. Len(proposal.calls) :
                               proposal.calls[i].fn = "upgradeTo" /\ proposal.calls[i].to = c
                        THEN Version(c, tree) ELSE code[c]
  <2>1. DOMAIN code' = Contracts /\ code' = [c \in Contracts |-> code'[c]]
    BY DEF ExecuteProposal, CodeAfter
  <2>2. \A c \in Contracts : code'[c] \in 0 .. 4 BY <1>3, <1>4
  <2> QED BY <2>1, <2>2
<1>6. TypeOK' BY <1>1, <1>2, <1>3, <1>5, ExecuteOthers DEF TypeOK
<1>7. \A c \in Contracts : code'[c] # 0 BY <1>3, <1>4
<1>8. Exists' BY <1>1, <1>2, <1>3, <1>7 DEF IInv, Exists
<1>9. Done'
  <2>1. run.tag = "proxy" => run.script \in Tagged("proxy") \cup {14} BY <1>1 DEF IInv, Done
  <2> QED BY <1>2, <1>3, <1>7, <2>1 DEF Done
<1>10. Prepared'
  <2>1. \A c \in Wired : c \in Contracts BY ScriptFact
  <2>2. \A c \in Wired : Needs(c, code'[c]) \in 0 .. 2
    <3>1. \A c \in Contracts : code'[c] \in 0 .. 4 BY <1>5
    <3> QED BY <2>1, <3>1, NeedsFact
  <2>3. \A c \in Wired : dependencies'[c] >= Needs(c, code'[c])
    <3> SUFFICES ASSUME NEW c \in Wired PROVE dependencies'[c] >= Needs(c, code'[c])
      OBVIOUS
    <3> DEFINE needs == Needs(c, code'[c])
    <3>1. needs \in 0 .. 2 /\ dependencies'[c] = 2 BY <1>3, <2>2
    <3> HIDE DEF needs
    <3>2. 2 >= needs BY <3>1
    <3> QED BY <3>1, <3>2 DEF needs
  <2> QED BY <1>3, <2>3 DEF Prepared
<1>11. Current' BY <1>2, <1>3, <1>7 DEF Current, Version
<1>12. Worked' BY <1>1, <1>2 DEF Worked, Past, Placed, Version
<1>13. Waits'
  <2>1. NoProposal \in [stage : {"none", "submitted", "scheduled", "executable"},
                        calls : Seq(Calls), confirmedBy : SUBSET (Owners \cup {NewOwner})]
    BY NoCall DEF NoProposal
  <2>2. proposal'.stage = "none" BY <1>2 DEF NoProposal
  <2>3. \A c \in Contracts : Placed(c)' = Placed(c) BY <1>2 DEF Placed, Version
  <2>4. printed # <<>> =>
          /\ \A c \in Contracts : Placed(c)
          /\ \A c \in Wired : owner[c] = "MultiSig"
          /\ Sound(SeqExt!ToSet(printed), tree)
    BY <1>1 DEF Waits
  <2>5. printed \in Seq(Calls) BY <1>1 DEF Waits
  <2> HIDE DEF Placed
  <2> QED BY <1>2, <1>7, <2>1, <2>2, <2>3, <2>4, <2>5 DEF Waits
<1> QED BY <1>6, <1>8, <1>9, <1>10, <1>11, <1>12, <1>13, ExecuteOthers DEF RInv, IInv

----------------------------------------------------------------------------
(* Releases, step by step.                                                 *)
(* The next release is checked out when this one is in place.              *)
LEMMA CheckOutInv == RInv /\ CheckOut => RInv'
<1> SUFFICES ASSUME RInv, CheckOut PROVE RInv' OBVIOUS
<1>1. /\ IInv /\ Worked /\ Waits /\ TypeOK /\ pausers \in {{}, Contracts} /\ InPlace
      /\ run.tag = "none" /\ printed = <<>> /\ proposal = NoProposal /\ tree < 4
  BY DEF RInv, IInv, CheckOut
<1>2. /\ UNCHANGED <<implementation, abi, code, owner, dependencies>>
      /\ UNCHANGED <<healthy, active, activatable, validatorGroups, run>>
      /\ UNCHANGED <<pausers, printed, proposal>>
      /\ tree' = tree + 1 /\ outcome' = "none"
  BY DEF CheckOut, proxies, groupState
<1>3. tree \in 2 .. 3 /\ tree' \in 2 .. 4 /\ tree' - 1 = tree
  <2>1. tree \in 2 .. 4 BY <1>1 DEF TypeOK
  <2> QED BY <1>1, <1>2, <2>1
<1>4. TypeOK' BY <1>1, <1>2, <1>3 DEF TypeOK
<1>5. Exists' /\ Done' /\ Prepared'
  BY <1>1, <1>2 DEF IInv, Exists, Done, Prepared, Past
<1>6. Upgrading'
  <2> SUFFICES ASSUME NEW c \in Contracts
               PROVE  owner'[c] = "MultiSig" /\ code'[c] = Version(c, tree' - 1)
    BY <1>1, <1>3, ReleasesFact DEF Upgrading
  <2> QED BY <1>1, <1>2, <1>3 DEF InPlace
<1>7. Worked'
  <2>1. run'.script = 0 /\ ~run'.loop /\ run'.tag # "proxy"
    BY <1>1, <1>2 DEF Worked
  <2> QED BY <1>2, <2>1, OutsideWorked
<1>8. Waits'
  <2>1. printed' = <<>> /\ proposal' = NoProposal /\ proposal'.stage = "none"
    BY <1>1, <1>2 DEF NoProposal
  <2>2. NoProposal \in [stage : {"none", "submitted", "scheduled", "executable"},
                        calls : Seq(Calls), confirmedBy : SUBSET (Owners \cup {NewOwner})]
    BY NoCall DEF NoProposal
  <2>3. printed' \in Seq(Calls) BY <2>1, NoCall
  <2> QED BY <2>1, <2>2, <2>3 DEF Waits
<1> QED BY <1>1, <1>2, <1>4, <1>5, <1>6, <1>7, <1>8 DEF RInv, IInv

(* A run leaves the release the contracts are at, and what waits.          *)
LEMMA RunInv == RInv /\ Next /\ UNCHANGED <<pausers, owners, printed, proposal>> => RInv'
<1> SUFFICES ASSUME RInv, Next, UNCHANGED <<pausers, owners, printed, proposal>> PROVE RInv'
  OBVIOUS
<1>1. /\ IInv /\ Worked /\ (Current \/ Upgrading) /\ Waits /\ pausers \in {{}, Contracts}
      /\ UNCHANGED <<printed, proposal>> /\ pausers' = pausers
  BY DEF RInv
<1>2. IInv' BY <1>1, NextInv
<1>3. Worked' /\ Builds BY <1>1, RunWorked
<1>4. Current' \/ Upgrading' BY <1>1, <1>2, <1>3, BuildsStanding
<1>5. Waits' BY <1>1, <1>3, BuildsWaits
<1> QED BY <1>1, <1>2, <1>3, <1>4, <1>5 DEF RInv

(* The first states.                                                       *)
LEMMA ReleaseInitInv == ReleaseInit => RInv
<1> SUFFICES ASSUME ReleaseInit PROVE RInv OBVIOUS
<1>1. /\ Init /\ pausers = {} /\ printed = <<>> /\ proposal = NoProposal BY DEF ReleaseInit
<1>2. IInv BY <1>1, InitInv
<1>3. run = Idle /\ outcome = "none" /\ code = implementation BY <1>1 DEF Init
<1>4. Worked
  <2>1. run.tag = "none" /\ run.script = 0 /\ ~run.loop BY <1>3 DEF Idle
  <2>2. \A k \in 0 .. 13 : ~Past(k) BY <2>1 DEF Past
  <2> HIDE DEF Placed
  <2> QED BY <1>3, <2>1, <2>2, ScriptFact DEF Worked
<1>5. Current \/ Upgrading
  <2>1. CASE implementation = [c \in Contracts |-> 0]
    <3>1. \A c \in Contracts : code[c] = 0 BY <1>3, <2>1
    <3>2. "RebasedStakedCelo" \in Contracts BY DEF Contracts
    <3> QED BY <3>1, <3>2 DEF Current
  <2>2. CASE /\ tree = 2
             /\ implementation = [c \in Contracts |-> Version(c, 1)]
             /\ owner = [c \in Contracts |-> IF c \in FirstContracts THEN "MultiSig" ELSE "nobody"]
    <3>1. \A c \in Contracts : code[c] = Version(c, 1) BY <1>3, <2>2
    <3>2. tree - 1 = 1 BY <2>2
    <3>3. \A c \in Contracts : Version(c, 1) = IF c \in FirstContracts THEN 1 ELSE 0
      BY VersionFact
    <3>4. Upgrading BY <2>2, <3>1, <3>2, <3>3 DEF Upgrading
    <3> QED BY <3>4
  <2> QED BY <1>1, <2>1, <2>2 DEF Init
<1>6. Waits
  <2>1. proposal.stage = "none" BY <1>1 DEF NoProposal
  <2>2. NoProposal \in [stage : {"none", "submitted", "scheduled", "executable"},
                        calls : Seq(Calls), confirmedBy : SUBSET (Owners \cup {NewOwner})]
    BY NoCall DEF NoProposal
  <2>3. printed \in Seq(Calls) BY <1>1, NoCall
  <2> QED BY <1>1, <2>1, <2>2, <2>3 DEF Waits
<1> QED BY <1>1, <1>2, <1>4, <1>5, <1>6 DEF RInv

(* Every step keeps the invariant of releases.                             *)
LEMMA ReleaseNextInv == RInv /\ [ReleaseNext]_releaseVars => RInv'
<1> SUFFICES ASSUME RInv, [ReleaseNext]_releaseVars PROVE RInv' OBVIOUS
<1>1. CASE Next /\ UNCHANGED <<pausers, owners, printed, proposal>> BY <1>1, RunInv
<1>2. CASE Update BY <1>2, UpdateV1ToV2Inv, UpdateV2ToV3Inv, UpdateV3ToV4Inv DEF Update
<1>3. CASE EncodeSetDependencies \/ RefreshAbi BY <1>3, RecordInv
<1>4. CASE \/ \E o \in Owners \cup {NewOwner} :
                SubmitProposal(o) \/ ConfirmProposal(o) \/ RevokeConfirmation(o)
           \/ TimelockPasses
  BY <1>4, SignInv DEF Signers
<1>5. CASE ExecuteProposal BY <1>5, ExecuteInv
<1>6. CASE CheckOut BY <1>6, CheckOutInv
<1>7. CASE UNCHANGED releaseVars
  <2>1. UNCHANGED vars /\ UNCHANGED <<printed, proposal>> /\ pausers' = pausers
    BY <1>7 DEF releaseVars
  <2>2. /\ IInv /\ Worked /\ (Current \/ Upgrading) /\ Waits /\ pausers \in {{}, Contracts}
    BY DEF RInv
  <2>3. IInv' /\ Worked' /\ (Current' \/ Upgrading') BY <2>1, <2>2, SameInv
  <2>4. [Next]_vars BY <2>1
  <2>5. Waits' BY <2>1, <2>2, <2>4, RunWorked, BuildsWaits
  <2> QED BY <2>1, <2>2, <2>3, <2>5 DEF RInv
<1> QED BY <1>1, <1>2, <1>3, <1>4, <1>5, <1>6, <1>7 DEF ReleaseNext

(* A network of which MultiSig owns the first contracts runs the release   *)
(* checked out, or the one before it.                                      *)
LEMMA InvTogether == RInv => ReleasedTogether
<1> SUFFICES ASSUME RInv PROVE ReleasedTogether OBVIOUS
<1>1. /\ IInv /\ TypeOK /\ Exists /\ (Current \/ Upgrading) /\ pausers \in {{}, Contracts}
  BY DEF RInv, IInv
<1>2. ASSUME \A c \in FirstContracts : owner[c] = "MultiSig"
      PROVE  \E release \in Releases :
               \A c \in Contracts : Version(c, release) # 0 => code[c] = Version(c, release)
  <2>1. tree \in Releases /\ tree - 1 \in Releases BY <1>1 DEF TypeOK, Releases
  <2>2. CASE Current
    <3>1. "RebasedStakedCelo" \in FirstContracts /\ "RebasedStakedCelo" \in Contracts
      BY DEF FirstContracts, Contracts
    <3>2. code["RebasedStakedCelo"] # 0 BY <1>1, <1>2, <3>1 DEF Exists
    <3>3. \A c \in Contracts : code[c] = Version(c, tree) BY <2>2, <3>2 DEF Current
    <3> QED BY <2>1, <3>3
  <2>3. CASE Upgrading
    <3>1. \A c \in Contracts : Version(c, tree - 1) # 0 => code[c] = Version(c, tree - 1)
      BY <2>3 DEF Upgrading
    <3> QED BY <2>1, <3>1
  <2> QED BY <1>1, <2>2, <2>3
<1> QED BY <1>1, <1>2 DEF ReleasedTogether

(* The invariant of releases holds in every state of every network, for    *)
(* any owners, confirmations required and groups.                          *)
THEOREM AlwaysReleasing == ReleaseSpec => []RInv
BY ReleaseInitInv, ReleaseNextInv, PTL DEF ReleaseSpec

(* A network never runs a mixture of releases: runs of the deployment that *)
(* are cut short and started again, update tasks, signatures and           *)
(* executions in any order leave the contracts that MultiSig owns at one   *)
(* release, and set all pausers or none.                                   *)
THEOREM AlwaysReleasedTogether == ReleaseSpec => []ReleasedTogether
BY AlwaysReleasing, InvTogether, PTL

(* Not only a deployment, an upgrade too leaves no contract of MultiSig    *)
(* without the dependencies its code needs: the ones the upgrade brings    *)
(* with it are given in the same proposal.                                 *)
THEOREM ReleasesHandedOverWired == ReleaseSpec => []HandedOverWired
<1>1. RInv => HandedOverWired BY InvWired DEF RInv
<1> QED BY <1>1, AlwaysReleasing, PTL

(* Executed, a proposal has upgraded all there was to upgrade.             *)
ExecutionUpgrades == ExecuteProposal => \A c \in Contracts : code'[c] = Version(c, tree)

(* A proposal that is executed leaves no contract behind: afterwards every *)
(* one has the code of the release that is checked out, although the       *)
(* proposal was encoded before it was signed and names only what changed,  *)
(* and whatever runs were made in between.                                 *)
THEOREM ExecutionLeavesNothing == ReleaseSpec => [][ExecutionUpgrades]_releaseVars
<1>1. RInv /\ [ReleaseNext]_releaseVars => [ExecutionUpgrades]_releaseVars
  BY ExecuteFact DEF ExecutionUpgrades
<1> QED BY <1>1, AlwaysReleasing, PTL DEF ReleaseSpec
=============================================================================
