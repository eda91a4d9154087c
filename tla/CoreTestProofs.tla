----------------------------- MODULE CoreTestProofs -----------------------------
(***************************************************************************)
(* Proofs about CoreTest, for any number of AUCs and modules: its state is    *)
(* well typed, so mm_detect hands out no id that reportlist has no place for; *)
(* tests run one by one; every module that was detected is kept working; and  *)
(* what mm_corereport writes are the modules of this AUC.                   *)
(*                                                                         *)
(* Two arguments carry them.  The ids that were handed out have all been      *)
(* taken, each by a module of its own, so there are not more than modules.    *)
(* And mm_test serves the modules in the order of their ids: how long one is  *)
(* quiet is counted by the modules served since (Between).                  *)
(***************************************************************************)
EXTENDS CoreTest, FiniteSetTheorems, FunctionTheorems, WellFoundedInduction, TLAPS

\* How many of S lie between a and b.
Between(S, a, b) == Cardinality({n \in S : a < n /\ n < b})

\* Where the tool is at the modules of one AUC.
Tests == {"test_send", "test_receive", "keep", "report"}
AtAuc == {"detect_send", "detect_receive"} \cup Tests

Mine(m) == m \in Modules /\ AucOf[m] = auc

PlaceInv ==
  /\ pc \in AtAuc => auc < AucCnts
  /\ pc \in {"test_send", "test_receive", "keep"} => i \in Enabled
  /\ pc = "keep" => j \in Others
  /\ pc \in {"test_receive", "keep"} => miner_index <= AVA4_DEFAULT_MINERS

\* An id is taken by one module of an AUC, and none below i is free.
IdInv ==
  /\ \A m, o \in Modules : AucOf[m] = AucOf[o] /\ idOf[m] = idOf[o] /\ idOf[m] # 0 => m = o
  /\ \A m \in Modules : AucOf[m] > auc => idOf[m] = 0
  /\ pc \in {"jansson_test", "open"} => \A m \in Modules : AucOf[m] >= auc => idOf[m] = 0
  /\ pc \in {"detect_send", "detect_receive"} =>
       /\ \A n \in 1 .. i - 1 : \E m \in Modules : AucOf[m] = auc /\ idOf[m] = n
       /\ \A m \in Modules : AucOf[m] = auc =>
            idOf[m] < i \/ (pc = "detect_receive" /\ idOf[m] = i)

\* The list holds modules of this AUC, under the ids they took.
ReportInv ==
  pc \in AtAuc =>
    \A k \in MM :
      \/ reportlist[k] = Nobody
      \/ \E m \in Modules :
           AucOf[m] = auc /\ idOf[m] = k /\ reportlist[k] = [auc |-> auc, dna |-> m, mm_enable |-> TRUE]

Found(m) == idOf[m] \in MM /\ reportlist[idOf[m]].dna = m

\* If nothing failed it holds all of them.
FoundInv ==
  faults = 0 =>
    \A m \in Modules : AucOf[m] = auc =>
      /\ pc \in {"detect_send", "detect_receive"} =>
           idOf[m] = 0 \/ (pc = "detect_receive" /\ idOf[m] = i) \/ Found(m)
      /\ pc = "detect_receive" /\ Addressed = {} => idOf[m] # 0
      /\ pc \in Tests => Found(m)

\* And no module but the one mm_test is at has anything to answer.
LeftInv ==
  faults = 0 =>
    \A m \in Modules :
      left[m] = IF pc \in {"test_receive", "keep"} /\ m \in Addressed
                  THEN AVA4_DEFAULT_MINERS + 1 - miner_index ELSE 0

Ahead(k) == Between(Enabled, k, AVA4_DEFAULT_MODULARS)

\* How long module k has been quiet: as long as it took to serve those behind it, to end a
\* test and begin the next, and to serve those before it.
QuietOf(k) ==
  /\ pc \in {"test_send", "report"} => quiet[k] <= Ahead(k) + 1
  /\ pc = "test_receive" /\ k # i =>
       quiet[k] <= Ahead(k) + 2 /\ (miner_index > 0 => quiet[k] <= Ahead(k))
  /\ pc = "test_receive" /\ k = i => quiet[k] <= Between(Others, 0, AVA4_DEFAULT_MODULARS)
  /\ pc = "keep" /\ k = i => quiet[k] <= Between(Others, 0, j)
  /\ pc = "keep" /\ k # i /\ k < j => quiet[k] <= Between(Others, k, j)
  /\ pc = "keep" /\ k # i /\ k >= j => quiet[k] <= Ahead(k) + 3 + Between(Others, 0, j)

QuietInv ==
  IF pc \in Tests THEN \A k \in Enabled : QuietOf(k) ELSE \A k \in MM : quiet[k] = 0

IInv == TypeOK /\ PlaceInv /\ IdInv /\ ReportInv /\ FoundInv /\ LeftInv /\ QuietInv

-----------------------------------------------------------------------------
\* The ids, and the sets of them.
LEMMA Ids ==
  ASSUME CoreTestAssumption
  PROVE  /\ AVA4_DEFAULT_MODULARS \in Nat \ {0} /\ AVA4_DEFAULT_MINERS \in Nat \ {0} /\ AucCnts \in Nat
         /\ MM \subseteq Nat \ {0} /\ \A k \in MM : k < AVA4_DEFAULT_MODULARS
         /\ \A k \in Nat \ {0} : k < AVA4_DEFAULT_MODULARS => k \in MM
         /\ IsFiniteSet(MM) /\ \A S \in SUBSET MM : IsFiniteSet(S)
         /\ AVA4_DEFAULT_MODULARS \notin MM /\ MaxFaults \in Nat
         /\ \A m \in Modules : AucOf[m] \in Nat /\ AucOf[m] < AucCnts
<1>1. IsFiniteSet(Modules) /\ Cardinality(Modules) \in Nat
  BY FS_CardinalityType DEF CoreTestAssumption
<1>2. AVA4_DEFAULT_MODULARS \in Nat \ {0}
  BY <1>1 DEF CoreTestAssumption
<1>3. IsFiniteSet(MM)
  BY <1>2, FS_Interval DEF MM
<1>4. \A S \in SUBSET MM : IsFiniteSet(S)
  BY <1>3, FS_Subset
<1>5. AucCnts \in Nat /\ AucOf \in [Modules -> 0 .. AucCnts - 1]
  BY DEF CoreTestAssumption
<1>6. \A m \in Modules : AucOf[m] \in Nat /\ AucOf[m] < AucCnts
  BY <1>5
<1> QED
  BY <1>2, <1>3, <1>4, <1>5, <1>6 DEF MM, CoreTestAssumption

\* Ids that have all been taken are not more than the modules.
LEMMA TakenIds ==
  ASSUME CoreTestAssumption, NEW f \in [Modules -> Nat], NEW N \in Nat,
         \A n \in 1 .. N : \E m \in Modules : f[m] = n
  PROVE  N < AVA4_DEFAULT_MODULARS
<1> DEFINE g == [n \in 1 .. N |-> CHOOSE m \in Modules : f[m] = n]
<1>1. \A n \in 1 .. N : g[n] \in Modules /\ f[g[n]] = n
  OBVIOUS
<1>2. g \in [1 .. N -> Modules]
  BY <1>1
<1> HIDE DEF g
<1>3. g \in Injection(1 .. N, Modules)
  BY <1>1, <1>2 DEF Injection, IsInjective
<1>4. Cardinality(1 .. N) <= Cardinality(Modules)
  BY <1>3, FS_Injection DEF CoreTestAssumption
<1>5. Cardinality(1 .. N) = N
  BY FS_Interval
<1>6. Cardinality(Modules) \in Nat /\ AVA4_DEFAULT_MODULARS \in Nat
  BY FS_CardinalityType DEF CoreTestAssumption
<1> QED
  BY <1>4, <1>5, <1>6 DEF CoreTestAssumption

\* A set of ids that is not empty has a least one.
LEMMA LeastId ==
  ASSUME NEW T \in SUBSET Nat, T # {}
  PROVE  \E n \in T : \A o \in T : n <= o
<1> DEFINE R == OpToRel(<, Nat)
<1>1. IsWellFoundedOn(R, Nat)
  BY NatLessThanWellFounded
<1>2. \A x, y \in Nat : x < y => <<x, y>> \in R
  BY DEF OpToRel
<1> HIDE DEF R
<1>3. PICK x \in T : \A y \in T : ~(<<y, x>> \in R)
  BY <1>1, WFMin
<1>4. ASSUME NEW y \in T PROVE x <= y
  <2>1. ~(x > y)
    BY <1>2, <1>3
  <2> QED
    BY <2>1
<1> QED
  BY <1>4

\* What the loops over the modules find.
LEMMA FirstFound ==
  ASSUME CoreTestAssumption, NEW S \in SUBSET MM, NEW k \in Nat
  PROVE  /\ FirstFrom(k, S) \in 1 .. AVA4_DEFAULT_MODULARS
         /\ FirstFrom(k, S) \in MM <=> FirstFrom(k, S) \in S
         /\ FirstFrom(k, S) \in S => FirstFrom(k, S) >= k
         /\ FirstFrom(k, S) \notin S => FirstFrom(k, S) = AVA4_DEFAULT_MODULARS
         /\ \A n \in S : n >= k => FirstFrom(k, S) <= n
<1> DEFINE above == {n \in S : n >= k}
<1>0. S \subseteq Nat \ {0} /\ \A n \in S : n < AVA4_DEFAULT_MODULARS
  BY Ids
<1>1. CASE above = {}
  <2>1. FirstFrom(k, S) = AVA4_DEFAULT_MODULARS
    BY <1>1 DEF FirstFrom
  <2>2. \A n \in S : n < k
    BY <1>0, <1>1
  <2>3. AVA4_DEFAULT_MODULARS \in Nat \ {0} /\ AVA4_DEFAULT_MODULARS \notin MM
    BY Ids
  <2> QED
    BY <1>0, <2>1, <2>2, <2>3
<1>2. CASE above # {}
  <2>1. \E n \in above : \A o \in above : n <= o
    BY <1>0, <1>2, LeastId
  <2>2. FirstFrom(k, S) = CHOOSE n \in above : \A o \in above : n <= o
    BY <1>2 DEF FirstFrom
  <2>3. FirstFrom(k, S) \in above /\ \A o \in above : FirstFrom(k, S) <= o
    <3> HIDE DEF above
    <3> QED
      BY <2>1, <2>2
  <2>4. FirstFrom(k, S) \in S /\ FirstFrom(k, S) >= k
    BY <2>3
  <2>5. FirstFrom(k, S) \in MM /\ FirstFrom(k, S) \in 1 .. AVA4_DEFAULT_MODULARS
    <3>1. \A x \in S : x \in MM /\ x \in 1 .. AVA4_DEFAULT_MODULARS
      BY Ids DEF MM
    <3> QED
      BY <2>4, <3>1, Zenon
  <2>6. \A n \in S : n >= k => FirstFrom(k, S) <= n
    BY <2>3
  <2> QED
    BY <2>4, <2>5, <2>6
<1> QED
  BY <1>1, <1>2

\* Counting the ids between two of them.
LEMMA BetweenTypes ==
  ASSUME CoreTestAssumption, NEW S \in SUBSET MM, NEW a, NEW b
  PROVE  /\ Between(S, a, b) \in Nat
         /\ \A T \in SUBSET S : Between(T, a, b) <= Between(S, a, b)
         /\ Between(S, a, b) <= Cardinality(S) /\ Cardinality(S) \in Nat
<1> DEFINE In(X) == {n \in X : a < n /\ n < b}
<1>1. IsFiniteSet(S) /\ IsFiniteSet(In(S)) /\ Cardinality(S) \in Nat
  BY Ids, FS_CardinalityType
<1>2. Cardinality(In(S)) \in Nat /\ Cardinality(In(S)) <= Cardinality(S)
  BY <1>1, FS_CardinalityType, FS_Subset
<1>3. \A T \in SUBSET S : Cardinality(In(T)) <= Cardinality(In(S))
  <2> TAKE T \in SUBSET S
  <2>1. In(T) \in SUBSET In(S)
    OBVIOUS
  <2> HIDE DEF In
  <2> QED
    BY <1>1, <2>1, FS_Subset
<1> QED
  BY <1>1, <1>2, <1>3 DEF Between

\* There is none between a and the next one, and one more up to the one after that.
LEMMA BetweenSteps ==
  ASSUME CoreTestAssumption, NEW S \in SUBSET MM, NEW a \in Nat
  PROVE  /\ Between(S, a, FirstFrom(a + 1, S)) = 0
         /\ \A k \in S : a < k => Between(S, a, FirstFrom(k + 1, S)) = Between(S, a, k) + 1
<1> DEFINE In(b) == {n \in S : a < n /\ n < b}
<1>0. S \subseteq Nat \ {0} /\ \A n \in S : n < AVA4_DEFAULT_MODULARS
  BY Ids
<1>1. In(FirstFrom(a + 1, S)) = {}
  <2>1. \A n \in S : n >= a + 1 => FirstFrom(a + 1, S) <= n
    BY FirstFound
  <2>2. FirstFrom(a + 1, S) \in Nat
    BY FirstFound
  <2> SUFFICES ASSUME NEW n \in S, a < n, n < FirstFrom(a + 1, S) PROVE FALSE
    OBVIOUS
  <2>3. n \in Nat /\ n >= a + 1
    BY <1>0
  <2> QED
    BY <2>1, <2>2, <2>3
<1>2. ASSUME NEW k \in S, a < k
      PROVE  Cardinality(In(FirstFrom(k + 1, S))) = Cardinality(In(k)) + 1
  <2>1. /\ FirstFrom(k + 1, S) \in Nat /\ FirstFrom(k + 1, S) > k /\ k \in Nat
        /\ \A n \in S : n >= k + 1 => FirstFrom(k + 1, S) <= n
    <3>1. k + 1 \in Nat /\ k \in Nat /\ k < AVA4_DEFAULT_MODULARS
      BY <1>0
    <3>2. /\ FirstFrom(k + 1, S) \in 1 .. AVA4_DEFAULT_MODULARS
          /\ FirstFrom(k + 1, S) \in S => FirstFrom(k + 1, S) >= k + 1
          /\ FirstFrom(k + 1, S) \notin S => FirstFrom(k + 1, S) = AVA4_DEFAULT_MODULARS
          /\ \A n \in S : n >= k + 1 => FirstFrom(k + 1, S) <= n
      BY <3>1, FirstFound
    <3> QED
      BY <3>1, <3>2, Ids
  <2>2. In(FirstFrom(k + 1, S)) = In(k) \cup {k} /\ k \notin In(k)
    <3> DEFINE x == FirstFrom(k + 1, S)
    <3> HIDE DEF x
    <3>1. x \in Nat /\ x > k /\ k \in Nat /\ \A n \in S : n >= k + 1 => x <= n
      BY <2>1 DEF x
    <3>2. \A n \in S : n \in Nat /\ (n < x <=> n < k \/ n = k)
      <4> TAKE n \in S
      <4>1. n \in Nat /\ (n >= k + 1 => x <= n)
        BY <1>0, <3>1
      <4> QED
        BY <3>1, <4>1
    <3>3. ~(k < k)
      BY <3>1
    <3>4. In(x) = In(k) \cup {k} /\ k \notin In(k)
      BY <1>2, <3>2, <3>3, Zenon
    <3> QED
      BY <3>4 DEF x
  <2>3. IsFiniteSet(In(k))
    BY Ids
  <2> HIDE DEF In
  <2> QED
    BY <2>2, <2>3, FS_AddElement
<1> QED
  BY <1>1, <1>2, FS_EmptySet DEF Between

\* Those behind k, those before it, and k.
LEMMA BetweenAll ==
  ASSUME CoreTestAssumption, NEW S \in SUBSET MM, NEW k \in S, NEW b \in Nat, b <= k
  PROVE  Between(S, k, AVA4_DEFAULT_MODULARS) + Between(S, 0, b) + 1 <= Cardinality(S)
<1> DEFINE A == {n \in S : k < n /\ n < AVA4_DEFAULT_MODULARS}
           B == {n \in S : 0 < n /\ n < b}
<1>0. S \subseteq Nat /\ IsFiniteSet(S) /\ IsFiniteSet(A) /\ IsFiniteSet(B)
  BY Ids
<1>1. A \cap B = {} /\ k \notin A \cup B /\ (A \cup B) \cup {k} \in SUBSET S
  <2>1. \A n \in S : n \in Nat /\ ~(k < n /\ n < b) /\ (n = k => ~(k < n) /\ ~(n < b))
    BY <1>0
  <2>2. A \cap B = {} /\ k \notin A /\ k \notin B
    BY <2>1
  <2> QED
    BY <2>2
<1> HIDE DEF A, B
<1>2. /\ IsFiniteSet(A \cup B) /\ Cardinality(A \cup B) = Cardinality(A) + Cardinality(B) - 0
      /\ Cardinality(A) \in Nat /\ Cardinality(B) \in Nat
  BY <1>0, <1>1, FS_Union, FS_EmptySet, FS_CardinalityType
<1>3. Cardinality((A \cup B) \cup {k}) = Cardinality(A \cup B) + 1
  BY <1>1, <1>2, FS_AddElement
<1>4. Cardinality((A \cup B) \cup {k}) <= Cardinality(S) /\ Cardinality(S) \in Nat
  BY <1>0, <1>1, FS_Subset, FS_CardinalityType
<1>5. Cardinality(A) + Cardinality(B) + 1 <= Cardinality(S)
  BY <1>2, <1>3, <1>4
<1> QED
  BY <1>5 DEF Between, A, B

\* The reports that can be in the list.
LEMMA ReportTypes ==
  ASSUME CoreTestAssumption
  PROVE  /\ Nobody \in Entries /\ Invented \in Entries /\ Cleared \in [MM -> Entries]
         /\ \A a \in 0 .. AucCnts - 1, m \in Modules :
              [auc |-> a, dna |-> m, mm_enable |-> TRUE] \in Entries
BY DEF Nobody, Invented, Cleared, Entries

LEMMA EnabledIds == Enabled \in SUBSET MM /\ Others \in SUBSET MM /\ Others \in SUBSET Enabled
BY DEF Enabled, Others

-----------------------------------------------------------------------------
LEMMA Initially == ASSUME CoreTestAssumption, Init PROVE IInv
<1> USE DEF Init
<1>1. TypeOK
  BY Ids, ReportTypes DEF TypeOK
<1>2. PlaceInv /\ ReportInv /\ FoundInv /\ LeftInv
  BY DEF PlaceInv, ReportInv, FoundInv, LeftInv, AtAuc, Tests
<1>3. IdInv
  BY DEF IdInv
<1>4. QuietInv
  BY DEF QuietInv, Tests
<1> QED
  BY <1>1, <1>2, <1>3, <1>4 DEF IInv

\* A step that ends where no module is detected or tested.
LEMMA Elsewhere ==
  ASSUME IInv, TypeOK', pc' \notin AtAuc, faults' = 0 => faults = 0, UNCHANGED deviceVars,
         faults = 0 => \A m \in Modules : left[m] = 0,
         \A k \in MM : quiet'[k] = 0,
         auc' >= auc, auc' \in Int, auc \in Int, \A m \in Modules : AucOf[m] \in Int,
         pc' = "open" => \A m \in Modules : AucOf[m] >= auc' => idOf[m] = 0,
         pc' # "jansson_test"
  PROVE  IInv'
<1>0. /\ idOf' = idOf /\ left' = left
      /\ pc' \notin Tests /\ pc' \notin {"detect_send", "detect_receive", "test_send", "test_receive", "keep", "report"}
  BY DEF deviceVars, AtAuc, Tests
<1>1. PlaceInv' /\ ReportInv' /\ FoundInv' /\ LeftInv' /\ QuietInv'
  BY <1>0 DEF PlaceInv, ReportInv, FoundInv, LeftInv, QuietInv
<1>2. IdInv'
  <2>1. \A m \in Modules : AucOf[m] > auc' => idOf'[m] = 0
    BY <1>0 DEF IInv, IdInv
  <2> QED
    BY <1>0, <2>1 DEF IInv, IdInv
<1> QED
  BY <1>1, <1>2 DEF IInv

\* jansson_test.
LEMMA JanssonStep ==
  ASSUME CoreTestAssumption, IInv, jansson_test
  PROVE  IInv'
<1>0. /\ pc = "jansson_test" /\ pc' = "open" /\ reportlist' = [Cleared EXCEPT ![1] = Invented]
      /\ (log' = {<<30, Invented>>} /\ faults' = faults) \/ (log' = log /\ Fault)
      /\ auc' = auc /\ i' = i /\ j' = j /\ miner_index' = miner_index /\ idOf' = idOf /\ left' = left
      /\ quiet' = quiet
  BY DEF jansson_test, deviceVars
<1>1. TypeOK'
  <2>1. reportlist' \in [MM -> Entries]
    BY <1>0, ReportTypes
  <2>2. log' \subseteq Nat \X Entries
    BY <1>0, ReportTypes DEF IInv, TypeOK
  <2>3. faults' \in 0 .. MaxFaults
    BY <1>0, Ids DEF IInv, TypeOK, Fault
  <2> QED
    BY <1>0, <2>1, <2>2, <2>3 DEF IInv, TypeOK
<1>2. /\ faults = 0 => \A m \in Modules : left[m] = 0
      /\ \A k \in MM : quiet'[k] = 0
  BY <1>0 DEF IInv, LeftInv, QuietInv, Tests
<1>3. \A m \in Modules : AucOf[m] >= auc' => idOf[m] = 0
  BY <1>0 DEF IInv, IdInv
<1>4. pc' \notin AtAuc /\ pc' # "jansson_test" /\ auc' >= auc /\ auc' \in Int /\ auc \in Int
      /\ (faults' = 0 => faults = 0) /\ UNCHANGED deviceVars /\ \A m \in Modules : AucOf[m] \in Int
  BY <1>0, Ids DEF AtAuc, Tests, IInv, TypeOK, Fault, deviceVars
<1> QED
  BY <1>1, <1>2, <1>3, <1>4, Elsewhere

\* The tool opens the next AUC, or passes over one that does not open.
LEMMA OpenStep ==
  ASSUME CoreTestAssumption, IInv, Open
  PROVE  IInv'
<1>0. /\ pc = "open" /\ auc < AucCnts /\ auc \in 0 .. AucCnts /\ AucCnts \in Nat
      /\ j' = j /\ miner_index' = miner_index /\ log' = log /\ idOf' = idOf /\ left' = left /\ quiet' = quiet
      /\ \/ pc' = "detect_send" /\ i' = 1 /\ reportlist' = Cleared /\ auc' = auc /\ faults' = faults
         \/ auc' = auc + 1 /\ Fault /\ pc' = pc /\ i' = i /\ reportlist' = reportlist
  BY Ids DEF Open, deviceVars, IInv, TypeOK
<1>1. TypeOK'
  <2>1. reportlist' \in [MM -> Entries] /\ i' \in 1 .. AVA4_DEFAULT_MODULARS /\ auc' \in 0 .. AucCnts
    BY <1>0, Ids, ReportTypes DEF IInv, TypeOK
  <2>2. faults' \in 0 .. MaxFaults
    BY <1>0, Ids DEF IInv, TypeOK, Fault
  <2> QED
    BY <1>0, <2>1, <2>2 DEF IInv, TypeOK
<1>2. /\ faults = 0 => \A m \in Modules : left[m] = 0
      /\ \A k \in MM : quiet'[k] = 0
      /\ \A m \in Modules : AucOf[m] >= auc => idOf[m] = 0
  BY <1>0 DEF IInv, LeftInv, QuietInv, Tests, IdInv
<1>3. \A m \in Modules : AucOf[m] \in Nat
  BY Ids
<1>4. CASE pc' = "detect_send" /\ i' = 1 /\ reportlist' = Cleared /\ auc' = auc /\ faults' = faults
  <2>1. PlaceInv' /\ ReportInv'
    BY <1>0, <1>4 DEF PlaceInv, ReportInv, Cleared
  <2>2. FoundInv' /\ LeftInv' /\ QuietInv'
    BY <1>0, <1>2, <1>3, <1>4 DEF FoundInv, LeftInv, QuietInv, Tests
  <2>3. IdInv'
    <3>1. \A m \in Modules : AucOf[m] = auc => idOf[m] < 1
      BY <1>0, <1>2, <1>3
    <3>2. i' - 1 = 0 /\ 1 .. 0 = {}
      BY <1>4
    <3> QED
      BY <1>0, <1>4, <3>1, <3>2 DEF IInv, IdInv
  <2> QED
    BY <1>1, <2>1, <2>2, <2>3 DEF IInv
<1>5. CASE auc' = auc + 1 /\ Fault /\ pc' = pc
  <2>1. \A m \in Modules : AucOf[m] >= auc' => idOf[m] = 0
    BY <1>0, <1>2, <1>3, <1>5
  <2>2. pc' \notin AtAuc /\ pc' # "jansson_test" /\ auc' >= auc /\ auc' \in Int /\ auc \in Int
        /\ (faults' = 0 => faults = 0) /\ UNCHANGED deviceVars /\ \A m \in Modules : AucOf[m] \in Int
    BY <1>0, <1>3, <1>5 DEF AtAuc, Tests, IInv, TypeOK, Fault, deviceVars
  <2> QED
    BY <1>1, <1>2, <2>1, <2>2, Elsewhere
<1> QED
  BY <1>0, <1>4, <1>5

\* The last AUC is done.
LEMMA ReturnStep ==
  ASSUME CoreTestAssumption, IInv, Return
  PROVE  IInv'
<1>0. /\ pc = "open" /\ pc' = "done" /\ auc' = auc /\ i' = i /\ j' = j /\ miner_index' = miner_index
      /\ reportlist' = reportlist /\ log' = log /\ idOf' = idOf /\ left' = left /\ quiet' = quiet
      /\ faults' = faults
  BY DEF Return, deviceVars
<1>1. TypeOK'
  BY <1>0 DEF IInv, TypeOK
<1>2. /\ faults = 0 => \A m \in Modules : left[m] = 0
      /\ \A k \in MM : quiet'[k] = 0
  BY <1>0 DEF IInv, LeftInv, QuietInv, Tests
<1>3. pc' \notin AtAuc /\ pc' # "jansson_test" /\ pc' # "open" /\ auc' >= auc /\ auc' \in Int /\ auc \in Int
      /\ (faults' = 0 => faults = 0) /\ UNCHANGED deviceVars /\ \A m \in Modules : AucOf[m] \in Int
  BY <1>0, Ids DEF AtAuc, Tests, IInv, TypeOK, deviceVars
<1> QED
  BY <1>1, <1>2, <1>3, Elsewhere

\* mm_corereport.
LEMMA ReportStep ==
  ASSUME CoreTestAssumption, IInv, Report
  PROVE  /\ IInv'
         /\ ThisAucReported
<1>0. /\ pc = "report" /\ pc' = "open" /\ auc' = auc + 1 /\ i' = i /\ j' = j /\ miner_index' = miner_index
      /\ (log' = Written /\ faults' = faults) \/ (log' = log /\ Fault)
      /\ reportlist' = reportlist /\ idOf' = idOf /\ left' = left /\ quiet' = [k \in MM |-> 0]
  BY DEF Report, deviceVars
<1>a. auc < AucCnts /\ auc \in Nat /\ AucCnts \in Nat /\ \A m \in Modules : AucOf[m] \in Nat
  BY <1>0, Ids DEF IInv, PlaceInv, AtAuc, Tests, TypeOK
<1>1. TypeOK'
  <2>1. log' \subseteq Nat \X Entries
    BY <1>0, Ids DEF IInv, TypeOK, Written
  <2>2. faults' \in 0 .. MaxFaults
    BY <1>0, Ids DEF IInv, TypeOK, Fault
  <2>3. quiet' \in [MM -> Nat] /\ auc' \in 0 .. AucCnts
    BY <1>0, <1>a
  <2> QED
    BY <1>0, <2>1, <2>2, <2>3 DEF IInv, TypeOK
<1>2. /\ faults = 0 => \A m \in Modules : left[m] = 0
      /\ \A k \in MM : quiet'[k] = 0
  BY <1>0 DEF IInv, LeftInv
<1>3. \A m \in Modules : AucOf[m] >= auc' => idOf[m] = 0
  BY <1>0, <1>a DEF IInv, IdInv
<1>4. pc' \notin AtAuc /\ pc' # "jansson_test" /\ auc' >= auc /\ auc' \in Int /\ auc \in Int
      /\ (faults' = 0 => faults = 0) /\ UNCHANGED deviceVars /\ \A m \in Modules : AucOf[m] \in Int
  BY <1>0, <1>a DEF AtAuc, Tests, IInv, TypeOK, Fault, deviceVars
<1>5. IInv'
  BY <1>1, <1>2, <1>3, <1>4, Elsewhere
<1>6. ThisAucReported
  <2> SUFFICES ASSUME log' # log
               PROVE  /\ Written \subseteq log'
                      /\ \A e \in Written : e[2] # Nobody =>
                           \E m \in Modules : AucOf[m] = auc /\ idOf[m] = e[1] /\ e[2].dna = m /\ e[2].auc = auc
                      /\ faults = 0 =>
                           \A m \in Modules : AucOf[m] = auc => \E e \in Written : e[2].dna = m
    BY DEF ThisAucReported
  <2>1. log' = Written
    BY <1>0
  <2>2. ASSUME NEW k \in MM, reportlist[k] # Nobody
        PROVE  \E m \in Modules : AucOf[m] = auc /\ idOf[m] = k /\ reportlist[k].dna = m /\ reportlist[k].auc = auc
    <3>1. PICK m \in Modules : /\ AucOf[m] = auc /\ idOf[m] = k
                               /\ reportlist[k] = [auc |-> auc, dna |-> m, mm_enable |-> TRUE]
      BY <1>0, <2>2 DEF IInv, ReportInv, AtAuc, Tests
    <3>2. reportlist[k].dna = m /\ reportlist[k].auc = auc
      BY <3>1
    <3> QED
      BY <3>1, <3>2
  <2>3. \A e \in Written : e[2] # Nobody =>
          \E m \in Modules : AucOf[m] = auc /\ idOf[m] = e[1] /\ e[2].dna = m /\ e[2].auc = auc
    BY <2>2 DEF Written
  <2>4. ASSUME faults = 0, NEW m \in Modules, AucOf[m] = auc
        PROVE  \E e \in Written : e[2].dna = m
    <3>1. idOf[m] \in MM /\ reportlist[idOf[m]].dna = m
      BY <1>0, <2>4 DEF IInv, FoundInv, Found, Tests
    <3>2. <<idOf[m], reportlist[idOf[m]]>> \in Written
      BY <3>1 DEF Written
    <3> WITNESS <<idOf[m], reportlist[idOf[m]]>> \in Written
    <3> QED
      BY <3>1
  <2> QED
    BY <2>1, <2>3, <2>4
<1> QED
  BY <1>5, <1>6

-----------------------------------------------------------------------------
\* mm_detect sends: one more id is taken, or every module has one.
LEMMA DetectSendStep ==
  ASSUME CoreTestAssumption, IInv, DetectSend
  PROVE  IInv'
<1> DEFINE new == {m \in Modules : AucOf[m] = auc /\ idOf[m] = 0}
<1>0. /\ pc = "detect_send" /\ pc' = "detect_receive" /\ auc' = auc /\ i' = i /\ j' = j
      /\ miner_index' = miner_index /\ reportlist' = reportlist /\ log' = log /\ left' = left /\ quiet' = quiet
      /\ \/ \E m \in new : idOf' = [idOf EXCEPT ![m] = i] /\ faults' = faults
         \/ idOf' = idOf /\ ((new = {} /\ faults' = faults) \/ Fault)
  BY DEF DetectSend
<1>1. /\ faults' \in 0 .. MaxFaults /\ (faults' = 0 => faults = 0 /\ ~Fault)
      /\ i \in 1 .. AVA4_DEFAULT_MODULARS /\ auc < AucCnts
      /\ idOf \in [Modules -> 0 .. AVA4_DEFAULT_MODULARS - 1] /\ AVA4_DEFAULT_MODULARS \in Nat \ {0}
      /\ \A m \in Modules : AucOf[m] \in Nat
  BY <1>0, Ids DEF IInv, TypeOK, Fault, PlaceInv, AtAuc
<1>2. /\ \A m, o \in Modules : AucOf[m] = AucOf[o] /\ idOf[m] = idOf[o] /\ idOf[m] # 0 => m = o
      /\ \A m \in Modules : AucOf[m] > auc => idOf[m] = 0
      /\ \A n \in 1 .. i - 1 : \E m \in Modules : AucOf[m] = auc /\ idOf[m] = n
      /\ \A m \in Modules : AucOf[m] = auc => idOf[m] < i
  BY <1>0 DEF IInv, IdInv
<1>3. /\ PlaceInv' /\ LeftInv' /\ QuietInv'
  BY <1>0, <1>1 DEF IInv, PlaceInv, LeftInv, QuietInv, Tests, AtAuc
<1>4. ASSUME NEW m \in new, idOf' = [idOf EXCEPT ![m] = i], faults' = faults
      PROVE  IInv'
  <2>1. /\ m \in Modules /\ AucOf[m] = auc /\ idOf[m] = 0 /\ idOf'[m] = i
        /\ \A o \in Modules : o # m => idOf'[o] = idOf[o]
    BY <1>1, <1>4
  <2>2. \A n \in 1 .. i : \E o \in Modules : idOf'[o] = n /\ AucOf[o] = auc
    <3> TAKE n \in 1 .. i
    <3>1. CASE n = i
      BY <2>1, <3>1
    <3>2. CASE n # i
      <4>1. n \in 1 .. i - 1 /\ n # 0
        BY <1>1, <3>2
      <4>2. PICK o \in Modules : AucOf[o] = auc /\ idOf[o] = n
        BY <1>2, <4>1
      <4> QED
        BY <2>1, <4>1, <4>2
    <3> QED
      BY <3>1, <3>2
  <2>3. idOf' \in [Modules -> Nat]
    BY <1>1, <1>4
  <2>4. i < AVA4_DEFAULT_MODULARS
    BY <1>1, <2>2, <2>3, TakenIds
  <2>5. TypeOK'
    <3>1. idOf' \in [Modules -> 0 .. AVA4_DEFAULT_MODULARS - 1]
      BY <1>1, <1>4, <2>4
    <3> QED
      BY <1>0, <1>1, <3>1 DEF IInv, TypeOK
  <2>6. IdInv'
    <3>1. ASSUME NEW o \in Modules, NEW p \in Modules, AucOf[o] = AucOf[p], idOf'[o] = idOf'[p], idOf'[o] # 0
          PROVE  o = p
      <4>1. \A q \in Modules : AucOf[q] = auc => idOf[q] # i
        BY <1>1, <1>2
      <4> QED
        BY <1>2, <2>1, <3>1, <4>1
    <3>2. \A o \in Modules : AucOf[o] > auc => idOf'[o] = 0
      BY <1>1, <1>2, <2>1
    <3>3. \A o \in Modules : AucOf[o] = auc => idOf'[o] < i \/ idOf'[o] = i
      BY <1>2, <2>1
    <3>4. \A n \in 1 .. i - 1 : \E o \in Modules : AucOf[o] = auc /\ idOf'[o] = n
      BY <1>1, <2>2
    <3> QED
      BY <1>0, <3>1, <3>2, <3>3, <3>4 DEF IdInv
  <2>7. ReportInv'
    <3> SUFFICES ASSUME NEW k \in MM, reportlist[k] # Nobody
                 PROVE  \E o \in Modules : AucOf[o] = auc /\ idOf'[o] = k
                          /\ reportlist[k] = [auc |-> auc, dna |-> o, mm_enable |-> TRUE]
      BY <1>0 DEF ReportInv
    <3>1. PICK o \in Modules : AucOf[o] = auc /\ idOf[o] = k
                                /\ reportlist[k] = [auc |-> auc, dna |-> o, mm_enable |-> TRUE]
      BY <1>0 DEF IInv, ReportInv, AtAuc
    <3>2. k # 0
      BY Ids
    <3> QED
      BY <2>1, <3>1, <3>2
  <2>8. FoundInv'
    <3> SUFFICES ASSUME faults = 0, NEW o \in Modules, AucOf[o] = auc
                 PROVE  /\ idOf'[o] = 0 \/ idOf'[o] = i \/ Found(o)'
                        /\ Addressed' # {}
      BY <1>0, <1>4 DEF FoundInv, Tests
    <3>1. m \in Addressed'
      BY <1>0, <2>1 DEF Addressed
    <3>2. o # m => idOf[o] = 0 \/ Found(o)
      BY <1>0 DEF IInv, FoundInv
    <3> QED
      BY <1>0, <2>1, <3>1, <3>2 DEF Found
  <2> QED
    BY <1>3, <2>5, <2>6, <2>7, <2>8 DEF IInv
<1>5. ASSUME idOf' = idOf, (new = {} /\ faults' = faults) \/ Fault
      PROVE  IInv'
  <2>1. TypeOK'
    BY <1>0, <1>1, <1>5 DEF IInv, TypeOK
  <2>2. IdInv' /\ ReportInv'
    BY <1>0, <1>2, <1>5 DEF IInv, IdInv, ReportInv, AtAuc
  <2>3. FoundInv'
    <3> SUFFICES ASSUME faults = 0, new = {}, NEW o \in Modules, AucOf[o] = auc
                 PROVE  (idOf[o] = 0 \/ Found(o)) /\ idOf[o] # 0
      BY <1>0, <1>1, <1>5 DEF FoundInv, Tests, Found
    <3> QED
      BY <1>0 DEF IInv, FoundInv
  <2> QED
    BY <1>3, <2>1, <2>2, <2>3 DEF IInv
<1> QED
  BY <1>0, <1>4, <1>5

\* mm_detect receives: on to the next id, or to the first test.
LEMMA DetectReceiveStep ==
  ASSUME CoreTestAssumption, IInv, DetectReceive
  PROVE  IInv'
<1>0. /\ pc = "detect_receive" /\ auc' = auc /\ j' = j /\ miner_index' = miner_index /\ log' = log
      /\ idOf' = idOf /\ left' = left /\ quiet' = quiet
      /\ \/ /\ pc' = "detect_send" /\ i' = i + 1 /\ Addressed # {}
            /\ \/ Fault /\ reportlist' = reportlist
               \/ /\ faults' = faults
                  /\ \E m \in Addressed :
                       reportlist' = [reportlist EXCEPT ![i] = [auc |-> auc, dna |-> m, mm_enable |-> TRUE]]
         \/ ((Addressed = {} /\ faults' = faults) \/ Fault) /\ StartTest /\ reportlist' = reportlist
  BY DEF DetectReceive, deviceVars
<1>1. /\ faults' \in 0 .. MaxFaults /\ (faults' = 0 => faults = 0 /\ ~Fault)
      /\ i \in 1 .. AVA4_DEFAULT_MODULARS /\ auc < AucCnts /\ auc \in 0 .. AucCnts - 1
      /\ idOf \in [Modules -> 0 .. AVA4_DEFAULT_MODULARS - 1] /\ AVA4_DEFAULT_MODULARS \in Nat \ {0}
      /\ reportlist \in [MM -> Entries]
      /\ \A m \in Modules : AucOf[m] \in Nat /\ idOf[m] \in Nat
  BY <1>0, Ids DEF IInv, TypeOK, Fault, PlaceInv, AtAuc
<1>2. /\ \A m, o \in Modules : AucOf[m] = AucOf[o] /\ idOf[m] = idOf[o] /\ idOf[m] # 0 => m = o
      /\ \A m \in Modules : AucOf[m] > auc => idOf[m] = 0
      /\ \A n \in 1 .. i - 1 : \E m \in Modules : AucOf[m] = auc /\ idOf[m] = n
      /\ \A m \in Modules : AucOf[m] = auc => idOf[m] < i \/ idOf[m] = i
  BY <1>0 DEF IInv, IdInv
<1>3. \A k \in MM : \/ reportlist[k] = Nobody
                    \/ \E m \in Modules : AucOf[m] = auc /\ idOf[m] = k
                         /\ reportlist[k] = [auc |-> auc, dna |-> m, mm_enable |-> TRUE]
  BY <1>0 DEF IInv, ReportInv, AtAuc
<1>4. faults = 0 => \A m \in Modules : left[m] = 0
  BY <1>0 DEF IInv, LeftInv
<1>5. \A k \in MM : quiet[k] = 0
  BY <1>0 DEF IInv, QuietInv, Tests
<1>6. faults = 0 => \A m \in Modules : AucOf[m] = auc =>
                      (idOf[m] = 0 \/ idOf[m] = i \/ Found(m)) /\ (Addressed = {} => idOf[m] # 0)
  BY <1>0 DEF IInv, FoundInv
<1>7. CASE pc' = "detect_send" /\ i' = i + 1 /\ Addressed # {}
  <2>1. \A n \in 1 .. i : \E o \in Modules : idOf[o] = n /\ AucOf[o] = auc
    <3> TAKE n \in 1 .. i
    <3>1. CASE n = i
      BY <1>7, <3>1 DEF Addressed
    <3>2. CASE n # i
      BY <1>1, <1>2, <3>2
    <3> QED
      BY <3>1, <3>2
  <2>2. i < AVA4_DEFAULT_MODULARS
    <3>1. idOf \in [Modules -> Nat] /\ i \in Nat
      BY <1>1
    <3> QED
      BY <2>1, <3>1, TakenIds
  <2>3. i \in MM /\ i' \in 1 .. AVA4_DEFAULT_MODULARS /\ i' - 1 = i
    BY <1>1, <1>7, <2>2 DEF MM
  <2>4. IdInv'
    <3>1. \A m \in Modules : AucOf[m] = auc => idOf[m] < i'
      BY <1>1, <1>2, <1>7
    <3> QED
      BY <1>0, <1>2, <1>7, <2>1, <2>3, <3>1 DEF IdInv
  <2>5. PlaceInv' /\ LeftInv' /\ QuietInv'
    BY <1>0, <1>1, <1>4, <1>5, <1>7 DEF PlaceInv, LeftInv, QuietInv, Tests, AtAuc
  <2>6. CASE Fault /\ reportlist' = reportlist
    <3>1. TypeOK' /\ ReportInv' /\ FoundInv'
      BY <1>0, <1>1, <1>3, <1>7, <2>3, <2>6 DEF IInv, TypeOK, ReportInv, FoundInv
    <3> QED
      BY <2>4, <2>5, <3>1 DEF IInv
  <2>7. ASSUME NEW m \in Addressed, faults' = faults,
               reportlist' = [reportlist EXCEPT ![i] = [auc |-> auc, dna |-> m, mm_enable |-> TRUE]]
        PROVE  IInv'
    <3>1. m \in Modules /\ AucOf[m] = auc /\ idOf[m] = i
      BY DEF Addressed
    <3>2. /\ reportlist' \in [MM -> Entries]
          /\ reportlist'[i] = [auc |-> auc, dna |-> m, mm_enable |-> TRUE]
          /\ \A k \in MM : k # i => reportlist'[k] = reportlist[k]
      BY <1>1, <2>3, <2>7, <3>1, ReportTypes
    <3>3. TypeOK'
      BY <1>0, <1>1, <1>7, <2>3, <3>2 DEF IInv, TypeOK
    <3>4. ReportInv'
      <4> SUFFICES ASSUME NEW k \in MM, reportlist'[k] # Nobody
                   PROVE  \E o \in Modules : AucOf[o] = auc /\ idOf[o] = k
                            /\ reportlist'[k] = [auc |-> auc, dna |-> o, mm_enable |-> TRUE]
        BY <1>0 DEF ReportInv
      <4>1. CASE k = i
        <5>1. reportlist'[k] = [auc |-> auc, dna |-> m, mm_enable |-> TRUE]
          BY <3>2, <4>1
        <5>2. m \in Modules /\ AucOf[m] = auc /\ idOf[m] = k
          BY <3>1, <4>1
        <5>3. m \in Modules
          BY <5>2
        <5> WITNESS m \in Modules
        <5> QED
          BY <5>1, <5>2
      <4>2. CASE k # i
        <5>1. reportlist'[k] = reportlist[k]
          BY <3>2, <4>2
        <5>2. PICK o \in Modules : AucOf[o] = auc /\ idOf[o] = k
                                    /\ reportlist[k] = [auc |-> auc, dna |-> o, mm_enable |-> TRUE]
          BY <1>3, <5>1
        <5> WITNESS o \in Modules
        <5> QED
          BY <5>1, <5>2
      <4> QED
        BY <4>1, <4>2
    <3>5. FoundInv'
      <4> SUFFICES ASSUME faults = 0, NEW o \in Modules, AucOf[o] = auc
                   PROVE  idOf[o] = 0 \/ Found(o)'
        BY <1>0, <1>7, <2>7 DEF FoundInv, Tests
      <4>1. CASE idOf[o] = i
        <5>1. o = m
          BY <1>1, <1>2, <3>1, <4>1
        <5>2. reportlist'[i].dna = m
          BY <3>2
        <5> QED
          BY <1>0, <2>3, <3>1, <5>1, <5>2 DEF Found
      <4>2. CASE idOf[o] # i /\ idOf[o] # 0
        <5>1. Found(o)
          BY <1>6, <4>2
        <5> QED
          BY <1>0, <3>2, <4>2, <5>1 DEF Found
      <4> QED
        BY <4>1, <4>2
    <3> QED
      BY <2>4, <2>5, <3>3, <3>4, <3>5 DEF IInv
  <2> QED
    BY <1>0, <1>7, <2>6, <2>7 DEF StartTest
<1>8. CASE ((Addressed = {} /\ faults' = faults) \/ Fault) /\ StartTest /\ reportlist' = reportlist
  <2>1. /\ i' = FirstFrom(1, Enabled) /\ i' \in 1 .. AVA4_DEFAULT_MODULARS
        /\ pc' = (IF i' \in MM THEN "test_send" ELSE "report") /\ (i' \in MM <=> i' \in Enabled)
    BY <1>8, FirstFound, EnabledIds DEF StartTest
  <2>2. Enabled' = Enabled /\ pc' \in {"test_send", "report"}
    BY <1>8, <2>1 DEF Enabled
  <2>3. TypeOK'
    BY <1>0, <1>1, <1>8, <2>1, <2>2 DEF IInv, TypeOK
  <2>4. PlaceInv' /\ LeftInv'
    BY <1>0, <1>1, <1>4, <2>1, <2>2 DEF PlaceInv, LeftInv
  <2>5. IdInv' /\ ReportInv'
    BY <1>0, <1>2, <1>3, <1>8, <2>2 DEF IdInv, ReportInv
  <2>6. FoundInv'
    <3> SUFFICES ASSUME faults' = 0, NEW m \in Modules, AucOf[m] = auc
                 PROVE  Found(m)
      BY <1>0, <1>8, <2>2 DEF FoundInv, Found
    <3>1. faults = 0 /\ Addressed = {}
      BY <1>1, <1>8
    <3>2. idOf[m] # i
      BY <3>1 DEF Addressed
    <3> QED
      BY <1>6, <3>1, <3>2
  <2>7. QuietInv'
    <3> SUFFICES ASSUME NEW k \in Enabled PROVE QuietOf(k)'
      BY <2>2 DEF QuietInv, Tests
    <3>1. quiet'[k] = 0
      BY <1>0, <1>5, EnabledIds
    <3>2. Ahead(k)' \in Nat
      BY <2>2, BetweenTypes, EnabledIds DEF Ahead
    <3> QED
      BY <2>2, <3>1, <3>2 DEF QuietOf
  <2> QED
    BY <2>3, <2>4, <2>5, <2>6, <2>7 DEF IInv
<1> QED
  BY <1>0, <1>7, <1>8

-----------------------------------------------------------------------------
\* While mm_test runs, the ids and the list stay as they are.
LEMMA TestKeeps ==
  ASSUME IInv, pc \in Tests, pc' \in Tests, UNCHANGED <<auc, reportlist, idOf>>, faults' = 0 => faults = 0
  PROVE  IdInv' /\ ReportInv' /\ FoundInv' /\ Enabled' = Enabled
<1>0. /\ auc' = auc /\ reportlist' = reportlist /\ idOf' = idOf
      /\ pc \in AtAuc /\ pc \notin {"jansson_test", "open", "detect_send", "detect_receive"}
      /\ pc' \in AtAuc /\ pc' \notin {"jansson_test", "open", "detect_send", "detect_receive"}
  BY DEF Tests, AtAuc
<1>1. IdInv' /\ ReportInv'
  <2>1. IdInv'
    BY <1>0 DEF IInv, IdInv
  <2>2. ReportInv'
    <3> SUFFICES ASSUME NEW k \in MM, reportlist[k] # Nobody
                 PROVE  \E m \in Modules : AucOf[m] = auc /\ idOf[m] = k
                          /\ reportlist[k] = [auc |-> auc, dna |-> m, mm_enable |-> TRUE]
      BY <1>0 DEF ReportInv
    <3> QED
      BY <1>0 DEF IInv, ReportInv
  <2> QED
    BY <2>1, <2>2
<1>2. FoundInv'
  <2> SUFFICES ASSUME faults' = 0, NEW m \in Modules, AucOf[m] = auc
               PROVE  Found(m)'
    BY <1>0 DEF FoundInv
  <2>1. Found(m)
    BY DEF IInv, FoundInv
  <2> QED
    BY <1>0, <2>1 DEF Found
<1>3. Enabled' = Enabled
  BY <1>0 DEF Enabled
<1> QED
  BY <1>1, <1>2, <1>3

\* Everybody but the one that is addressed is quiet for one transfer more.
LEMMA Heard ==
  ASSUME IInv, NEW a, Hears(a)
  PROVE  /\ quiet' \in [MM -> Nat]
         /\ \A k \in Enabled : quiet[k] \in Nat /\ quiet'[k] = IF k = a THEN 0 ELSE quiet[k] + 1
<1>1. quiet \in [MM -> Nat]
  BY DEF IInv, TypeOK
<1> QED
  BY <1>1, EnabledIds DEF Hears

\* mm_test sends TEST.
LEMMA TestSendStep ==
  ASSUME CoreTestAssumption, IInv, TestSend
  PROVE  IInv'
<1>0. /\ pc = "test_send" /\ pc' = "test_receive" /\ miner_index' = 0 /\ Hears(i)
      /\ auc' = auc /\ i' = i /\ j' = j /\ reportlist' = reportlist /\ log' = log /\ idOf' = idOf
      /\ \/ /\ left' = [m \in Modules |-> IF m \in Addressed THEN AVA4_DEFAULT_MINERS + 1 ELSE left[m]]
            /\ faults' = faults
         \/ left' = left /\ Fault
  BY DEF TestSend
<1>1. /\ faults' \in 0 .. MaxFaults /\ (faults' = 0 => faults = 0 /\ ~Fault)
      /\ left' \in [Modules -> 0 .. AVA4_DEFAULT_MINERS + 1] /\ AVA4_DEFAULT_MINERS \in Nat
      /\ auc < AucCnts /\ i \in Enabled
  BY <1>0, Ids DEF IInv, TypeOK, Fault, PlaceInv, AtAuc, Tests
<1>2. TypeOK'
  BY <1>0, <1>1, Heard DEF IInv, TypeOK
<1>3. IdInv' /\ ReportInv' /\ FoundInv' /\ Enabled' = Enabled
  BY <1>0, <1>1, TestKeeps DEF Tests
<1>4. PlaceInv'
  BY <1>0, <1>1, <1>3 DEF PlaceInv
<1>5. LeftInv'
  <2> SUFFICES ASSUME faults = 0, NEW m \in Modules,
                      left' = [o \in Modules |-> IF o \in Addressed THEN AVA4_DEFAULT_MINERS + 1 ELSE left[o]]
               PROVE  left'[m] = IF m \in Addressed THEN AVA4_DEFAULT_MINERS + 1 - 0 ELSE 0
    <3>1. Addressed' = Addressed
      BY <1>0 DEF Addressed
    <3> QED
      BY <1>0, <1>1, <3>1 DEF LeftInv
  <2>1. left[m] = 0
    BY <1>0 DEF IInv, LeftInv
  <2> QED
    BY <1>1, <2>1
<1>6. QuietInv'
  <2> SUFFICES ASSUME NEW k \in Enabled PROVE QuietOf(k)'
    BY <1>0, <1>3 DEF QuietInv, Tests
  <2>1. quiet[k] \in Nat /\ quiet'[k] = IF k = i THEN 0 ELSE quiet[k] + 1
    BY <1>0, Heard
  <2>2. quiet[k] <= Ahead(k) + 1
    BY <1>0 DEF IInv, QuietInv, QuietOf, Tests
  <2>3. Ahead(k)' = Ahead(k) /\ Others' = Others
    BY <1>0, <1>3 DEF Ahead, Others
  <2>4. Ahead(k) \in Nat /\ Between(Others, 0, AVA4_DEFAULT_MODULARS) \in Nat
    BY BetweenTypes, EnabledIds DEF Ahead
  <2>5. k # i => quiet'[k] <= Ahead(k) + 2
    BY <2>1, <2>2, <2>4
  <2>6. k = i => quiet'[k] <= Between(Others, 0, AVA4_DEFAULT_MODULARS)
    BY <2>1, <2>4
  <2> QED
    BY <1>0, <2>3, <2>5, <2>6 DEF QuietOf
<1> QED
  BY <1>2, <1>3, <1>4, <1>5, <1>6 DEF IInv

\* mm_test has received, or not: the next test, the report, or a round of FINISH.
LEMMA Received ==
  ASSUME CoreTestAssumption, IInv, pc = "test_receive", Hears(i), AfterReceive,
         UNCHANGED <<auc, reportlist, idOf>>, miner_index' \in {miner_index, miner_index + 1}
  PROVE  /\ i' \in 1 .. AVA4_DEFAULT_MODULARS /\ j' \in 1 .. AVA4_DEFAULT_MODULARS
         /\ miner_index' \in 0 .. AVA4_DEFAULT_MINERS + 1 /\ quiet' \in [MM -> Nat]
         /\ PlaceInv' /\ QuietInv'
         /\ \/ miner_index' = AVA4_DEFAULT_MINERS + 1 /\ pc' \in {"test_send", "report"}
            \/ miner_index' <= AVA4_DEFAULT_MINERS /\ i' = i /\ pc' \in {"keep", "test_receive"}
<1>0. /\ miner_index \in Nat /\ miner_index <= AVA4_DEFAULT_MINERS /\ AVA4_DEFAULT_MINERS \in Nat \ {0}
      /\ i \in Enabled /\ i \in MM /\ i \in Nat /\ auc < AucCnts
      /\ i \in 1 .. AVA4_DEFAULT_MODULARS /\ j \in 1 .. AVA4_DEFAULT_MODULARS
  BY Ids, EnabledIds DEF IInv, TypeOK, PlaceInv, AtAuc, Tests
<1>1. /\ quiet' \in [MM -> Nat] /\ Enabled' = Enabled /\ auc' = auc
      /\ \A k \in Enabled : quiet[k] \in Nat /\ quiet'[k] = IF k = i THEN 0 ELSE quiet[k] + 1
  BY Heard DEF Enabled
<1>2. \A k \in Enabled : Ahead(k)' = Ahead(k) /\ Ahead(k) \in Nat
  BY <1>1, BetweenTypes, EnabledIds DEF Ahead
<1>3. \A k \in Enabled : k # i => quiet[k] <= Ahead(k) + 2 /\ (miner_index > 0 => quiet[k] <= Ahead(k))
  BY DEF IInv, QuietInv, QuietOf, Tests
<1>4. CASE Complete(miner_index')
  <2>1. /\ i' = FirstFrom(i + 1, Enabled) /\ j' = j
        /\ pc' = IF FirstFrom(i + 1, Enabled) \in MM THEN "test_send" ELSE "report"
    BY <1>4 DEF AfterReceive
  <2>2. i' \in 1 .. AVA4_DEFAULT_MODULARS /\ (i' \in MM <=> i' \in Enabled)
    <3>1. i + 1 \in Nat
      BY <1>0
    <3> QED
      BY <2>1, <3>1, FirstFound, EnabledIds
  <2>3. miner_index' = AVA4_DEFAULT_MINERS + 1 /\ miner_index > 0
    BY <1>0, <1>4 DEF Complete
  <2>4. PlaceInv'
    BY <1>0, <1>1, <2>1, <2>2 DEF PlaceInv
  <2>5. QuietInv'
    <3> SUFFICES ASSUME NEW k \in Enabled PROVE QuietOf(k)'
      BY <1>1, <2>1 DEF QuietInv, Tests
    <3>1. quiet'[k] <= Ahead(k) + 1
      BY <1>1, <1>2, <1>3, <2>3
    <3> QED
      BY <1>2, <2>1, <3>1 DEF QuietOf
  <2> QED
    BY <1>0, <1>1, <2>1, <2>2, <2>3, <2>4, <2>5
<1>5. CASE ~Complete(miner_index')
  <2>1. /\ i' = i /\ j' = FirstFrom(1, Others)
        /\ pc' = IF FirstFrom(1, Others) \in MM THEN "keep" ELSE "test_receive"
    BY <1>5 DEF AfterReceive
  <2>2. /\ j' \in 1 .. AVA4_DEFAULT_MODULARS /\ (j' \in MM <=> j' \in Others)
        /\ \A n \in Others : n >= 1 => j' <= n
        /\ Between(Others, 0, j') = 0
    <3>1. 0 + 1 = 1 /\ 1 \in Nat /\ 0 \in Nat
      OBVIOUS
    <3> QED
      BY <2>1, <3>1, FirstFound, EnabledIds, BetweenSteps
  <2>3. miner_index' \in 0 .. AVA4_DEFAULT_MINERS
    BY <1>0, <1>5 DEF Complete
  <2>4. Others' = Others
    BY <1>1, <2>1 DEF Others
  <2>5. PlaceInv'
    BY <1>0, <1>1, <2>1, <2>2, <2>3, <2>4 DEF PlaceInv
  <2>6. QuietInv'
    <3> SUFFICES ASSUME NEW k \in Enabled PROVE QuietOf(k)'
      BY <1>1, <2>1 DEF QuietInv, Tests
    <3>0. k \in Nat /\ k >= 1 /\ k \in MM /\ j' \in Nat
      BY <2>2, Ids, EnabledIds
    <3>1. CASE k = i
      <4>1. quiet'[k] = 0
        BY <1>1, <3>1
      <4>2. Between(Others, 0, AVA4_DEFAULT_MODULARS) \in Nat
        BY BetweenTypes, EnabledIds
      <4>3. quiet'[k] <= Between(Others', 0, AVA4_DEFAULT_MODULARS) /\ quiet'[k] <= Between(Others', 0, j')
        BY <2>2, <2>4, <4>1, <4>2
      <4> QED
        BY <2>1, <3>1, <4>3 DEF QuietOf
    <3>2. CASE k # i
      <4>1. k \in Others /\ j' <= k
        BY <2>2, <3>0, <3>2 DEF Others
      <4>2. pc' = "keep"
        <5>1. j' \in Others
          BY <2>2, <3>0, <4>1, FirstFound, EnabledIds, Ids, <2>1
        <5> QED
          BY <2>1, <2>2, <5>1
      <4>3. quiet'[k] <= Ahead(k) + 3 + 0
        BY <1>1, <1>2, <1>3, <3>2
      <4>4. ~(k < j')
        BY <3>0, <4>1
      <4> QED
        BY <1>2, <2>1, <2>2, <2>4, <3>2, <4>2, <4>3, <4>4 DEF QuietOf
    <3> QED
      BY <3>1, <3>2
  <2> QED
    BY <1>0, <1>1, <2>1, <2>2, <2>3, <2>5, <2>6
<1> QED
  BY <1>4, <1>5

\* What a module still has to answer, once it has answered or been waited for in vain.
LEMMA AnsweredStep ==
  ASSUME CoreTestAssumption, IInv, TestAnswered
  PROVE  IInv'
<1>0. /\ pc = "test_receive" /\ miner_index' = miner_index + 1 /\ Hears(i) /\ AfterReceive
      /\ auc' = auc /\ reportlist' = reportlist /\ log' = log /\ idOf' = idOf /\ faults' = faults
      /\ \E m \in Owing : left' = [left EXCEPT ![m] = @ - 1]
  BY DEF TestAnswered
<1>1. PICK m \in Owing : left' = [left EXCEPT ![m] = @ - 1]
  BY <1>0
<1>2. m \in Modules /\ m \in Addressed /\ left[m] > 0
  BY DEF Owing, Addressed
<1>3. /\ left \in [Modules -> 0 .. AVA4_DEFAULT_MINERS + 1] /\ AVA4_DEFAULT_MINERS \in Nat
      /\ miner_index \in 0 .. AVA4_DEFAULT_MINERS + 1 /\ i # 0
  BY Ids DEF IInv, TypeOK
<1>4. /\ left' \in [Modules -> 0 .. AVA4_DEFAULT_MINERS + 1] /\ left'[m] = left[m] - 1
      /\ \A o \in Modules : o # m => left'[o] = left[o]
  BY <1>1, <1>2, <1>3
<1>5. /\ i' \in 1 .. AVA4_DEFAULT_MODULARS /\ j' \in 1 .. AVA4_DEFAULT_MODULARS
      /\ miner_index' \in 0 .. AVA4_DEFAULT_MINERS + 1 /\ quiet' \in [MM -> Nat]
      /\ PlaceInv' /\ QuietInv'
      /\ \/ miner_index' = AVA4_DEFAULT_MINERS + 1 /\ pc' \in {"test_send", "report"}
         \/ miner_index' <= AVA4_DEFAULT_MINERS /\ i' = i /\ pc' \in {"keep", "test_receive"}
  BY <1>0, Received
<1>6. TypeOK'
  BY <1>0, <1>4, <1>5 DEF IInv, TypeOK
<1>7. IdInv' /\ ReportInv' /\ FoundInv'
  BY <1>0, <1>5, TestKeeps DEF Tests
<1>8. LeftInv'
  <2> SUFFICES ASSUME faults = 0, NEW o \in Modules
               PROVE  left'[o] = IF pc' \in {"test_receive", "keep"} /\ o \in Addressed'
                                   THEN AVA4_DEFAULT_MINERS + 1 - miner_index' ELSE 0
    BY <1>0 DEF LeftInv
  <2>1. /\ m \in Addressed => left[m] = AVA4_DEFAULT_MINERS + 1 - miner_index
        /\ o \in Addressed => left[o] = AVA4_DEFAULT_MINERS + 1 - miner_index
        /\ o \notin Addressed => left[o] = 0
    BY <1>0, <1>2 DEF IInv, LeftInv
  <2>2. o \in Addressed => o = m
    BY <1>2, <1>3 DEF IInv, IdInv, Addressed
  <2>3. left'[m] = AVA4_DEFAULT_MINERS + 1 - miner_index'
    BY <1>0, <1>2, <1>3, <1>4, <2>1
  <2>4. o # m => o \notin Addressed /\ left'[o] = 0
    BY <1>4, <2>1, <2>2
  <2>5. CASE miner_index' = AVA4_DEFAULT_MINERS + 1 /\ pc' \in {"test_send", "report"}
    BY <1>3, <2>3, <2>4, <2>5
  <2>6. CASE i' = i /\ pc' \in {"keep", "test_receive"}
    <3>1. Addressed' = Addressed
      BY <1>0, <2>6 DEF Addressed
    <3> QED
      BY <1>2, <2>3, <2>4, <2>6, <3>1
  <2> QED
    BY <1>5, <2>5, <2>6
<1> QED
  BY <1>5, <1>6, <1>7, <1>8 DEF IInv

LEMMA SilentStep ==
  ASSUME CoreTestAssumption, IInv, TestSilent
  PROVE  IInv'
<1>0. /\ pc = "test_receive" /\ miner_index' = miner_index /\ Hears(i) /\ AfterReceive
      /\ auc' = auc /\ reportlist' = reportlist /\ log' = log /\ idOf' = idOf
      /\ \/ left' = left /\ faults' = faults
         \/ (\E m \in Owing : left' = [left EXCEPT ![m] = @ - 1]) /\ Fault
  BY DEF TestSilent
<1>1. /\ faults' \in 0 .. MaxFaults /\ (faults' = 0 => faults = 0 /\ ~Fault)
      /\ left \in [Modules -> 0 .. AVA4_DEFAULT_MINERS + 1] /\ AVA4_DEFAULT_MINERS \in Nat
      /\ miner_index <= AVA4_DEFAULT_MINERS
  BY <1>0, Ids DEF IInv, TypeOK, Fault, PlaceInv
<1>2. left' \in [Modules -> 0 .. AVA4_DEFAULT_MINERS + 1]
  BY <1>0, <1>1 DEF Owing, Addressed
<1>3. /\ i' \in 1 .. AVA4_DEFAULT_MODULARS /\ j' \in 1 .. AVA4_DEFAULT_MODULARS
      /\ miner_index' \in 0 .. AVA4_DEFAULT_MINERS + 1 /\ quiet' \in [MM -> Nat]
      /\ PlaceInv' /\ QuietInv'
      /\ \/ miner_index' = AVA4_DEFAULT_MINERS + 1 /\ pc' \in {"test_send", "report"}
         \/ miner_index' <= AVA4_DEFAULT_MINERS /\ i' = i /\ pc' \in {"keep", "test_receive"}
  BY <1>0, Received
<1>4. i' = i /\ pc' \in {"keep", "test_receive"}
  BY <1>0, <1>1, <1>3
<1>5. TypeOK'
  BY <1>0, <1>1, <1>2, <1>3, <1>4 DEF IInv, TypeOK
<1>6. IdInv' /\ ReportInv' /\ FoundInv'
  BY <1>0, <1>1, <1>4, TestKeeps DEF Tests
<1>7. LeftInv'
  <2>1. Addressed' = Addressed
    BY <1>0, <1>4 DEF Addressed
  <2> QED
    BY <1>0, <1>1, <1>4, <2>1 DEF IInv, LeftInv
<1> QED
  BY <1>3, <1>5, <1>6, <1>7 DEF IInv

\* mm_test sends FINISH to the next of the others.
LEMMA KeepAliveStep ==
  ASSUME CoreTestAssumption, IInv, KeepAlive
  PROVE  IInv'
<1>0. /\ pc = "keep" /\ j' = FirstFrom(j + 1, Others)
      /\ pc' = (IF j' \in MM THEN "keep" ELSE "test_receive") /\ Hears(j)
      /\ auc' = auc /\ i' = i /\ miner_index' = miner_index /\ reportlist' = reportlist /\ log' = log
      /\ idOf' = idOf /\ left' = left /\ faults' = faults
  BY DEF KeepAlive, deviceVars
<1>1. /\ i \in Enabled /\ j \in Others /\ j \in Nat /\ j >= 1 /\ miner_index <= AVA4_DEFAULT_MINERS
      /\ auc < AucCnts
  BY <1>0, Ids, EnabledIds DEF IInv, PlaceInv, AtAuc, Tests
<1>2. /\ j' \in 1 .. AVA4_DEFAULT_MODULARS /\ (j' \in MM <=> j' \in Others)
      /\ (j' \in Others => j' >= j + 1) /\ (j' \notin Others => j' = AVA4_DEFAULT_MODULARS)
      /\ \A n \in Others : n >= j + 1 => j' <= n
      /\ Between(Others, j, j') = 0
      /\ \A n \in Nat : n < j => Between(Others, n, j') = Between(Others, n, j) + 1
  <2>1. j + 1 \in Nat
    BY <1>1
  <2>2. /\ j' \in 1 .. AVA4_DEFAULT_MODULARS /\ (j' \in MM <=> j' \in Others)
        /\ (j' \in Others => j' >= j + 1) /\ (j' \notin Others => j' = AVA4_DEFAULT_MODULARS)
        /\ \A n \in Others : n >= j + 1 => j' <= n
    BY <1>0, <2>1, FirstFound, EnabledIds
  <2>3. /\ Between(Others, j, j') = 0
        /\ \A n \in Nat : n < j => Between(Others, n, j') = Between(Others, n, j) + 1
    BY <1>0, <1>1, BetweenSteps, EnabledIds
  <2> QED
    BY <2>2, <2>3
<1>3. pc' \in Tests /\ pc \in Tests
  BY <1>0 DEF Tests
<1>4. IdInv' /\ ReportInv' /\ FoundInv' /\ Enabled' = Enabled /\ Others' = Others /\ Addressed' = Addressed
  BY <1>0, <1>3, TestKeeps DEF Others, Addressed
<1>5. TypeOK'
  BY <1>0, <1>2, Heard DEF IInv, TypeOK
<1>6. PlaceInv'
  BY <1>0, <1>1, <1>2, <1>4 DEF PlaceInv
<1>7. LeftInv'
  BY <1>0, <1>4 DEF IInv, LeftInv
<1>8. QuietInv'
  <2> SUFFICES ASSUME NEW k \in Enabled PROVE QuietOf(k)'
    BY <1>3, <1>4 DEF QuietInv
  <2>0. k \in Nat /\ k >= 1 /\ j' \in Nat /\ k < AVA4_DEFAULT_MODULARS
    BY <1>2, Ids, EnabledIds
  <2>1. quiet[k] \in Nat /\ quiet'[k] = IF k = j THEN 0 ELSE quiet[k] + 1
    BY <1>0, Heard
  <2>2. /\ k = i => quiet[k] <= Between(Others, 0, j)
        /\ k # i /\ k < j => quiet[k] <= Between(Others, k, j)
        /\ k # i /\ k >= j => quiet[k] <= Ahead(k) + 3 + Between(Others, 0, j)
    BY <1>0 DEF IInv, QuietInv, QuietOf, Tests
  <2>3. /\ Ahead(k)' = Ahead(k) /\ Ahead(k) \in Nat
        /\ Between(Others, 0, j) \in Nat /\ Between(Others, k, j) \in Nat
        /\ Between(Others, k, AVA4_DEFAULT_MODULARS) \in Nat
        /\ Between(Others, k, AVA4_DEFAULT_MODULARS) <= Ahead(k)
    BY <1>4, BetweenTypes, EnabledIds DEF Ahead
  <2>4. j # i /\ Between(Others, 0, j') = Between(Others, 0, j) + 1
    BY <1>1, <1>2 DEF Others
  <2>5. k = i => quiet'[k] <= Between(Others, 0, j')
    BY <2>1, <2>2, <2>3, <2>4
  <2>6. k # i /\ k <= j => quiet'[k] <= Between(Others, k, j')
    <3>1. CASE k = j
      BY <1>2, <2>1, <3>1
    <3>2. CASE k # j /\ k # i /\ k <= j
      <4>1. k < j
        BY <1>1, <2>0, <3>2
      <4>2. Between(Others, k, j') = Between(Others, k, j) + 1
        BY <1>2, <2>0, <4>1
      <4> QED
        BY <2>1, <2>2, <2>3, <3>2, <4>1, <4>2
    <3> QED
      BY <3>1, <3>2
  <2>7. k # i /\ k > j => quiet'[k] <= Ahead(k) + 3 + Between(Others, 0, j')
    BY <1>1, <2>0, <2>1, <2>2, <2>3, <2>4
  <2>8. CASE pc' = "keep"
    <3>1. j' \in Others /\ j' >= j + 1
      BY <1>0, <1>2, <2>8
    <3>2. k # i /\ k > j => j' <= k
      BY <1>1, <1>2, <2>0 DEF Others
    <3>3. k # i /\ k < j' => k <= j
      BY <1>1, <2>0, <3>2
    <3>4. k # i /\ k >= j' => k > j
      BY <1>1, <2>0, <3>1
    <3> QED
      BY <1>0, <1>4, <2>3, <2>5, <2>6, <2>7, <2>8, <3>3, <3>4 DEF QuietOf
  <2>9. CASE pc' = "test_receive"
    <3>1. j' = AVA4_DEFAULT_MODULARS
      BY <1>0, <1>2, <2>9
    <3>2. k # i => k <= j
      <4>1. k # i /\ k > j => j' <= k
        BY <1>1, <1>2, <2>0 DEF Others
      <4> QED
        BY <1>1, <2>0, <3>1, <4>1
    <3>3. k # i => quiet'[k] <= Ahead(k) /\ quiet'[k] <= Ahead(k) + 2
      BY <2>1, <2>3, <2>6, <3>1, <3>2
    <3> QED
      BY <1>0, <1>4, <2>3, <2>5, <2>9, <3>1, <3>3 DEF QuietOf
  <2> QED
    BY <1>0, <2>8, <2>9
<1> QED
  BY <1>4, <1>5, <1>6, <1>7, <1>8 DEF IInv

-----------------------------------------------------------------------------
\* Every step preserves the invariant.
LEMMA Preserved ==
  ASSUME CoreTestAssumption, IInv, [Next]_vars
  PROVE  IInv'
<1>1. CASE jansson_test \/ Open \/ Return
  BY <1>1, JanssonStep, OpenStep, ReturnStep
<1>2. CASE DetectSend \/ DetectReceive
  BY <1>2, DetectSendStep, DetectReceiveStep
<1>3. CASE TestSend \/ TestAnswered \/ TestSilent \/ KeepAlive
  BY <1>3, TestSendStep, AnsweredStep, SilentStep, KeepAliveStep
<1>4. CASE Report
  BY <1>4, ReportStep
<1>5. CASE UNCHANGED vars
  <2>0. /\ pc' = pc /\ auc' = auc /\ i' = i /\ j' = j /\ miner_index' = miner_index /\ reportlist' = reportlist
        /\ log' = log /\ idOf' = idOf /\ left' = left /\ quiet' = quiet /\ faults' = faults
    BY <1>5 DEF vars, toolVars, deviceVars
  <2>1. Enabled' = Enabled /\ Others' = Others /\ Addressed' = Addressed
    BY <2>0 DEF Enabled, Others, Addressed
  <2>2. TypeOK' /\ PlaceInv' /\ IdInv' /\ ReportInv'
    BY <2>0, <2>1 DEF IInv, TypeOK, PlaceInv, IdInv, ReportInv
  <2>3. FoundInv' /\ LeftInv' /\ QuietInv'
    BY <2>0, <2>1 DEF IInv, FoundInv, Found, LeftInv, QuietInv, QuietOf, Ahead
  <2> QED
    BY <2>2, <2>3 DEF IInv
<1> QED
  BY <1>1, <1>2, <1>3, <1>4, <1>5 DEF Next

\* Tests run one by one.
LEMMA OneAtATime == ASSUME CoreTestAssumption, IInv PROVE OneByOne
<1> SUFFICES ASSUME faults = 0
             PROVE  /\ Cardinality(Testing) <= 1
                    /\ pc \in {"test_send", "report", "open"} => Testing = {}
  BY DEF OneByOne
<1>1. \A m \in Testing : pc \in {"test_receive", "keep"} /\ m \in Addressed
  BY DEF IInv, LeftInv, Testing
<1>2. \A m, o \in Testing : m = o
  <2>1. i # 0
    BY Ids DEF IInv, TypeOK
  <2> QED
    BY <1>1, <2>1 DEF IInv, IdInv, Addressed, Testing
<1>3. CASE Testing = {}
  BY <1>3, FS_EmptySet
<1>4. CASE Testing # {}
  <2>1. PICK m \in Testing : TRUE
    BY <1>4
  <2>2. Testing = {m}
    BY <1>2, <2>1
  <2> QED
    BY <1>1, <2>1, <2>2, FS_Singleton
<1> QED
  BY <1>3, <1>4

\* No module that was detected is forgotten.
LEMMA NoneForgotten == ASSUME CoreTestAssumption, IInv PROVE KeptWorking
<1> SUFFICES ASSUME NEW k \in Enabled
             PROVE  quiet[k] <= Cardinality(Enabled) + 2
  BY DEF KeptWorking
<1>1. k \in MM /\ k \in Nat /\ quiet[k] \in Nat /\ j \in Nat
  BY Ids, EnabledIds DEF IInv, TypeOK
<1>2. /\ Cardinality(Enabled) \in Nat /\ Cardinality(Others) <= Cardinality(Enabled) /\ Cardinality(Others) \in Nat
      /\ Ahead(k) \in Nat /\ Ahead(k) <= Cardinality(Enabled)
      /\ \A a, b : Between(Others, a, b) \in Nat /\ Between(Others, a, b) <= Cardinality(Others)
  <2>1. IsFiniteSet(Enabled) /\ Others \in SUBSET Enabled
    BY Ids, EnabledIds
  <2> QED
    BY <2>1, BetweenTypes, EnabledIds, FS_Subset, FS_CardinalityType DEF Ahead
<1>3. Ahead(k) + 1 <= Cardinality(Enabled)
  <2>1. 0 \in Nat /\ 0 <= k
    BY <1>1
  <2>2. Ahead(k) + Between(Enabled, 0, 0) + 1 <= Cardinality(Enabled) /\ Between(Enabled, 0, 0) \in Nat
    BY <2>1, BetweenAll, BetweenTypes, EnabledIds DEF Ahead
  <2> QED
    BY <1>2, <2>2
<1>4. CASE pc \notin Tests
  BY <1>1, <1>2, <1>4 DEF IInv, QuietInv
<1>5. CASE pc \in Tests /\ ~(pc = "keep" /\ k # i /\ k >= j)
  <2>1. QuietOf(k)
    BY <1>5 DEF IInv, QuietInv
  <2>2. quiet[k] <= Ahead(k) + 2 \/ \E a, b : quiet[k] <= Between(Others, a, b)
    <3>1. pc = "keep" /\ k # i => k < j
      BY <1>1, <1>5
    <3>2. CASE pc \in {"test_send", "report"}
      BY <1>1, <1>2, <2>1, <3>2 DEF QuietOf
    <3>3. CASE pc \in {"test_receive", "keep"}
      BY <2>1, <3>1, <3>3 DEF QuietOf
    <3> QED
      BY <1>5, <3>2, <3>3 DEF Tests
  <2> QED
    BY <1>1, <1>2, <1>3, <2>2
<1>6. CASE pc = "keep" /\ k # i /\ k >= j
  <2>1. quiet[k] <= Ahead(k) + 3 + Between(Others, 0, j)
    BY <1>6 DEF IInv, QuietInv, QuietOf, Tests
  <2>2. Ahead(k) + Between(Enabled, 0, j) + 1 <= Cardinality(Enabled)
    BY <1>1, <1>6, BetweenAll, EnabledIds DEF Ahead
  <2>3. Between(Others, 0, j) <= Between(Enabled, 0, j) /\ Between(Enabled, 0, j) \in Nat
    BY BetweenTypes, EnabledIds
  <2> QED
    BY <1>1, <1>2, <2>1, <2>2, <2>3
<1> QED
  BY <1>4, <1>5, <1>6

\* A step that writes the log is mm_corereport, or the invention of jansson_test.
LEMMA Reported ==
  ASSUME CoreTestAssumption, IInv, [Next]_vars
  PROVE  ThisAucReported
<1> SUFFICES ASSUME pc = "report"
             PROVE  ThisAucReported
  BY DEF ThisAucReported
<1>1. CASE Report
  BY <1>1, ReportStep
<1>2. CASE UNCHANGED vars
  BY <1>2 DEF vars, ThisAucReported
<1> QED
  BY <1>1, <1>2 DEF Next, jansson_test, Open, Return, DetectSend, DetectReceive, TestSend,
                    TestAnswered, TestSilent, KeepAlive

\* The invariant holds in every state.
LEMMA Invariant == ASSUME CoreTestAssumption PROVE Spec => []IInv
<1>1. Init => IInv
  BY Initially
<1>2. IInv /\ [Next]_vars => IInv'
  BY Preserved
<1> QED
  BY <1>1, <1>2, PTL DEF Spec

\* The state of mm_api.c is well typed: mm_detect hands out no id beyond reportlist.
THEOREM WellTyped == ASSUME CoreTestAssumption PROVE Spec => []TypeOK
<1>1. IInv => TypeOK
  BY DEF IInv
<1> QED
  BY <1>1, Invariant, PTL

\* "Run MM core test one by one" (mm-tools/README), while every answer arrives.
THEOREM TestedOneByOne == ASSUME CoreTestAssumption PROVE Spec => []OneByOne
<1>1. IInv => OneByOne
  BY OneAtATime
<1> QED
  BY <1>1, Invariant, PTL

\* "we must keep other MM working, when test one MM" (mm-tools/README): no module that was
\* detected is quiet for longer than serving the others takes.
THEOREM AllKeptWorking == ASSUME CoreTestAssumption PROVE Spec => []KeptWorking
<1>1. IInv => KeptWorking
  BY NoneForgotten
<1> QED
  BY <1>1, Invariant, PTL

\* What mm_corereport writes are the modules of this AUC, and all of them if nothing failed.
THEOREM ThisAucIsReported == ASSUME CoreTestAssumption PROVE Spec => ReportsThisAuc
<1>1. IInv /\ [Next]_vars => [ThisAucReported]_vars
  BY Reported
<1> QED
  BY <1>1, Invariant, PTL DEF Spec, ReportsThisAuc
=============================================================================
