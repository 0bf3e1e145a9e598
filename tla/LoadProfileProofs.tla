------------------------- MODULE LoadProfileProofs --------------------------
(***************************************************************************)
(* Proofs about the load runner, for profiles of any number of stages,     *)
(* iterations and workers.                                                 *)
(***************************************************************************)
EXTENDS LoadProfile, FiniteSetTheorems, TLAPS

\* The calls made so far have the identifiers up to the offset and, in a stage,
\* those of the iterations that were taken and whose worker has come to call the
\* task.
Counted ==
    /\ 0..(offset - 1) \subseteq calls
    /\ pc = "idle" => calls = {} /\ offset = 0 /\ results = <<>>
    /\ pc \in {"stage", "done"} => calls = 0..(offset - 1)
    /\ pc = "run" => \A x \in Nat : x \in calls <=>
                       x < offset + next /\ \A i \in taken : x # offset + i
    /\ pc # "run" => taken = {} /\ running = {}

LoadInv == TypeOK /\ Counted /\ EachOnce

-----------------------------------------------------------------------------

\* A stage's failures are finitely many.
LEMMA FailedFinite ==
    ASSUME TypeOK
    PROVE  Cardinality(failed) \in Nat
  <1>1. IsFiniteSet(0..(next - 1))
    BY FS_Interval DEF TypeOK
  <1>2. IsFiniteSet(failed)
    BY <1>1, FS_Subset DEF TypeOK
  <1> QED
    BY <1>2, FS_CardinalityType

\* No call has been made at the start.
LEMMA InitInv == Init => LoadInv
  BY DEF Init, LoadInv, TypeOK, Counted, EachOnce

\* A run starts without calls.
LEMMA StartInv ==
    ASSUME LoadInv, NEW p \in Profiles, Start(p)
    PROVE  LoadInv'
  <1>1. p \in Seq(LoadStage)
    BY LoadAssumption
  <1>2. pc' \in {"stage", "raised"} /\ stages' = p /\ pc = "idle"
    BY DEF Start
  <1>3. UNCHANGED <<results, offset, next, taken, running, failed, calls, repeated,
                    failures>>
    BY DEF Start
  <1>4. results = <<>> /\ Len(results) <= Len(p)
    BY <1>1, <1>2 DEF LoadInv, Counted
  <1>5. calls = 0..(offset - 1)
    BY <1>2 DEF LoadInv, Counted
  <1> QED
    BY <1>1, <1>2, <1>3, <1>4, <1>5 DEF LoadInv, TypeOK, Counted, EachOnce

\* A stage starts with the first identifier nobody has used.
LEMMA EnterInv ==
    ASSUME LoadInv, EnterStage
    PROVE  LoadInv'
  <1>1. /\ pc = "stage" /\ next' = 0 /\ failed' = {} /\ taken = {} /\ running = {}
        /\ pc' \in {"run", "raised"} /\ Len(results) < Len(stages)
        /\ pc' = "run" => ValidStage(Stage)
        /\ UNCHANGED <<stages, results, offset, taken, running, calls, repeated,
                       failures>>
    BY DEF EnterStage, LoadInv, Counted
  <1>2. Stage' = Stage
    BY <1>1 DEF Stage
  <1>3. ValidStage(Stage) => 0 <= Stage.iterations
    <2>1. Stage \in LoadStage
      BY <1>1 DEF LoadInv, TypeOK, Stage
    <2>2. Stage.iterations \in Int
      BY <2>1 DEF LoadStage
    <2>3. ValidStage(Stage) => Stage.iterations > 0
      BY Zenon DEF ValidStage
    <2> QED
      BY <2>2, <2>3
  <1>4. TypeOK'
    BY <1>1, <1>2, <1>3 DEF LoadInv, TypeOK, ValidStage, Stage
  <1>5. calls = 0..(offset - 1) /\ offset \in Nat /\ repeated = {}
    BY <1>1 DEF LoadInv, TypeOK, Counted, EachOnce
  <1>6. \A x \in Nat : x \in calls <=> x < offset + 0
    BY <1>5
  <1>7. Counted'
    BY <1>1, <1>5, <1>6 DEF Counted
  <1> QED
    BY <1>1, <1>4, <1>5, <1>7 DEF LoadInv, EachOnce

\* What the steps of the workers of a running stage have in common.
LEMMA StageKept ==
    ASSUME LoadInv, pc = "run", UNCHANGED <<pc, stages, results>>
    PROVE  /\ Stage' = Stage /\ Stage.iterations \in Int
           /\ ValidStage(Stage)'
  <1>1. Stage' = Stage
    BY DEF Stage
  <1>2. Stage \in LoadStage
    BY DEF LoadInv, TypeOK, Stage
  <1>3. Stage.iterations \in Int
    BY <1>2 DEF LoadStage
  <1>4. ValidStage(Stage)
    BY DEF LoadInv, TypeOK
  <1> QED
    BY <1>1, <1>3, <1>4 DEF ValidStage

\* An iteration that is taken has not been called for.
LEMMA TakeInv ==
    ASSUME LoadInv, Take
    PROVE  LoadInv'
  <1>1. /\ pc = "run" /\ next \in Nat /\ offset \in Nat
        /\ next < Stage.iterations
        /\ taken' = taken \cup {next} /\ next' = next + 1
        /\ UNCHANGED <<pc, stages, results, offset, running, failed, calls,
                       repeated, failures>>
    BY DEF Take, LoadInv, TypeOK
  <1>2. Stage' = Stage /\ Stage.iterations \in Int /\ ValidStage(Stage)'
    BY <1>1, StageKept
  <1>3. /\ taken \cup running \cup failed \subseteq 0..(next - 1)
        /\ taken \cap running = {} /\ next \notin running
    BY <1>1 DEF LoadInv, TypeOK
  <1>4. /\ taken' \cup running' \cup failed' \subseteq 0..(next' - 1)
        /\ taken' \cap running' = {}
    BY <1>1, <1>3
  <1>5. TypeOK'
    BY <1>1, <1>2, <1>4 DEF LoadInv, TypeOK
  <1>6. \A x \in Nat : x \in calls <=>
          x < offset + (next + 1) /\ \A i \in taken \cup {next} : x # offset + i
    <2>1. \A x \in Nat : x \in calls <=>
            x < offset + next /\ \A i \in taken : x # offset + i
      BY <1>1 DEF LoadInv, Counted
    <2>2. \A x \in Nat : x < offset + (next + 1) /\ x # offset + next
                          <=> x < offset + next
      BY <1>1
    <2>3. \A x : (\A i \in taken \cup {next} : x # offset + i)
                 <=> (\A i \in taken : x # offset + i) /\ x # offset + next
      BY Zenon
    <2> QED
      BY <2>1, <2>2, <2>3, Zenon
  <1>7. Counted'
    BY <1>1, <1>6 DEF LoadInv, Counted
  <1> QED
    BY <1>1, <1>5, <1>7 DEF LoadInv, EachOnce

\* A worker's call has an identifier nobody has used.
LEMMA CallInv ==
    ASSUME LoadInv, NEW i \in taken, Call(i)
    PROVE  LoadInv'
  <1>1. /\ pc = "run" /\ next \in Nat /\ offset \in Nat
        /\ taken' = taken \ {i} /\ running' = running \cup {i}
        /\ calls' = calls \cup {offset + i}
        /\ repeated' = repeated \cup (calls \cap {offset + i})
        /\ UNCHANGED <<pc, stages, results, offset, next, failed, failures>>
    BY DEF Call, Identifier, LoadInv, TypeOK
  <1>2. Stage' = Stage /\ Stage.iterations \in Int /\ ValidStage(Stage)'
    BY <1>1, StageKept
  <1>3. taken \subseteq 0..(next - 1) /\ i \in Nat /\ i < next
    BY <1>1 DEF LoadInv, TypeOK
  <1>4. \A x \in Nat : x \in calls <=>
          x < offset + next /\ \A j \in taken : x # offset + j
    BY <1>1 DEF LoadInv, Counted
  <1>5. offset + i \in Nat /\ offset + i \notin calls
    BY <1>1, <1>3, <1>4
  <1>6. repeated' = {}
    BY <1>1, <1>5 DEF LoadInv, EachOnce
  <1>7. TypeOK'
    BY <1>1, <1>2, <1>3, <1>5, <1>6 DEF LoadInv, TypeOK
  <1>8. \A x \in Nat : x \in calls \cup {offset + i} <=>
          x < offset + next /\ \A j \in taken \ {i} : x # offset + j
    BY <1>1, <1>3, <1>4
  <1>9. 0..(offset' - 1) \subseteq calls'
    BY <1>1 DEF LoadInv, Counted
  <1>10. Counted'
    BY <1>1, <1>8, <1>9 DEF Counted
  <1> QED
    BY <1>1, <1>6, <1>7, <1>10 DEF LoadInv, EachOnce

\* A call in progress has been made.
LEMMA RunningCalled ==
    ASSUME LoadInv, pc = "run", NEW i \in running
    PROVE  /\ i \in Nat /\ i < next /\ offset \in Nat /\ next \in Nat
           /\ offset + i \in calls
  <1>1. /\ i \in Nat /\ i < next /\ offset \in Nat /\ next \in Nat
        /\ taken \subseteq Nat /\ i \notin taken
    BY DEF LoadInv, TypeOK
  <1>2. \A x \in Nat : x \in calls <=>
          x < offset + next /\ \A j \in taken : x # offset + j
    BY DEF LoadInv, Counted
  <1>3. offset + i \in Nat /\ offset + i < offset + next
    BY <1>1
  <1>4. \A j \in taken : offset + i # offset + j
    BY <1>1
  <1> QED
    BY <1>1, <1>2, <1>3, <1>4

\* The end of a call, good or bad, makes none.
LEMMA EndInv ==
    ASSUME LoadInv, NEW i \in running, End(i) \/ Raise(i)
    PROVE  LoadInv'
  <1>1. /\ pc = "run" /\ running' = running \ {i}
        /\ failed' \in {failed, failed \cup {i}}
        /\ failures' \in {failures, failures \cup {offset + i}}
        /\ UNCHANGED <<pc, stages, results, offset, next, taken, calls, repeated>>
    BY DEF End, Raise, Identifier
  <1>2. offset + i \in calls
    BY <1>1, RunningCalled
  <1>3. Stage' = Stage /\ Stage.iterations \in Int /\ ValidStage(Stage)'
    BY <1>1, StageKept
  <1>4. /\ taken' \cup running' \cup failed' \subseteq 0..(next' - 1)
        /\ taken' \cap running' = {} /\ failures' \subseteq calls'
    BY <1>1, <1>2 DEF LoadInv, TypeOK
  <1>5. TypeOK'
    BY <1>1, <1>3, <1>4 DEF LoadInv, TypeOK
  <1> QED
    BY <1>1, <1>5 DEF LoadInv, Counted, EachOnce

\* The offset moves on by the calls the stage has made.
LEMMA LeaveInv ==
    ASSUME LoadInv, LeaveStage
    PROVE  LoadInv'
  <1>1. /\ pc = "run" /\ next = Stage.iterations /\ pc' = "stage"
        /\ taken = {} /\ running = {}
        /\ next \in Nat /\ offset \in Nat /\ offset' = offset + next
        /\ UNCHANGED <<stages, next, taken, running, failed, calls, repeated,
                       failures>>
    BY DEF LeaveStage, LoadInv, TypeOK
  <1> DEFINE r == [total |-> Stage.iterations, errors |-> Cardinality(failed),
                   samples |-> Samples(failed)]
  <1>2. r \in LoadResult
    <2>1. Samples(failed) \subseteq Nat
      <3>1. Samples(failed) \subseteq failed
        BY Zenon DEF Samples
      <3>2. failed \subseteq 0..(next - 1)
        BY DEF LoadInv, TypeOK
      <3>3. 0..(next - 1) \subseteq Nat
        BY <1>1
      <3> QED
        BY <3>1, <3>2, <3>3, Zenon
    <2> QED
      BY <1>1, <2>1, FailedFinite DEF LoadInv, LoadResult
  <1>3. results' = Append(results, r)
    BY DEF LeaveStage
  <1> HIDE DEF r
  <1>4. results' \in Seq(LoadResult) /\ Len(results') <= Len(stages)
    BY <1>1, <1>2, <1>3 DEF LoadInv, TypeOK
  <1>5. TypeOK'
    BY <1>1, <1>4 DEF LoadInv, TypeOK
  <1>6. calls' = 0..(offset' - 1)
    <2>1. calls \subseteq Nat /\ \A x \in Nat : x \in calls <=> x < offset + next
      BY <1>1 DEF LoadInv, TypeOK, Counted
    <2>2. \A x \in Nat : x < offset + next <=> x \in 0..(offset' - 1)
      BY <1>1
    <2>3. 0..(offset' - 1) \subseteq Nat
      BY <1>1
    <2>4. calls = 0..(offset' - 1)
      BY <2>1, <2>2, <2>3, Zenon
    <2> QED
      BY <1>1, <2>4
  <1> QED
    BY <1>1, <1>5, <1>6 DEF LoadInv, Counted, EachOnce

\* Every step keeps the invariant.
LEMMA NextInv == LoadInv /\ [Next]_vars => LoadInv'
  <1> SUFFICES ASSUME LoadInv, [Next]_vars PROVE LoadInv'
    OBVIOUS
  <1>1. CASE UNCHANGED vars
    BY <1>1 DEF vars, LoadInv, TypeOK, Counted, EachOnce, ValidStage, Stage
  <1>2. CASE Return
    BY <1>2 DEF Return, LoadInv, TypeOK, Counted, EachOnce
  <1>3. CASE Next
    BY <1>2, <1>3, StartInv, EnterInv, TakeInv, CallInv, EndInv, LeaveInv
       DEF Next, Work
  <1> QED
    BY <1>1, <1>3

\* Types are kept, and a stage that runs is a valid one, for every profile
\* (load.py:187-275).
THEOREM TypeCorrect == Spec => []TypeOK
  <1>1. LoadInv => TypeOK
    BY DEF LoadInv
  <1> QED
    BY <1>1, InitInv, NextInv, PTL DEF Spec

\* Every call of the task has an identifier of its own, whatever the order the
\* workers make their calls in, and a stage that has ended has left none out, for
\* every profile (load.py:243-275).
THEOREM IdentifiersAreUnique == Spec => []EachOnce
  <1>1. LoadInv => EachOnce
    BY DEF LoadInv
  <1> QED
    BY <1>1, InitInv, NextInv, PTL DEF Spec

-----------------------------------------------------------------------------

\* What the report says of stage k is what its calls did.
Told(k) ==
    /\ results[k].total = stages[k].iterations
    /\ results[k].errors = Cardinality(FailuresIn(k))
    /\ results[k].samples = Samples(FailuresIn(k))

\* The offset is the first identifier of the stage at hand, and while the stage
\* runs its failures are those of the identifiers it owns.
EvidenceInv ==
    /\ IsFiniteSet(Before(Len(results) + 1))
    /\ offset = StageStart(Len(results) + 1)
    /\ pc = "run" => failed = FailuresIn(Len(results) + 1)
    /\ \A k \in DOMAIN results : Told(k)

\* The iterations of stage j.
Own(j) == {j} \X (0..(stages[j].iterations - 1))

\* What comes before stage k is what the earlier stages own.
LEMMA InBefore ==
    ASSUME NEW k, NEW S, S = 1..(k - 1)
    PROVE  \A x : x \in Before(k) <=> \E j \in S : x \in Own(j)
  BY Zenon DEF Before, Own

\* The stages before a later stage include those before an earlier one.
LEMMA BeforeGrows ==
    ASSUME NEW m \in Nat, NEW k \in 1..m, IsFiniteSet(Before(m))
    PROVE  /\ IsFiniteSet(Before(k))
           /\ StageStart(k) \in Nat /\ StageStart(m) \in Nat
           /\ StageStart(k) <= StageStart(m)
  <1>1. 1..(k - 1) \subseteq 1..(m - 1)
    OBVIOUS
  <1>2. \A x : x \in Before(k) <=> \E j \in 1..(k - 1) : x \in Own(j)
    BY InBefore, Zenon
  <1>3. \A x : x \in Before(m) <=> \E j \in 1..(m - 1) : x \in Own(j)
    BY InBefore, Zenon
  <1>4. Before(k) \subseteq Before(m)
    BY <1>1, <1>2, <1>3, Zenon
  <1>5. IsFiniteSet(Before(k)) /\ Cardinality(Before(k)) <= Cardinality(Before(m))
    BY <1>4, FS_Subset
  <1> QED
    BY <1>5, FS_CardinalityType DEF StageStart

\* There are n numbers below n.
LEMMA IntervalSize ==
    ASSUME NEW n \in Nat
    PROVE  IsFiniteSet(0..(n - 1)) /\ Cardinality(0..(n - 1)) = n
  BY FS_Interval

\* Disjoint sets have as many elements together as apart.
LEMMA DisjointSize ==
    ASSUME NEW S, NEW T, IsFiniteSet(S), IsFiniteSet(T), S \cap T = {}
    PROVE  /\ IsFiniteSet(S \cup T)
           /\ Cardinality(S \cup T) = Cardinality(S) + Cardinality(T)
  <1>1. Cardinality(S) \in Nat /\ Cardinality(T) \in Nat /\ Cardinality({}) = 0
    BY FS_CardinalityType, FS_EmptySet
  <1>2. /\ IsFiniteSet(S \cup T)
        /\ Cardinality(S \cup T) =
             Cardinality(S) + Cardinality(T) - Cardinality(S \cap T)
    BY FS_Union, Zenon
  <1>3. Cardinality(S \cap T) = 0
    BY <1>1, Zenon
  <1>4. Cardinality(S) + Cardinality(T) - 0 = Cardinality(S) + Cardinality(T)
    BY <1>1
  <1> QED
    BY <1>2, <1>3, <1>4, Zenon

\* A stage starts where the one before it ends.
LEMMA NextStageStart ==
    ASSUME NEW k \in Nat \ {0}, IsFiniteSet(Before(k)),
           NEW n \in Nat, n = stages[k].iterations
    PROVE  /\ IsFiniteSet(Before(k + 1))
           /\ StageStart(k + 1) = StageStart(k) + n
  <1>1. (1..(k - 1)) \cup {k} = 1..((k + 1) - 1)
    OBVIOUS
  <1>2. \A x : x \in Before(k + 1) <=> \E j \in (1..(k - 1)) \cup {k} : x \in Own(j)
    BY <1>1, InBefore, Zenon
  <1>3. \A x : x \in Before(k) <=> \E j \in 1..(k - 1) : x \in Own(j)
    BY InBefore, Zenon
  <1>4. Before(k + 1) = Before(k) \cup Own(k)
    BY <1>2, <1>3
  <1>5. IsFiniteSet(Own(k)) /\ Cardinality(Own(k)) = n
    <2>1. IsFiniteSet(0..(n - 1)) /\ Cardinality(0..(n - 1)) = n
      BY IntervalSize, Zenon
    <2>2. IsFiniteSet({k}) /\ Cardinality({k}) = 1
      BY FS_Singleton
    <2>3. /\ Cardinality({k} \X (0..(n - 1))) = 1 * n
          /\ IsFiniteSet({k} \X (0..(n - 1)))
      <3> DEFINE T == 0..(n - 1)
      <3>1. IsFiniteSet(T) /\ Cardinality(T) = n
        BY <2>1
      <3> HIDE DEF T
      <3>2. /\ Cardinality({k} \X T) = Cardinality({k}) * Cardinality(T)
            /\ IsFiniteSet({k} \X T)
        BY <2>2, <3>1, FS_Product, Zenon
      <3>3. Cardinality({k} \X T) = 1 * n
        BY <2>2, <3>1, <3>2, Zenon
      <3> QED
        BY <3>2, <3>3, Zenon DEF T
    <2>4. 1 * n = n
      OBVIOUS
    <2> QED
      BY <2>3, <2>4, Zenon DEF Own
  <1>6. Before(k) \cap Own(k) = {}
    <2>1. \A j : \A x \in Own(j) : x[1] = j
      BY DEF Own
    <2>2. k \notin 1..(k - 1)
      OBVIOUS
    <2>3. \A x \in Before(k) : x[1] \in 1..(k - 1)
      BY <1>3, <2>1, Zenon
    <2> QED
      BY <2>1, <2>2, <2>3, Zenon
  <1>7. /\ IsFiniteSet(Before(k) \cup Own(k))
        /\ Cardinality(Before(k) \cup Own(k)) =
             Cardinality(Before(k)) + Cardinality(Own(k))
    BY <1>5, <1>6, DisjointSize, Zenon
  <1> QED
    BY <1>4, <1>5, <1>7, Zenon DEF StageStart

\* The identifiers of the stages of the report lie below the offset.
LEMMA OwnedBelowOffset ==
    ASSUME LoadInv, EvidenceInv, NEW k \in DOMAIN results
    PROVE  /\ k \in DOMAIN stages /\ stages[k].iterations \in Nat
           /\ StageStart(k) \in Nat /\ StageStart(k + 1) \in Nat
           /\ StageStart(k + 1) = StageStart(k) + stages[k].iterations
           /\ StageStart(k + 1) <= offset
  <1>1. /\ k \in 1..Len(results) /\ k \in DOMAIN stages /\ Len(results) \in Nat
        /\ results[k] \in LoadResult
    BY DEF LoadInv, TypeOK
  <1>2. stages[k].iterations \in Nat
    BY <1>1 DEF EvidenceInv, Told, LoadResult
  <1>3. IsFiniteSet(Before(Len(results) + 1))
    BY DEF EvidenceInv
  <1>6. IsFiniteSet(Before(k))
    BY <1>1, <1>3, BeforeGrows
  <1>7. StageStart(k + 1) = StageStart(k) + stages[k].iterations
    BY <1>1, <1>2, <1>6, NextStageStart
  <1>8. /\ StageStart(k) \in Nat /\ StageStart(k + 1) \in Nat
        /\ StageStart(k + 1) <= StageStart(Len(results) + 1)
    BY <1>1, <1>3, BeforeGrows
  <1> QED
    BY <1>1, <1>2, <1>7, <1>8 DEF EvidenceInv

\* What a stage of the report says stays true when later calls fail.
LEMMA ToldIsStable ==
    ASSUME LoadInv, EvidenceInv, NEW k \in DOMAIN results,
           stages' = stages, results'[k] = results[k],
           failures \subseteq failures',
           \A x \in failures' \ failures : x \in Nat /\ offset <= x
    PROVE  Told(k)'
  <1>1. /\ StageStart(k) \in Nat /\ offset \in Nat
        /\ stages[k].iterations \in Nat
        /\ StageStart(k) + stages[k].iterations <= offset
    BY OwnedBelowOffset DEF LoadInv, TypeOK
  <1>2. StageStart(k)' = StageStart(k)
    BY DEF StageStart, Before
  <1>3. \A i \in 0..(stages[k].iterations - 1) :
          StageStart(k) + i \in failures' <=> StageStart(k) + i \in failures
    BY <1>1
  <1>4. FailuresIn(k)' = FailuresIn(k)
    <2>1. FailuresIn(k)' = {i \in 0..(stages[k].iterations - 1) :
                              StageStart(k) + i \in failures'}
      BY <1>2 DEF FailuresIn
    <2> QED
      BY <1>3, <2>1, Zenon DEF FailuresIn
  <1>5. Told(k)
    BY DEF EvidenceInv
  <1> QED
    BY <1>4, <1>5, Zenon DEF Told, Samples

\* Nothing has failed at the start.
LEMMA InitEvidence == Init => EvidenceInv
  <1> SUFFICES ASSUME Init PROVE EvidenceInv
    OBVIOUS
  <1>1. /\ pc = "idle" /\ results = <<>> /\ offset = 0 /\ failures = {}
    BY DEF Init
  <1>2. Before(1) = {}
    <2>1. 1..(1 - 1) = {}
      OBVIOUS
    <2> QED
      BY <2>1, InBefore, Zenon
  <1>3. Len(results) + 1 = 1
    BY <1>1
  <1>4. IsFiniteSet(Before(1)) /\ StageStart(1) = 0
    BY <1>2, FS_EmptySet DEF StageStart
  <1> QED
    BY <1>1, <1>3, <1>4 DEF EvidenceInv

\* The first stage starts with the first identifier.
LEMMA StartEvidence ==
    ASSUME LoadInv, EvidenceInv, NEW p \in Profiles, Start(p)
    PROVE  EvidenceInv'
  <1>1. /\ results = <<>> /\ results' = <<>> /\ offset' = 0 /\ pc' # "run"
    BY DEF Start, LoadInv, Counted
  <1>2. (Before(1))' = {}
    <2>1. 1..(1 - 1) = {}
      OBVIOUS
    <2> QED
      BY <2>1, Zenon DEF Before
  <1>3. Len(results') + 1 = 1
    BY <1>1
  <1>4. IsFiniteSet(Before(1)') /\ StageStart(1)' = 0
    BY <1>2, FS_EmptySet DEF StageStart
  <1> QED
    BY <1>1, <1>3, <1>4 DEF EvidenceInv

\* A stage starts without failures: none is past the offset.
LEMMA EnterEvidence ==
    ASSUME LoadInv, EvidenceInv, EnterStage
    PROVE  EvidenceInv'
  <1>1. /\ pc = "stage" /\ failed' = {}
        /\ UNCHANGED <<stages, results, offset, calls, failures>>
    BY DEF EnterStage
  <1>2. /\ Before(Len(results) + 1)' = Before(Len(results) + 1)
        /\ StageStart(Len(results) + 1)' = StageStart(Len(results) + 1)
    BY <1>1 DEF StageStart, Before
  <1>3. \A k \in DOMAIN results : Told(k)'
    BY <1>1, ToldIsStable
  <1>4. FailuresIn(Len(results) + 1) = {}
    <2>1. /\ offset \in Nat /\ offset = StageStart(Len(results) + 1)
          /\ failures \subseteq 0..(offset - 1)
      BY <1>1 DEF LoadInv, TypeOK, Counted, EvidenceInv
    <2>2. \A i \in Nat : offset + i \notin failures
      BY <2>1
    <2>3. \A m : \A i \in 0..m : i \in Nat
      OBVIOUS
    <2> QED
      BY <2>1, <2>2, <2>3, Zenon DEF FailuresIn
  <1>5. FailuresIn(Len(results) + 1)' = FailuresIn(Len(results) + 1)
    BY <1>1, <1>2 DEF FailuresIn
  <1> QED
    BY <1>1, <1>2, <1>3, <1>4, <1>5 DEF EvidenceInv

\* An iteration that is taken or called has not failed.
LEMMA CallEvidence ==
    ASSUME LoadInv, EvidenceInv, Take \/ \E i \in taken : Call(i)
    PROVE  EvidenceInv'
  <1>1. UNCHANGED <<pc, stages, results, offset, failed, failures>>
    BY DEF Take, Call
  <1>2. /\ Before(Len(results) + 1)' = Before(Len(results) + 1)
        /\ StageStart(Len(results) + 1)' = StageStart(Len(results) + 1)
    BY <1>1 DEF StageStart, Before
  <1>3. \A k \in DOMAIN results : Told(k)'
    BY <1>1, ToldIsStable
  <1>4. FailuresIn(Len(results) + 1)' = FailuresIn(Len(results) + 1)
    BY <1>1, <1>2 DEF FailuresIn
  <1> QED
    BY <1>1, <1>2, <1>3, <1>4 DEF EvidenceInv

\* A call that ends well leaves the evidence as it was; one that raises adds its
\* own identifier, which belongs to the stage at hand.
LEMMA EndEvidence ==
    ASSUME LoadInv, EvidenceInv, NEW i \in running, End(i) \/ Raise(i)
    PROVE  EvidenceInv'
  <1> DEFINE m == Len(results) + 1
  <1>1. /\ pc = "run" /\ UNCHANGED <<pc, stages, results, offset>>
        /\ \/ failed' = failed /\ failures' = failures
           \/ failed' = failed \cup {i} /\ failures' = failures \cup {offset + i}
    BY DEF End, Raise, Identifier
  <1>2. i \in Nat /\ i < next /\ offset \in Nat /\ next \in Nat
    BY <1>1, RunningCalled
  <1>3. Before(m)' = Before(m) /\ StageStart(m)' = StageStart(m)
    BY <1>1 DEF StageStart, Before
  <1>4. \A k \in DOMAIN results : Told(k)'
    BY <1>1, <1>2, ToldIsStable
  <1>6. failed = FailuresIn(m) /\ offset = StageStart(m)
    BY <1>1 DEF EvidenceInv
  <1>7. /\ stages[m].iterations \in Int
        /\ i \in 0..(stages[m].iterations - 1)
    <2>1. Stage \in LoadStage /\ next <= Stage.iterations
      BY <1>1 DEF LoadInv, TypeOK, Stage
    <2>2. Stage.iterations \in Int
      BY <2>1 DEF LoadStage
    <2> QED
      BY <1>2, <2>1, <2>2 DEF Stage
  <1>8. FailuresIn(m)' = {j \in 0..(stages[m].iterations - 1) :
                            offset + j \in failures'}
    BY <1>1, <1>3, <1>6 DEF FailuresIn
  <1>9. failed = {j \in 0..(stages[m].iterations - 1) : offset + j \in failures}
    BY <1>6 DEF FailuresIn
  <1>10. failed' = FailuresIn(m)'
    <2>1. CASE failed' = failed /\ failures' = failures
      BY <1>8, <1>9, <2>1
    <2>2. CASE failed' = failed \cup {i} /\ failures' = failures \cup {offset + i}
      <3>1. \A j \in 0..(stages[m].iterations - 1) :
              offset + j = offset + i <=> j = i
        BY <1>2, <1>7
      <3> HIDE DEF m
      <3> QED
        BY <1>7, <1>8, <1>9, <2>2, <3>1, Zenon
    <2> QED
      BY <1>1, <2>1, <2>2
  <1> QED
    BY <1>1, <1>3, <1>4, <1>10 DEF EvidenceInv

\* The report of a stage that ends is taken from its own failures, and the
\* offset moves on to the identifiers of the next one.
LEMMA LeaveEvidence ==
    ASSUME LoadInv, EvidenceInv, LeaveStage
    PROVE  EvidenceInv'
  <1>0. PICK m \in Nat : m = Len(results) + 1
    BY DEF LoadInv, TypeOK
  <1> DEFINE r == [total |-> Stage.iterations, errors |-> Cardinality(failed),
                   samples |-> Samples(failed)]
  <1>1. /\ pc = "run" /\ pc' = "stage" /\ results' = Append(results, r)
        /\ offset' = offset + Stage.iterations /\ next = Stage.iterations
        /\ UNCHANGED <<stages, failed, failures>>
    BY DEF LeaveStage
  <1>2. /\ results \in Seq(LoadResult) /\ Len(results) \in Nat /\ next \in Nat
        /\ offset \in Nat
    BY DEF LoadInv, TypeOK
  <1>3. r.total = stages[m].iterations /\ r.errors = Cardinality(failed)
          /\ r.samples = Samples(failed)
    BY <1>0 DEF Stage
  <1> HIDE DEF r
  <1>4. Len(results') = m /\ m \in Nat \ {0} /\ DOMAIN results' = DOMAIN results \cup {m}
    BY <1>0, <1>1, <1>2
  <1>5. results'[m] = r /\ \A k \in DOMAIN results : results'[k] = results[k]
    BY <1>0, <1>1, <1>2
  <1>6. stages[m].iterations = next
    BY <1>0, <1>1 DEF Stage
  <1>7. /\ IsFiniteSet(Before(m)) /\ failed = FailuresIn(m)
        /\ offset = StageStart(m)
    BY <1>0, <1>1 DEF EvidenceInv
  <1>8. IsFiniteSet(Before(m + 1)) /\ StageStart(m + 1) = StageStart(m) + next
    BY <1>2, <1>4, <1>6, <1>7, NextStageStart
  <1>9. /\ Before(m + 1)' = Before(m + 1) /\ FailuresIn(m)' = FailuresIn(m)
        /\ StageStart(m + 1)' = StageStart(m + 1)
    BY <1>1 DEF Before, StageStart, FailuresIn
  <1>10. \A k \in DOMAIN results : Told(k)'
    BY <1>1, <1>5, ToldIsStable
  <1>11. Told(m)'
    <2>1. /\ results'[m].total = stages'[m].iterations
          /\ results'[m].errors = Cardinality(FailuresIn(m)')
          /\ results'[m].samples = Samples(FailuresIn(m)')
      BY <1>1, <1>3, <1>5, <1>7, <1>9
    <2> QED
      BY <2>1, Zenon DEF Told, Samples
  <1>12. offset' = StageStart(m + 1)
    <2>1. offset' = offset + next
      BY <1>1
    <2> QED
      BY <1>2, <1>7, <1>8, <2>1
  <1>13. \A k \in DOMAIN results' : Told(k)'
    BY <1>4, <1>10, <1>11
  <1> QED
    BY <1>1, <1>4, <1>7, <1>8, <1>9, <1>12, <1>13 DEF EvidenceInv

\* Every step keeps the evidence.
LEMMA NextEvidence == LoadInv /\ EvidenceInv /\ [Next]_vars => EvidenceInv'
  <1> SUFFICES ASSUME LoadInv, EvidenceInv, [Next]_vars PROVE EvidenceInv'
    OBVIOUS
  <1>1. CASE Return \/ UNCHANGED vars
    <2>1. /\ UNCHANGED <<stages, results, offset, failed, failures>>
          /\ pc' = "run" => pc = "run"
      BY <1>1 DEF Return, vars
    <2>2. /\ Before(Len(results) + 1)' = Before(Len(results) + 1)
          /\ StageStart(Len(results) + 1)' = StageStart(Len(results) + 1)
          /\ FailuresIn(Len(results) + 1)' = FailuresIn(Len(results) + 1)
      BY <2>1 DEF StageStart, Before, FailuresIn
    <2>3. \A k \in DOMAIN results : Told(k)'
      BY <2>1, ToldIsStable
    <2> QED
      BY <2>1, <2>2, <2>3 DEF EvidenceInv
  <1> QED
    BY <1>1, StartEvidence, EnterEvidence, CallEvidence, EndEvidence,
       LeaveEvidence DEF Next, Work

\* The report of every profile is true: each stage in it has made all its calls,
\* its errors and samples are its own failures whatever the order its calls
\* ended in, and a recovery it reports had none (load.py:146-152, 216-240).
THEOREM ReportsAreTrue == Spec => []EvidenceIsTrue
  <1>1. LoadInv /\ EvidenceInv => EvidenceIsTrue
    <2> SUFFICES ASSUME LoadInv, EvidenceInv PROVE EvidenceIsTrue
      OBVIOUS
    <2>1. \A k \in DOMAIN results : Told(k)
      BY DEF EvidenceInv
    <2>2. \A k \in DOMAIN results : 0..(StageStart(k + 1) - 1) \subseteq calls
      <3>1. 0..(offset - 1) \subseteq calls /\ offset \in Nat
        BY DEF LoadInv, TypeOK, Counted
      <3>2. \A k \in DOMAIN results :
              StageStart(k + 1) \in Nat /\ StageStart(k + 1) <= offset
        BY OwnedBelowOffset
      <3> QED
        BY <3>1, <3>2
    <2>3. \A k \in DOMAIN results : IsFiniteSet(FailuresIn(k))
      <3> SUFFICES ASSUME NEW k \in DOMAIN results
                   PROVE  IsFiniteSet(FailuresIn(k))
        OBVIOUS
      <3>1. stages[k].iterations \in Nat
        BY OwnedBelowOffset
      <3>2. IsFiniteSet(0..(stages[k].iterations - 1))
        BY <3>1, IntervalSize, Zenon
      <3>3. FailuresIn(k) \subseteq 0..(stages[k].iterations - 1)
        BY Zenon DEF FailuresIn
      <3> QED
        BY <3>2, <3>3, FS_Subset, Zenon
    <2>4. Recovered => FailuresIn(Len(results)) = {}
      <3> SUFFICES ASSUME Recovered PROVE FailuresIn(Len(results)) = {}
        OBVIOUS
      <3>1. results # <<>> /\ results[Len(results)].errors = 0
        BY DEF Recovered
      <3>2. Len(results) \in DOMAIN results
        BY <3>1 DEF LoadInv, TypeOK
      <3>3. Cardinality(FailuresIn(Len(results))) = 0
        BY <2>1, <3>1, <3>2, Zenon DEF Told
      <3> QED
        BY <2>3, <3>2, <3>3, FS_EmptySet, Zenon
    <2> QED
      BY <2>1, <2>2, <2>4, Zenon DEF EvidenceIsTrue, Told, Samples
  <1> QED
    BY <1>1, InitInv, NextInv, InitEvidence, NextEvidence, PTL DEF Spec

=============================================================================
