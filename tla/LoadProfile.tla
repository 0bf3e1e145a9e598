---------------------------- MODULE LoadProfile -----------------------------
(***************************************************************************)
(* The load runner (src/psv/load.py): run_staged_profile runs its stages   *)
(* one after the other, each with a thread pool of its own whose workers   *)
(* take the iterations from a queue and call the task for each, and        *)
(* collects what failed.                                                   *)
(***************************************************************************)
EXTENDS Integers, Sequences, FiniteSets

CONSTANTS
    Profiles,       \* the lists of stages to run
    MaxSamples,     \* max_error_samples
    MaxFailures     \* bound: calls that raise

LoadStage == [name : STRING, iterations : Int, concurrency : Int]

ASSUME LoadAssumption ==
    /\ Profiles \subseteq Seq(LoadStage)
    /\ MaxSamples \in Nat /\ MaxFailures \in Nat

VARIABLES
    pc,
    stages,    \* the profile being run
    results,   \* LoadResults of the stages that have ended
    offset,    \* identifier of the current stage's first iteration
    next,      \* iterations of the stage taken by a worker
    taken,     \* iterations a worker holds and has not called the task for
    running,   \* iterations whose call is in progress
    failed,    \* iterations of the stage that raised
    calls,     \* history: the identifiers the task was called with
    repeated,  \* history: those it was called with more than once
    failures   \* history: those of the calls that raised

vars == <<pc, stages, results, offset, next, taken, running, failed, calls,
          repeated, failures>>

\* The profile standard_profile returns; there is none if it raises.
StandardProfile(scale, peak) ==
    LET half == IF peak \div 2 > 1 THEN peak \div 2 ELSE 1
        stage(name, iterations, concurrency) ==
          [name |-> name, iterations |-> iterations, concurrency |-> concurrency]
    IN IF scale <= 0 \/ peak <= 1 THEN {}
       ELSE {<<stage("ramp", scale, half), stage("spike", scale, peak),
               stage("soak", 5 * scale, half),
               stage("breakpoint", scale, 2 * peak),
               stage("recovery", scale, 1)>>}

LoadResult == [total : Nat, errors : Nat, samples : SUBSET Nat]

Init ==
    /\ pc = "idle" /\ stages = <<>> /\ results = <<>> /\ offset = 0 /\ next = 0
    /\ taken = {} /\ running = {} /\ failed = {}
    /\ calls = {} /\ repeated = {} /\ failures = {}

-----------------------------------------------------------------------------

Start(profile) ==
    /\ pc = "idle" /\ stages' = profile
    /\ pc' = IF profile = <<>> THEN "raised" ELSE "stage"
    /\ UNCHANGED <<results, offset, next, taken, running, failed, calls, repeated,
                   failures>>

Stage == stages[Len(results) + 1]

\* The name is checked by run_staged_profile, the numbers by run_profile.
ValidStage(s) == s.name # "" /\ s.iterations > 0 /\ s.concurrency > 0

\* Mutant: only the name is checked.
EnterStageUnchecked ==
    /\ pc = "stage" /\ Len(results) < Len(stages)
    /\ pc' = IF Stage.name # "" THEN "run" ELSE "raised"
    /\ next' = 0 /\ failed' = {}
    /\ UNCHANGED <<stages, results, offset, taken, running, calls, repeated,
                   failures>>

\* An invalid stage raises when its turn comes; what ran before is lost.
EnterStage ==
    /\ pc = "stage" /\ Len(results) < Len(stages)
    /\ pc' = IF ValidStage(Stage) THEN "run" ELSE "raised"
    /\ next' = 0 /\ failed' = {}
    /\ UNCHANGED <<stages, results, offset, taken, running, calls, repeated,
                   failures>>

\* Mutant: the task is called with the stage's own numbers.
IdentifierInStage(i) == i

\* _with_offset
Identifier(i) == offset + i

\* A worker takes the next iteration from the queue; there are as many workers
\* as the stage's concurrency.
Take ==
    /\ pc = "run" /\ next < Stage.iterations
    /\ Cardinality(taken \cup running) < Stage.concurrency
    /\ taken' = taken \cup {next} /\ next' = next + 1
    /\ UNCHANGED <<pc, stages, results, offset, running, failed, calls, repeated,
                   failures>>

\* It calls the task later: another worker's call may come first.
Call(i) ==
    /\ pc = "run" /\ i \in taken
    /\ taken' = taken \ {i} /\ running' = running \cup {i}
    /\ calls' = calls \cup {Identifier(i)}
    /\ repeated' = repeated \cup (calls \cap {Identifier(i)})
    /\ UNCHANGED <<pc, stages, results, offset, next, failed, failures>>

End(i) ==
    /\ pc = "run" /\ i \in running
    /\ running' = running \ {i}
    /\ UNCHANGED <<pc, stages, results, offset, next, taken, failed, calls,
                   repeated, failures>>

\* The task raises: the exception is kept as evidence.
Raise(i) ==
    /\ pc = "run" /\ i \in running /\ Cardinality(failures) < MaxFailures
    /\ running' = running \ {i} /\ failed' = failed \cup {i}
    /\ failures' = failures \cup {Identifier(i)}
    /\ UNCHANGED <<pc, stages, results, offset, next, taken, calls, repeated>>

\* Mutant: one sample too many.
SamplesPlusOne(f) == {i \in f : Cardinality({j \in f : j < i}) <= MaxSamples}

\* The first failures in the order of the iterations, not of their ends.
Samples(f) == {i \in f : Cardinality({j \in f : j < i}) < MaxSamples}

\* Mutant: the stage waits for as many latencies as it has iterations.
LeaveStageSuccessful ==
    /\ pc = "run" /\ next = Stage.iterations
    /\ taken \cup running = {} /\ failed = {}
    /\ results' = Append(results, [total |-> Stage.iterations, errors |-> 0,
                                   samples |-> {}])
    /\ offset' = offset + Stage.iterations
    /\ pc' = "stage"
    /\ UNCHANGED <<stages, next, taken, running, failed, calls, repeated, failures>>

\* The pool is shut down once every iteration has ended.
LeaveStage ==
    /\ pc = "run" /\ next = Stage.iterations /\ taken \cup running = {}
    /\ results' = Append(results, [total |-> Stage.iterations,
                                   errors |-> Cardinality(failed),
                                   samples |-> Samples(failed)])
    /\ offset' = offset + Stage.iterations
    /\ pc' = "stage"
    /\ UNCHANGED <<stages, next, taken, running, failed, calls, repeated, failures>>

Return ==
    /\ pc = "stage" /\ Len(results) = Len(stages)
    /\ pc' = "done"
    /\ UNCHANGED <<stages, results, offset, next, taken, running, failed, calls,
                   repeated, failures>>

\* StagedLoadResult.recovered
Recovered ==
    /\ results # <<>> /\ stages[Len(results)].name = "recovery"
    /\ results[Len(results)].errors = 0

Work == EnterStage \/ Take \/ LeaveStage \/ Return
          \/ (\E i \in taken : Call(i))
          \/ (\E i \in running : End(i) \/ Raise(i))

Next == (\E p \in Profiles : Start(p)) \/ Work

\* Every call of the task ends (its RPC calls have timeouts) and the runner and
\* its workers go on.
Spec == Init /\ [][Next]_vars /\ WF_vars(Work)

-----------------------------------------------------------------------------
(* Properties *)

\* Every variable keeps its type; a stage that is running is a valid one
\* (load.py:187-202, 263-266).
TypeOK ==
    /\ pc \in {"idle", "stage", "run", "done", "raised"}
    /\ stages \in Seq(LoadStage) /\ results \in Seq(LoadResult)
    /\ Len(results) <= Len(stages) /\ offset \in Nat /\ next \in Nat
    /\ taken \cup running \cup failed \subseteq 0..(next - 1)
    /\ taken \cap running = {} /\ calls \subseteq Nat /\ repeated \subseteq calls
    /\ failures \subseteq calls
    /\ pc = "run" => /\ Len(results) < Len(stages) /\ ValidStage(Stage)
                     /\ next <= Stage.iterations

\* No identifier is used twice, over stages and workers whose calls overtake one
\* another, and none is left out once a stage has ended: two calls never settle
\* the same thing (load.py:243-275).
EachOnce ==
    /\ repeated = {}
    /\ pc \in {"stage", "done"} => calls = 0..(offset - 1)

\* The iterations of the stages before stage k.
Before(k) == UNION {{j} \X (0..(stages[j].iterations - 1)) : j \in 1..(k - 1)}

\* The first identifier of stage k: there are as many calls before it.
StageStart(k) == Cardinality(Before(k))

\* The identifiers of the calls of stage k that raised, seen from outside.
FailuresIn(k) ==
    {i \in 0..(stages[k].iterations - 1) : StageStart(k) + i \in failures}

\* The report says what happened: every stage in it has made all its calls and
\* counts its own failures and no others, although calls end in any order, and
\* its samples are its first failures; a run that reports its recovery had no
\* failure after the stress (load.py:146-152, 216-240).
EvidenceIsTrue ==
    /\ Recovered => FailuresIn(Len(results)) = {}
    /\ \A k \in DOMAIN results :
         /\ results[k].total = stages[k].iterations
         /\ 0..(StageStart(k + 1) - 1) \subseteq calls
         /\ results[k].errors = Cardinality(FailuresIn(k))
         /\ results[k].samples \subseteq FailuresIn(k)
         /\ \A i \in FailuresIn(k) :
              i \in results[k].samples <=>
                Cardinality({j \in FailuresIn(k) : j < i}) < MaxSamples

\* A run ends, with a report or an error, even if calls raise
\* (load.py:206-222, 253-275).
RunEnds == pc # "idle" ~> pc \in {"done", "raised"}

=============================================================================
