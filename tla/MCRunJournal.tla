---------------------------- MODULE MCRunJournal ----------------------------
(* RunJournal for TLC: invocations that share file name stems. *)
EXTENDS RunJournal

\* Identical invocations in one clock tick.
SharedStem == [r \in Runs |-> "a"]
=============================================================================
