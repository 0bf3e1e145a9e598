--------------------------- MODULE MCLoadProfile ----------------------------
(* Instances of LoadProfile for TLC. *)
EXTENDS LoadProfile, TLC

\* A standard profile and one whose second stage is invalid.
SmallProfiles ==
    StandardProfile(2, 4) \cup StandardProfile(0, 4) \cup StandardProfile(2, 1)
      \cup {<<[name |-> "ramp", iterations |-> 3, concurrency |-> 2],
              [name |-> "spike", iterations |-> 0, concurrency |-> 2]>>}

=============================================================================
