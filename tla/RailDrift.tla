----------------------------- MODULE RailDrift ------------------------------
(***************************************************************************)
(* psv rail-drift (src/psv/rails.py, check_rail_drift): one observer       *)
(* compares a rail's token with its reviewed attestation at the block the  *)
(* finality tag names.  All state is read by that block's number while the *)
(* chain goes on and may be reorganised, and nothing is read twice; the    *)
(* report carries the hash the tagged block had.                           *)
(***************************************************************************)
EXTENDS RailCapture

VARIABLE drift  \* the observer: its rail, where it is, what it has read

vars == <<chainVars, cap, drift>>

\* The registry's own attestations, reviewed at the anchor block chain[1]:
\* each pins what it pins of the reviewed identity.
Registry ==
    {a \in [class : {"local", "testnet", "mainnet"}, proxy : BOOLEAN,
            calibrated : BOOLEAN, anchor : {<<Genesis>>, None},
            code : {Genesis.code, None}, impl : {Identity(Genesis), None}] :
       Valid(a)}

Stages == {"idle", "anchor", "tag", "code", "slot", "implCode", "probes",
           "done", "failed"}

\* block is the hash of the tagged block, code the code read there.
Observers ==
    [pc : Stages, rail : Attestation \cup {None}, block : Seq(Block),
     code : BOOLEAN \cup {None}, matches : BOOLEAN \cup {None}]

NoCheck == [pc |-> "idle", rail |-> None, block |-> <<>>, code |-> None,
            matches |-> None]

Init == ChainInit /\ cap = NoCapture /\ drift = NoCheck

-----------------------------------------------------------------------------

Rail == drift.rail
Number == Len(drift.block)
Goto(pc) == drift' = [drift EXCEPT !.pc = pc]

\* The node answers the rail's chain id.
CheckChain(a) ==
    /\ drift.pc = "idle"
    /\ drift' = [drift EXCEPT !.rail = a, !.pc = "anchor"]
    /\ UNCHANGED <<chainVars, cap>>

\* Mutant: the reviewed block is not looked up.
AnchorAssumed ==
    /\ drift.pc = "anchor"
    /\ Goto("tag")
    /\ UNCHANGED <<chainVars, cap>>

\* _verify_review_anchor: nothing to do without calibration or reviewed block.
VerifyReviewAnchor ==
    /\ drift.pc = "anchor"
    /\ Rail.calibrated /\ Rail.anchor # None =>
         Canonical(Rail.anchor)
    /\ Goto("tag")
    /\ UNCHANGED <<chainVars, cap>>

\* Mutant: the tagged block's identity is dropped.
ReadTagOnly ==
    /\ drift.pc = "tag"
    /\ Goto("code")
    /\ UNCHANGED <<chainVars, cap>>

ReadTag ==
    /\ drift.pc = "tag"
    /\ drift' = [drift EXCEPT !.pc = "code",
                   !.block = Hash(chain, TagBlock(Len(chain), TagLag))]
    /\ UNCHANGED <<chainVars, cap>>

\* Mutant: the state of the newest block, the default of eth_getCode and of
\* eth_getStorageAt.
AtHead == chain[Len(chain)]

\* The node's state at the number of the tagged block.
At == chain[Number]

ReadCode ==
    /\ drift.pc = "code" /\ Reached(drift.block)
    /\ drift' = [drift EXCEPT !.code = At.code,
                              !.pc = IF Rail.proxy THEN "slot" ELSE "probes"]
    /\ UNCHANGED <<chainVars, cap>>

\* _implementation_identity: the slot must name the reviewed implementation ...
ReadSlot ==
    /\ drift.pc = "slot" /\ Reached(drift.block)
    /\ Rail.impl # None /\ At.slot = Rail.impl.slot
    /\ Goto("implCode")
    /\ UNCHANGED <<chainVars, cap>>

\* ... and that implementation must have the reviewed code.
ReadImplementation ==
    /\ drift.pc = "implCode" /\ Reached(drift.block)
    /\ ImplementationCode(At, Rail.impl.slot) = Rail.impl.code
    /\ Goto("probes")
    /\ UNCHANGED <<chainVars, cap>>

Matches(a, code) ==
    \/ a.class = "local" /\ a.calibrated
    \/ a.calibrated /\ a.code # None /\ code = a.code

\* The two view calls answered; their values are not used.
Probe ==
    /\ drift.pc = "probes" /\ Reached(drift.block)
    /\ drift' = [drift EXCEPT !.pc = "done",
                              !.matches = Matches(Rail, drift.code)]
    /\ UNCHANGED <<chainVars, cap>>

\* A read fails or answers what the check refuses: another chain, a changed
\* anchor, no code, a drifted proxy.
Fail ==
    /\ drift.pc \notin {"done", "failed"}
    /\ drift' = [NoCheck EXCEPT !.pc = "failed"]
    /\ UNCHANGED <<chainVars, cap>>

\* A rail of the registry, or one calibrated with what the tool printed.
CheckRail ==
    \/ cap.pc = "idle" /\ \E a \in Registry : CheckChain(a)
    \/ cap.exit = 0 /\ CheckChain(CapturedRail)

Check ==
    \/ CheckRail
    \/ VerifyReviewAnchor \/ ReadTag \/ ReadCode \/ ReadSlot
    \/ ReadImplementation \/ Probe \/ Fail

\* One operator: the capture ends before its rail is checked.
Calibrate == drift.pc = "idle" /\ CaptureStep /\ UNCHANGED <<chainVars, drift>>

ChainMoves == ChainStep /\ UNCHANGED <<cap, drift>>

Next == ChainMoves \/ Calibrate \/ Check

Spec == Init /\ [][Next]_vars

-----------------------------------------------------------------------------
(* Properties *)

\* Every variable keeps its type; a capture or a check past its tag has a block
\* at a height the chain has had (capture_rail_attestation.py:201-205, rails.py:
\* 708-751).
TypeOK ==
    /\ ChainOK
    /\ cap \in Capture /\ drift \in Observers
    /\ cap.pc \notin {"idle", "block"} /\ cap.exit \notin {2, 3} =>
         Len(cap.block) \in 1..peak
    /\ drift.pc \notin {"idle", "failed"} =>
         drift.rail \in Attestation /\ Valid(drift.rail)
    /\ drift.pc \notin {"idle", "anchor", "tag", "failed"} =>
         Number \in 1..peak

Reported == drift.pc = "done" /\ Rail.class # "local"

\* A report is true of the block it names, as long as that block is canonical:
\* the reads were made by number, one after the other, but if a reorganisation
\* had come in between the hash in the report would tell.  A match means that
\* the rail is calibrated and that token, slot and implementation are the
\* pinned ones there, whatever upgrade came before or after; no match for a
\* calibrated, pinned rail means that the token's code really differs
\* (rails.py:708-751).
ReportIsTrue ==
    Reported /\ Canonical(drift.block) =>
      LET b == drift.block[Number] IN
      /\ drift.matches => Rail.calibrated /\ b.code = Rail.code
      /\ Rail.calibrated /\ Rail.code # None /\ b.code = Rail.code
           => drift.matches
      /\ Rail.proxy => Identity(b) = Rail.impl

\* "this is the contract we reviewed" (capture_rail_attestation.py:3-6): the
\* token at the block of a matching report is the token at the block that was
\* reviewed, even if a reorganisation mixed two branches in the capture or came
\* between review and check, because a mixed capture names a block that is no
\* longer there when the check looks it up (rails.py:697-705).
MatchMeansReviewed ==
    Reported /\ Canonical(drift.block) /\ drift.matches /\ Rail.anchor # None =>
      LET reviewed == Rail.anchor[Len(Rail.anchor)]
          b == drift.block[Number]
      IN b.code = reviewed.code /\ (Rail.proxy => Identity(b) = Identity(reviewed))

=============================================================================
