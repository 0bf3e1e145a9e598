--------------------------- MODULE SettlementGate ---------------------------
(***************************************************************************)
(* When a settlement may be credited (src/psv/reorg.py).  Three systems    *)
(* watch one settlement on a chain that is reorganised: one books it at    *)
(* the first sighting, as the reference payment system does, one waits for *)
(* depth only (is_final), one asks assess_finality before it credits.      *)
(* run_differential (src/psv/differential.py) grades their beliefs against *)
(* the chain.                                                              *)
(***************************************************************************)
EXTENDS Divergence, ForkingChain

CONSTANTS
    Required,         \* required_amount, the invoice of an exact payment, or None
    AuthorizedMax,    \* authorized_max, the cap of a metered one
    MinConfirmations  \* required_confirmations

ASSUME GateAssumption ==
    /\ Required \in Nat \cup {None} /\ AuthorizedMax \in Nat
    /\ MinConfirmations \in Nat \ {0}

ASSUME BlocksAreNotNone == None \notin Seq(Block)

VARIABLE watch  \* what each system has read, and whether it has credited

vars == <<chainVars, watch>>

Systems == {"sighting", "depth", "gate"}

\* block is the hash of the block the receipt was in.
Watcher == [pc : {"receipt", "head", "canonical", "credited"},
            block : Seq(Block), head : Nat]

Looking == [pc |-> "receipt", block |-> <<>>, head |-> 0]

Init == ChainInit /\ watch = [s \in Systems |-> Looking]

-----------------------------------------------------------------------------
(* reorg.py *)

\* Mutant: a block is one confirmation deeper than it is.
ConfirmationsFromZero(current, transaction) ==
    IF transaction = 0 \/ current < transaction THEN 0
    ELSE current - transaction + 2

\* Blocks confirming a transaction, its own included; none before it is mined.
Confirmations(current, transaction) ==
    IF transaction = 0 \/ current < transaction THEN 0
    ELSE current - transaction + 1

IsFinal(current, transaction, required) ==
    Confirmations(current, transaction) >= required

\* canonical is the hash now at the settlement's height, None if unavailable.
AssessFinality(block, current, canonical, required) ==
    [final |-> canonical = block /\ IsFinal(current, Len(block), required),
     reorged |-> canonical # None /\ canonical # block,
     confirmations |-> Confirmations(current, Len(block))]

-----------------------------------------------------------------------------
(* The systems *)

Goes(s, pc) == watch' = [watch EXCEPT ![s].pc = pc]

\* The receipt of the successful settlement; a sighting is booked at once.
ReadReceipt(s, n) ==
    /\ watch[s].pc = "receipt" /\ chain[n].settle = "success"
    /\ watch' = [watch EXCEPT ![s] =
         [@ EXCEPT !.block = Hash(chain, n),
                   !.pc = IF s = "sighting" THEN "credited" ELSE "head"]]
    /\ UNCHANGED chainVars

\* Mutant: the number of the block being built.
ReadHeadPending(s) ==
    LET deep == IsFinal(Len(chain) + 1, Len(watch[s].block), MinConfirmations)
        then == IF s = "gate" THEN "canonical"
                ELSE IF deep THEN "credited" ELSE "receipt"
    IN /\ watch[s].pc = "head"
       /\ watch' = [watch EXCEPT ![s].head = Len(chain) + 1, ![s].pc = then]
       /\ UNCHANGED chainVars

\* eth_blockNumber; the depth rule decides on it.
ReadHead(s) ==
    LET deep == IsFinal(Len(chain), Len(watch[s].block), MinConfirmations)
        then == IF s = "gate" THEN "canonical"
                ELSE IF deep THEN "credited" ELSE "receipt"
    IN /\ watch[s].pc = "head"
       /\ watch' = [watch EXCEPT ![s].head = Len(chain), ![s].pc = then]
       /\ UNCHANGED chainVars

\* Mutant: the hash is asked for again, the receipt is not.
AssessAgain(s, canonical) ==
    /\ watch[s].pc = "canonical"
    /\ LET verdict == AssessFinality(watch[s].block, watch[s].head, canonical,
                                     MinConfirmations)
       IN Goes(s, IF verdict.final THEN "credited" ELSE "canonical")
    /\ UNCHANGED chainVars

\* The hash at the settlement's height, which the node may fail to answer:
\* credited if final, the receipt looked up again if not.
Assess(s, canonical) ==
    /\ watch[s].pc = "canonical"
    /\ LET verdict == AssessFinality(watch[s].block, watch[s].head, canonical,
                                     MinConfirmations)
       IN Goes(s, IF verdict.final THEN "credited" ELSE "receipt")
    /\ UNCHANGED chainVars

\* The hash the node answers for the settlement's height, if it has that block.
CanonicalHash(s) ==
    IF Reached(watch[s].block) THEN Hash(chain, Len(watch[s].block)) ELSE None

Watch(s) ==
    \/ \E n \in 1..Len(chain) : ReadReceipt(s, n)
    \/ ReadHead(s)
    \/ \E h \in {CanonicalHash(s), None} : Assess(s, h)

ChainMoves == ChainStep /\ UNCHANGED watch

Next == ChainMoves \/ \E s \in Systems : Watch(s)

Spec == Init /\ [][Next]_vars

\* Blocks keep coming, the systems keep polling, and a node that fails to
\* answer does not fail for ever.
Fairness ==
    /\ WF_vars(MineBlock /\ UNCHANGED watch)
    /\ WF_vars(Watch("gate"))
    /\ SF_vars(Assess("gate", CanonicalHash("gate")))

FairSpec == Spec /\ Fairness

-----------------------------------------------------------------------------
(* differential.py *)

\* Mutant: systems that agree with each other are not graded.
DifferentialIfDisagreeing(truth, beliefs, required) ==
    LET verdicts == [s \in DOMAIN beliefs |->
                       DetectPaymentDivergence(truth, beliefs[s], required)]
        disagree == \E s, t \in DOMAIN beliefs : beliefs[s] # beliefs[t]
    IN [verdicts |-> verdicts, disagree |-> disagree,
        failing |-> {s \in DOMAIN beliefs : disagree /\ IsFailure(verdicts[s])}]

\* Every belief against the same truth.
RunDifferential(truth, beliefs, required) ==
    LET verdicts == [s \in DOMAIN beliefs |->
                       DetectPaymentDivergence(truth, beliefs[s], required)]
    IN [verdicts |-> verdicts,
        disagree |-> \E s, t \in DOMAIN beliefs : beliefs[s] # beliefs[t],
        failing |-> {s \in DOMAIN beliefs : IsFailure(verdicts[s])}]

Beliefs == [s \in Systems |-> watch[s].pc = "credited"]

\* What the oracle reads at the head, against the balances before the payment.
HeadTruth ==
    LET head == chain[Len(chain)] IN
    TruthFromBalances(head.used, chain[1].bal["payer"], head.bal["payer"],
                      chain[1].bal["payee"], head.bal["payee"])

Grades == RunDifferential(HeadTruth, Beliefs, Required)

\* The same payment graded as a metered one.
Metered(s) == DetectMeteredDivergence(HeadTruth, Beliefs[s], AuthorizedMax)

-----------------------------------------------------------------------------
(* Properties *)

\* Every variable keeps its type; a system that is past the receipt holds a
\* block at a height the chain has had, and no head above it (reorg.py:71-126).
TypeOK ==
    /\ ChainOK
    /\ watch \in [Systems -> Watcher]
    /\ \A s \in Systems :
         /\ watch[s].pc # "receipt" => Len(watch[s].block) \in 1..peak
         /\ watch[s].head <= peak

Credited(s) == watch[s].pc = "credited"

\* "final is the only safe gate for crediting an order" (reorg.py:59-63): what
\* the gate has credited is never undone by reorganisations that reach less
\* deep than the confirmations it asks for, although receipt, head and canonical
\* hash are three reads with reorganisations in between, after which the head
\* may be behind the settlement (reorg.py:36-42).
CreditSurvives ==
    Credited("gate") /\ MaxDepth < MinConfirmations =>
      CanonicalHash("gate") = watch["gate"].block

\* What the canonical chain has paid out to the payee for the settlement.
Received ==
    LET at == {i \in DOMAIN chain : chain[i].settle = "success"}
    IN IF at = {} THEN 0 ELSE chain[CHOOSE i \in at : TRUE].credited

\* Less than the invoice, if there is one.
Short == Required # None /\ Received < Required

\* The grading names exactly the systems whose belief loses money, also when
\* they all agree and when the chain took back what they had booked; a
\* disagreement always names one; for a metered payment it is more than the
\* cap, not less than an invoice, that a credit must not have received
\* (differential.py:36-64, divergence.py:128-200, server.py:225-233).
GradesAreTrue ==
    /\ Grades.failing =
         {s \in Systems : IF Credited(s) THEN Received = 0 \/ Short
                          ELSE Received > 0}
    /\ Grades.disagree => Grades.failing # {}
    /\ {s \in Systems : IsFailure(Metered(s))} =
         {s \in Systems : IF Credited(s) THEN Received \notin 1..AuthorizedMax
                          ELSE Received > 0}

\* The gate does not wait for ever: once a settlement stays on the chain with
\* room for its confirmations, it is credited, whatever was reorganised before
\* (reorg.py:94-126, "re-confirm inclusion").
GateCatchesUp ==
    <>[](\E n \in 1..(Len(chain) - MinConfirmations + 1) :
           chain[n].settle = "success") => <>Credited("gate")

=============================================================================
