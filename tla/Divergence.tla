----------------------------- MODULE Divergence -----------------------------
(***************************************************************************)
(* The verdicts of src/psv/divergence.py: what the chain proves about one  *)
(* payment (SettlementTruth) against what the payment system believes.     *)
(***************************************************************************)
EXTENDS Integers

CONSTANT None   \* Python's None: no required amount was given

SettlementTruth == [nonce_consumed : BOOLEAN, payer_delta : Int,
                    payee_delta : Int]

Verdicts == {"consistent_paid", "consistent_unpaid", "silent_loss",
             "phantom_credit", "underpaid_credit",
             "over_authorized_settlement"}

\* SettlementTruth.funds_moved
FundsMoved(chain) ==
    chain.nonce_consumed /\ chain.payee_delta > 0 /\ chain.payer_delta < 0

\* The four verdicts that both schemes share.
Belief(moved, believesPaid) ==
    CASE moved /\ believesPaid   -> "consistent_paid"
      [] ~moved /\ ~believesPaid -> "consistent_unpaid"
      [] moved /\ ~believesPaid  -> "silent_loss"
      [] ~moved /\ believesPaid  -> "phantom_credit"

\* The exact scheme: less than the invoice is a failure.
DetectPaymentDivergence(chain, believesPaid, required) ==
    IF /\ FundsMoved(chain) /\ believesPaid
       /\ required # None /\ chain.payee_delta < required
    THEN "underpaid_credit"
    ELSE Belief(FundsMoved(chain), believesPaid)

\* The upto scheme: more than the authorized maximum is a failure.
DetectMeteredDivergence(chain, believesPaid, authorizedMax) ==
    IF FundsMoved(chain) /\ believesPaid /\ chain.payee_delta > authorizedMax
    THEN "over_authorized_settlement"
    ELSE Belief(FundsMoved(chain), believesPaid)

\* Divergence.is_failure: every verdict but the two consistent ones is
\* critical.
IsFailure(verdict) == verdict \notin {"consistent_paid", "consistent_unpaid"}

\* settlement_truth_from_balances
TruthFromBalances(consumed, payerBefore, payerAfter, payeeBefore, payeeAfter) ==
    [nonce_consumed |-> consumed,
     payer_delta |-> payerAfter - payerBefore,
     payee_delta |-> payeeAfter - payeeBefore]

=============================================================================
