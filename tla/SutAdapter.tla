----------------------------- MODULE SutAdapter -----------------------------
(***************************************************************************)
(* What a client makes of the answer to POST /pay (src/psv/sut.py).  The   *)
(* order id, which the server echoes, and the ways a body can be malformed *)
(* are left out: both end in SutAdapterError, here None.                   *)
(***************************************************************************)
CONSTANT None   \* Python's None

PayOutcome == {"settled", "pending", "unsettled"}

\* HttpSutAdapter.pay: an HTTP failure is an error, and so is a settled answer
\* that says settlement_pending.
ParsePay(response) ==
    IF \/ response.status # 200
       \/ response.settled /\ response.reason = "settlement_pending"
    THEN None
    ELSE [settled |-> response.settled, reason |-> response.reason,
          submitted_tx |-> response.submitted_tx]

\* Mutant: settlement_pending is a failure like any other.
OutcomeWithoutPending(result) ==
    IF result.settled THEN "settled" ELSE "unsettled"

\* PayResult.outcome: only a named transaction can be pending.
Outcome(result) ==
    IF result.settled THEN "settled"
    ELSE IF result.reason = "settlement_pending" /\ result.submitted_tx # None
         THEN "pending" ELSE "unsettled"

=============================================================================
