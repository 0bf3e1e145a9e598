--------------------------- MODULE LiveReconcile ----------------------------
(***************************************************************************)
(* psv reconcile (src/psv/rails.py, reconcile_live): one observer proves   *)
(* one settlement by a dozen JSON-RPC reads while the chain it reads goes  *)
(* on and may be reorganised between any two of them.                      *)
(***************************************************************************)
EXTENDS Divergence, ForkingChain

CONSTANTS
    Required,         \* the invoiced amount
    Pinned,           \* whether the attestation pins the reviewed code
    Proxy,            \* whether the rail's token is a proxy
    MinConfirmations, \* FinalityPolicy.minimum_confirmations
    TagLag            \* blocks the finality tag is behind the head

ASSUME LiveAssumption ==
    /\ Required \in Nat \ {0} /\ {Pinned, Proxy} \subseteq BOOLEAN
    /\ MinConfirmations \in Nat \ {0} /\ TagLag \in Nat

VARIABLES
    obs,        \* the observer: its arguments, where it is, its settlement
    reads       \* what it has read pinned to the settlement's block number

vars == <<chainVars, obs, reads>>

-----------------------------------------------------------------------------
(* The observer *)

ReadNames == {"code", "slot", "implCode", "payerParent", "payeeParent",
              "payerAfter", "payeeAfter", "nonce", "inbound", "outbound"}

Stages == {"start", "finality", "receipt", "canonical", "recheckReceipt",
           "recheckBlock", "done", "inconclusive"} \cup ReadNames

Observation ==
    [pc : Stages, exact : BOOLEAN, believes : BOOLEAN, payerBefore : Int,
     payeeBefore : Int, finality : Nat, settlement : Seq(Block),
     verdict : Verdicts \cup {None}]

\* What the caller passes: whether the rail and its node are usable, whether
\* the authorization nonce it names is the settlement's, the balances it saw
\* before the payment, and what the payment system believes, which is chosen
\* where it is first used, with the verdict.  A wrong log index
\* (_selected_transfer) is a wrong nonce's equal: it is refused before the
\* nonce's log is looked up if the receipt succeeded, and unused if it did not.
Idle == [pc |-> "start", exact |-> FALSE, believes |-> FALSE,
         payerBefore |-> 0, payeeBefore |-> 0, finality |-> 0,
         settlement |-> <<>>, verdict |-> None]

Init ==
    /\ ChainInit
    /\ obs = Idle /\ reads = [name \in ReadNames |-> None]

\* ChainEvidenceError or RpcError: what was found out is dropped.
Inconclusive == [Idle EXCEPT !.pc = "inconclusive"]

\* Checks of the rail itself: chain id, an uncalibrated mainnet rail, and the
\* reviewed anchor block.
Start(usable, exact, i) ==
    /\ obs.pc = "start"
    /\ obs' = IF ~usable THEN Inconclusive
              ELSE [obs EXCEPT !.pc = "finality", !.exact = exact,
                               !.payerBefore = chain[i].bal["payer"],
                               !.payeeBefore = chain[i].bal["payee"]]
    /\ UNCHANGED <<chainVars, reads>>

ReadFinality ==
    /\ obs.pc = "finality"
    /\ obs' = [obs EXCEPT !.pc = "receipt",
                           !.finality = TagBlock(Len(chain), TagLag)]
    /\ UNCHANGED <<chainVars, reads>>

\* The block of chain that holds the settlement transaction.
SettledAt(n) == n \in 1..Len(chain) /\ "settle" \in chain[n].txs

Confirmations(finality, number) == finality - number + 1

\* Mutant: the settlement is looked for in the parent of the receipt's block.
ReadReceiptParent(n) ==
    /\ obs.pc = "receipt" /\ SettledAt(n)
    /\ obs' = IF Confirmations(obs.finality, n) < MinConfirmations
              THEN Inconclusive
              ELSE [obs EXCEPT !.pc = "canonical",
                               !.settlement = Hash(chain, n - 1)]
    /\ UNCHANGED <<chainVars, reads>>

ReadReceipt(n) ==
    /\ obs.pc = "receipt" /\ SettledAt(n)
    /\ obs' = IF Confirmations(obs.finality, n) < MinConfirmations
              THEN Inconclusive
              ELSE [obs EXCEPT !.pc = "canonical",
                               !.settlement = Hash(chain, n)]
    /\ UNCHANGED <<chainVars, reads>>

Number == Len(obs.settlement)
Receipt == obs.settlement[Number]

\* Mutant: the block's identity is not compared with the receipt's.
StillCanonicalAssumed == TRUE

StillCanonical == Canonical(obs.settlement)

CheckCanonical ==
    /\ obs.pc = "canonical"
    /\ obs' = IF StillCanonical THEN [obs EXCEPT !.pc = "code"]
              ELSE Inconclusive
    /\ UNCHANGED <<chainVars, reads>>

\* What the node answers to each read pinned to the settlement's block number.
Answer(name, c, n) ==
    CASE name = "code"        -> c[n].code
      [] name = "slot"        -> c[n].slot
      [] name = "implCode"    -> c[n].implCode
      [] name = "payerParent" -> c[n - 1].bal["payer"]
      [] name = "payeeParent" -> c[n - 1].bal["payee"]
      [] name = "payerAfter"  -> c[n].bal["payer"]
      [] name = "payeeAfter"  -> c[n].bal["payee"]
      [] name = "nonce"       -> c[n].used /\ obs.exact
      [] name = "inbound"     -> {k \in c[n].logs : Transfers[k][2] = "payee"}
      [] name = "outbound"    -> {k \in c[n].logs : Transfers[k][1] = "payer"}

\* The stage after a read that raised nothing.
Following(name) ==
    CASE name = "code"        -> IF Proxy THEN "slot" ELSE "payerParent"
      [] name = "slot"        -> "implCode"
      [] name = "implCode"    -> "payerParent"
      [] name = "payerParent" -> "payeeParent"
      [] name = "payeeParent" -> "payerAfter"
      [] name = "payerAfter"  -> "payeeAfter"
      [] name = "payeeAfter"  -> "nonce"
      [] name = "nonce"       -> IF Receipt.settle = "success" THEN "inbound"
                                 ELSE "recheckReceipt"
      [] name = "inbound"     -> "outbound"
      [] name = "outbound"    -> "recheckReceipt"

\* The token's or, behind a proxy, the implementation's identity differs from
\* the attestation; a proxy whose identity is not pinned is refused.
CodeDrift(r) == Pinned /\ ~r["code"]
SlotDrift(r) == ~Pinned \/ ~r["slot"]
ImplementationDrift(r) == ~r["implCode"]

\* The balances the caller saw are not those of the parent block.
BeforeDiffers(r) ==
    obs.payerBefore # r["payerParent"] \/ obs.payeeBefore # r["payeeParent"]

\* The receipt has an AuthorizationUsed of this nonce if and only if it
\* succeeded, and the nonce's state must say the same.
NonceDiffers(r) == r["nonce"] # (Receipt.settle = "success")

\* _ensure_no_same_block_race
Race(r) == r["inbound"] \cup r["outbound"] # {"settle"}

\* The balance changes the selected Transfer does not explain.
Unattributable(r) ==
    \/ r["payerAfter"] - r["payerParent"] # -Amount
    \/ r["payeeAfter"] - r["payeeParent"] \notin 1..Amount

\* Mutant: no look at the other transfers of the block.
RaceIgnored(name, r) ==
    \/ name = "code" /\ CodeDrift(r)
    \/ name = "slot" /\ SlotDrift(r)
    \/ name = "implCode" /\ ImplementationDrift(r)
    \/ name = "nonce" /\ (BeforeDiffers(r) \/ NonceDiffers(r))
    \/ name = "outbound" /\ Unattributable(r)

\* Mutant: the implementation behind a proxy is not compared.
CodeIgnored(name, r) ==
    \/ name = "code" /\ CodeDrift(r)
    \/ name = "nonce" /\ (BeforeDiffers(r) \/ NonceDiffers(r))
    \/ name = "outbound" /\ (Race(r) \/ Unattributable(r))

\* Whether the answer to a read, with those before it, stops the observation.
Refused(name, r) ==
    \/ name = "code" /\ CodeDrift(r)
    \/ name = "slot" /\ SlotDrift(r)
    \/ name = "implCode" /\ ImplementationDrift(r)
    \/ name = "nonce" /\ (BeforeDiffers(r) \/ NonceDiffers(r))
    \/ name = "outbound" /\ (Race(r) \/ Unattributable(r))

Read(name) ==
    /\ obs.pc = name /\ Reached(obs.settlement)
    /\ reads' = [reads EXCEPT ![name] = Answer(name, chain, Number)]
    /\ obs' = IF Refused(name, reads') THEN Inconclusive
              ELSE [obs EXCEPT !.pc = Following(name)]
    /\ UNCHANGED chainVars

\* The receipt again: it must still be in the block of the first one.
RecheckReceipt(n) ==
    /\ obs.pc = "recheckReceipt" /\ SettledAt(n)
    /\ obs' = IF n = Number /\ StillCanonical
              THEN [obs EXCEPT !.pc = "recheckBlock"] ELSE Inconclusive
    /\ UNCHANGED <<chainVars, reads>>

\* A reverted transaction moved nothing, whatever the block's balances did.
Truth(r) ==
    IF Receipt.settle = "success"
    THEN TruthFromBalances(TRUE, r["payerParent"], r["payerAfter"],
                           r["payeeParent"], r["payeeAfter"])
    ELSE [nonce_consumed |-> FALSE, payer_delta |-> 0, payee_delta |-> 0]

RecheckBlock(believes) ==
    /\ obs.pc = "recheckBlock"
    /\ obs' = IF StillCanonical
              THEN [obs EXCEPT !.pc = "done", !.believes = believes,
                      !.verdict = DetectPaymentDivergence(Truth(reads),
                                                          believes, Required)]
              ELSE Inconclusive
    /\ UNCHANGED <<chainVars, reads>>

\* A read fails, or the node does not know the transaction or the block.
RpcFails ==
    /\ obs.pc \notin {"start", "done", "inconclusive"}
    /\ obs' = Inconclusive
    /\ UNCHANGED <<chainVars, reads>>

Observe ==
    \/ \E usable, exact \in BOOLEAN, i \in DOMAIN chain : Start(usable, exact, i)
    \/ ReadFinality
    \/ \E n \in 1..Len(chain) : ReadReceipt(n) \/ RecheckReceipt(n)
    \/ CheckCanonical
    \/ \E name \in ReadNames : Read(name)
    \/ \E believes \in BOOLEAN : RecheckBlock(believes)
    \/ RpcFails

ChainMoves == ChainStep /\ UNCHANGED <<obs, reads>>

Next == ChainMoves \/ Observe

Spec == Init /\ [][Next]_vars

-----------------------------------------------------------------------------
(* Properties *)

\* Every variable keeps its type: an observation past its receipt holds the
\* block it is about (rails.py:848-983).
TypeOK ==
    /\ ChainOK
    /\ obs \in Observation
    /\ reads = [name \in ReadNames |-> reads[name]]
    /\ obs.pc \notin {"start", "finality", "receipt", "inconclusive"} =>
         Number > 1 /\ "settle" \in Receipt.txs

\* What the chain really says about the settlement: what it credited, in the
\* block the evidence names.
GroundTruth ==
    IF Receipt.settle = "success"
    THEN [nonce_consumed |-> TRUE, payer_delta |-> -Amount,
          payee_delta |-> Receipt.credited]
    ELSE [nonce_consumed |-> FALSE, payer_delta |-> 0, payee_delta |-> 0]

\* "A verdict is derived from one canonical receipt and one pinned block
\* snapshot" (rails.py:3-5): every value an emitted verdict rests on is the
\* value at the block whose hash the evidence carries, although all are read
\* by block number and the chain moves in between (rails.py:893-981).
OneSnapshot ==
    obs.pc = "done" =>
      \A name \in ReadNames :
        reads[name] # None => reads[name] = Answer(name, obs.settlement, Number)

\* The verdict is the right one for what this very transaction moved, whatever
\* else was in its block, before it or after it (rails.py:802-830, 917-983).
VerdictIsTrue ==
    obs.pc = "done" =>
      obs.verdict = DetectPaymentDivergence(GroundTruth, obs.believes, Required)

\* No verdict about a token whose code or implementation is not the reviewed
\* one, even if only one side of a fork has the upgrade (rails.py:669-694,
\* 898-904).
OnlyReviewedCode ==
    obs.pc = "done" /\ Pinned =>
      Receipt.code /\ (Proxy => Receipt.slot /\ Receipt.implCode)

\* The block a verdict names stays canonical after the verdict, as long as no
\* reorganisation reaches as deep as the finality policy asks below the highest
\* head: the confirmations are counted from a head that was read once, before
\* the receipt, and the chain may have lost blocks since (rails.py:878-891,
\* 972-981).
VerdictIsFinal ==
    obs.pc = "done" /\ MaxDepth < MinConfirmations + TagLag =>
      Canonical(obs.settlement)

=============================================================================
