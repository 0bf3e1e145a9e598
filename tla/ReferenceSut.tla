---------------------------- MODULE ReferenceSut ----------------------------
(***************************************************************************)
(* The reference payment system (src/psv/reference_sut/server.py) between  *)
(* its HTTP callers and the chain it settles on.                           *)
(*                                                                         *)
(* FastAPI runs the synchronous handlers in a thread pool, so several pay  *)
(* calls are in flight at once.  A step of this module is the code between *)
(* two JSON-RPC calls, the points at which a thread waits and another one  *)
(* runs; each RPC call may fail in the ways CONSTANT Faults names.         *)
(*                                                                         *)
(* A settlement transaction is identified by what its hash is computed     *)
(* from: facilitator nonce, authorization and gas price.  Anvil's automine *)
(* puts each in a block of its own, so the transaction with nonce n is in  *)
(* block n + 1 and the ledger's SettlementIdentity (chain, asset, hash,    *)
(* log index) is the transaction itself.                                   *)
(***************************************************************************)
EXTENDS Naturals, Sequences, FiniteSets, SutAdapter

CONSTANTS
    Order,                  \* order ids quote can hand out
    Auth,                   \* signed EIP-3009 authorizations
    Thread,                 \* workers of the HTTP server's thread pool
    Executable,             \* authorizations the token executes if unused
    Unsafe,                 \* authorizations the safety policy refuses
    IdempotentPay,          \* SutConfig.idempotent_pay
    ReconciliationEnabled,  \* SutConfig.reconciliation_enabled
    ConfirmWithoutWaiting,  \* values SutConfig.confirm_without_waiting has:
                            \* each confirmation reads it anew
    RepriceOnPay,           \* SutConfig.reprice_on_pay
    Price,                  \* SutConfig.price
    FairPrices,             \* values the fair-price oracle is moved to
    TolNum, TolDen,         \* SutConfig.reprice_tolerance, as a fraction
    QuoteTtl,               \* SutConfig.quote_ttl
    EventModes,             \* event modes the token's admin switches between
    RunReconcile,           \* whether the reconciliation job is run
    Faults,                 \* RPC failures that can happen
    MaxClock,               \* bound: how far the clock runs
    MaxAttempts,            \* bound: settlement attempts per order
    MaxRestores,            \* bound: restores from backup
    MaxReorgs               \* bound: chain reorganisations

FaultKinds == {"read", "gasPrice", "send", "sendLost", "receipt", "logs"}

ASSUME SutAssumption ==
    /\ Executable \subseteq Auth /\ Unsafe \subseteq Auth
    /\ {IdempotentPay, ReconciliationEnabled, RepriceOnPay, RunReconcile}
         \subseteq BOOLEAN
    /\ ConfirmWithoutWaiting \subseteq BOOLEAN
    /\ Price \in Nat /\ FairPrices \subseteq Nat /\ Price \in FairPrices
    /\ TolNum \in Nat /\ TolDen \in Nat \ {0}
    /\ QuoteTtl \in Nat /\ EventModes \subseteq {0, 1} /\ 0 \in EventModes
    /\ Faults \subseteq FaultKinds
    /\ MaxClock \in Nat /\ MaxAttempts \in Nat
    /\ MaxRestores \in Nat /\ MaxReorgs \in Nat

VARIABLES
    clock,      \* int(time.time())
    fairPrice,  \* ReferenceSut.fair_price
    orders,     \* ReferenceSut.orders, the quoted orders (None: not in it)
    recovered,  \* settlements that rec_ orders in ReferenceSut.orders book
    backup,     \* what backup_ledger last returned, or None
    job,        \* credits a running reconcile has fetched, or None
    threads,    \* what each pool thread is doing and last answered
    chain,      \* mined settlement transactions, oldest first
    mempool,    \* accepted, unmined settlement transactions
    eventMode,  \* the token's eventMode
    issued,     \* order ids already handed out
    sent,       \* history: which order each accepted broadcast was for
    restores, reorgs

ledgerVars == <<orders, recovered, backup, job, issued>>
chainVars == <<chain, mempool, eventMode, sent>>
envVars == <<clock, fairPrice, restores, reorgs>>
vars == <<ledgerVars, chainVars, envVars, threads>>

-----------------------------------------------------------------------------
(* Data *)

GasPrices == {"node", "fallback"}

Tx == [nonce : Nat, auth : Auth, gas : GasPrices]

Entry == [tx : Tx, ok : BOOLEAN, mode : {0, 1}]

OrderRecord == [expires : Nat, createdBlock : Nat, attempts : Nat,
                paid : BOOLEAN, submittedTx : Tx \cup {None},
                pendingTx : Tx \cup {None}, pendingAuth : Auth \cup {None},
                identity : Tx \cup {None}]

AnswerKinds == {"none", "unknown_order", "idempotent", "quote_expired",
                "stale_quote", "settlement_pending", "settled", "unsettled",
                "server_error"}

ThreadRecord == [pc : {"idle", "submit", "send", "wait", "confirm"},
                 order : Order \cup {None}, auth : Auth \cup {None},
                 tx : Tx \cup {None}, receipt : Entry \cup {None},
                 since : Nat, live : BOOLEAN,
                 answer : [kind : AnswerKinds, tx : Tx \cup {None}]]

Ledger == [orders : [Order -> OrderRecord \cup {None}], recovered : SUBSET Tx]

\* What a ledger has booked, as PaymentLedger sees it.
Books == [paid : [Order -> Tx \cup {None}], recovered : SUBSET Tx]

ASSUME NoneAssumption ==
    /\ None \notin Auth /\ None \notin Tx /\ None \notin AnswerKinds
    /\ None \notin OrderRecord /\ None \notin Ledger /\ None \notin Books

Idle(kind, tx) ==
    [pc |-> "idle", order |-> None, auth |-> None, tx |-> None,
     receipt |-> None, since |-> 0, live |-> TRUE,
     answer |-> [kind |-> kind, tx |-> tx]]

Init ==
    /\ clock = 0 /\ fairPrice = Price
    /\ orders = [o \in Order |-> None] /\ recovered = {}
    /\ backup = None /\ job = None /\ issued = {}
    /\ threads = [t \in Thread |-> Idle("none", None)]
    /\ chain = <<>> /\ mempool = {} /\ eventMode = 0 /\ sent = {}
    /\ restores = 0 /\ reorgs = 0

-----------------------------------------------------------------------------
(* The node, as the code uses it *)

Mined(tx) == tx.nonce < Len(chain) /\ chain[tx.nonce + 1].tx = tx

\* Authorization nonces the token has marked used.
UsedAuths == {chain[i].tx.auth : i \in {j \in DOMAIN chain : chain[j].ok}}

\* Transactions whose legacy Transfer log to the merchant eth_getLogs returns.
CreditLogs == {chain[i].tx : i \in
                 {j \in DOMAIN chain : chain[j].ok /\ chain[j].mode = 0}}

\* eth_getTransactionCount(facilitator, "pending").
PendingNonce(n) ==
    /\ n >= Len(chain)
    /\ \A tx \in mempool : tx.nonce # n
    /\ \A m \in Len(chain)..(n - 1) : \E tx \in mempool : tx.nonce = m

\* A transaction with this one's nonce that a better-paid one may replace.
Replaceable(tx, by) == tx.gas = "fallback" /\ by.gas = "node"

\* eth_sendRawTransaction takes the transaction into the mempool.
Accepts(tx) ==
    /\ tx.nonce >= Len(chain)
    /\ \A q \in mempool : q.nonce = tx.nonce => Replaceable(q, tx)

Enqueue(tx) == mempool' = {q \in mempool : q.nonce # tx.nonce} \cup {tx}

\* transferWithAuthorization executes, or reverts on a used authorization.
Mine ==
    \E tx \in mempool :
      /\ tx.nonce = Len(chain)
      /\ chain' = Append(chain, [tx |-> tx, mode |-> eventMode,
                     ok |-> tx.auth \in Executable \ UsedAuths])
      /\ mempool' = mempool \ {tx}
      /\ UNCHANGED <<eventMode, sent, ledgerVars, envVars, threads>>

\* A reorganisation drops the blocks after the first n; their transactions
\* are gone (evm_revert) or wait in the mempool again.
Reorg(n, requeue) ==
    /\ reorgs < MaxReorgs /\ n < Len(chain)
    /\ chain' = SubSeq(chain, 1, n)
    /\ mempool' = IF requeue
                  THEN mempool \cup {chain[i].tx : i \in (n + 1)..Len(chain)}
                  ELSE mempool
    /\ reorgs' = reorgs + 1
    /\ UNCHANGED <<eventMode, sent, ledgerVars, clock, fairPrice, restores,
                   threads>>

SetEventMode(m) ==
    /\ m # eventMode /\ eventMode' = m
    /\ UNCHANGED <<chain, mempool, sent, ledgerVars, envVars, threads>>

-----------------------------------------------------------------------------
(* quote and the guards of pay *)

QuoteIsStale(locked, fair) ==
    IF locked = 0 THEN fair > 0 ELSE fair * TolDen > locked * (TolDen + TolNum)

Quote(o) ==
    /\ o \notin issued
    /\ issued' = issued \cup {o}
    /\ orders' = [orders EXCEPT ![o] =
         [expires |-> clock + QuoteTtl, createdBlock |-> Len(chain),
          attempts |-> 0, paid |-> FALSE, submittedTx |-> None,
          pendingTx |-> None, pendingAuth |-> None, identity |-> None]]
    /\ UNCHANGED <<recovered, backup, job, chainVars, envVars, threads>>

Known(o) == orders[o] # None
Paid(o) == Known(o) /\ orders[o].paid
\* Mutant: the idempotency check is missing.
CachedNever(o) == FALSE

Cached(o) == Paid(o) /\ IdempotentPay
\* Mutant: a retry broadcasts again instead of waiting on the pending hash.
AwaitsPendingNever(o) == FALSE

\* Mutant: the pending retry comes after the expiry guard.
AwaitsPendingUnexpired(o) ==
    /\ Known(o) /\ ~Cached(o) /\ IdempotentPay
    /\ orders[o].pendingTx # None /\ clock <= orders[o].expires

AwaitsPending(o) == /\ Known(o) /\ ~Cached(o) /\ IdempotentPay
                    /\ orders[o].pendingTx # None
                    /\ orders[o].pendingAuth # None
FallsThrough(o) == Known(o) /\ ~Cached(o) /\ ~AwaitsPending(o)
Expired(o) == clock > orders[o].expires
Stale == RepriceOnPay /\ QuoteIsStale(Price, fairPrice)

Available(t) == threads[t].pc = "idle"

Reply(t, kind, tx) == threads' = [threads EXCEPT ![t] = Idle(kind, tx)]

\* A thread holding the order it looked up and the authorization it acts on.
Starts(pc, o, a) ==
    [Idle("none", None) EXCEPT !.pc = pc, !.order = o, !.auth = a,
                               !.since = orders[o].createdBlock]

PayUnknown(t, o) ==
    /\ Available(t) /\ o \in issued /\ ~Known(o)
    /\ Reply(t, "unknown_order", None)
    /\ UNCHANGED <<ledgerVars, chainVars, envVars>>

PayCached(t, o) ==
    /\ Available(t) /\ Cached(o)
    /\ Reply(t, "idempotent", orders[o].submittedTx)
    /\ UNCHANGED <<ledgerVars, chainVars, envVars>>

\* Before the price guards on purpose: waits on the broadcast already made.
PayAwaitsPending(t, o) ==
    /\ Available(t) /\ AwaitsPending(o)
    /\ threads' = [threads EXCEPT ![t] =
         [Starts("wait", o, orders[o].pendingAuth)
            EXCEPT !.tx = orders[o].pendingTx]]
    /\ UNCHANGED <<ledgerVars, chainVars, envVars>>

PayExpired(t, o) ==
    /\ Available(t) /\ FallsThrough(o) /\ Expired(o)
    /\ Reply(t, "quote_expired", None)
    /\ UNCHANGED <<ledgerVars, chainVars, envVars>>

PayStale(t, o) ==
    /\ Available(t) /\ FallsThrough(o) /\ ~Expired(o) /\ Stale
    /\ Reply(t, "stale_quote", None)
    /\ UNCHANGED <<ledgerVars, chainVars, envVars>>

PaySubmits(t, o, a) ==
    /\ Available(t) /\ FallsThrough(o) /\ ~Expired(o) /\ ~Stale
    /\ orders[o].attempts < MaxAttempts
    /\ orders' = [orders EXCEPT ![o].attempts = @ + 1]
    /\ threads' = [threads EXCEPT ![t] =
         Starts("submit", o, a)]
    /\ UNCHANGED <<recovered, backup, job, issued, chainVars, envVars>>

-----------------------------------------------------------------------------
(* _submit_settlement *)

\* A thread writes to the _Order object it looked up; after a restore that
\* object is no longer in the ledger.
Write(t, rec) ==
    orders' = IF threads[t].live
              THEN [orders EXCEPT ![threads[t].order] = rec]
              ELSE orders

OrderOf(t) == orders[threads[t].order]

\* Mutant: settles the authorization noted on the order, not the call's.
PrepareNoted(t, n, gas) ==
    /\ threads[t].pc = "submit" /\ threads[t].auth \notin Unsafe
    /\ PendingNonce(n)
    /\ gas = "fallback" => "gasPrice" \in Faults
    /\ threads' = [threads EXCEPT ![t] =
         [@ EXCEPT !.pc = "send",
                   !.tx = [nonce |-> n, auth |-> OrderOf(t).pendingAuth,
                           gas |-> gas]]]
    /\ UNCHANGED <<ledgerVars, chainVars, envVars>>

\* require_safe_submission passed; the facilitator nonce and the gas price are
\* read and the transaction is signed.
Prepare(t, n, gas) ==
    /\ threads[t].pc = "submit" /\ threads[t].auth \notin Unsafe
    /\ PendingNonce(n)
    /\ gas = "fallback" => "gasPrice" \in Faults
    /\ threads' = [threads EXCEPT ![t] =
         [@ EXCEPT !.pc = "send",
                   !.tx = [nonce |-> n, auth |-> threads[t].auth,
                           gas |-> gas]]]
    /\ UNCHANGED <<ledgerVars, chainVars, envVars>>

\* The policy refuses, or one of the reads before signing fails.
PrepareRaises(t) ==
    /\ threads[t].pc = "submit"
    /\ threads[t].auth \in Unsafe \/ "read" \in Faults
    /\ Reply(t, "server_error", None)
    /\ UNCHANGED <<ledgerVars, chainVars, envVars>>

Broadcast(t) ==
    /\ Accepts(threads[t].tx)
    /\ Enqueue(threads[t].tx)
    /\ sent' = sent \cup {[order |-> threads[t].order, tx |-> threads[t].tx]}
    /\ UNCHANGED <<chain, eventMode, recovered, backup, job, issued, envVars>>

Send(t) ==
    /\ threads[t].pc = "send"
    /\ Broadcast(t)
    /\ threads' = [threads EXCEPT ![t].pc = "wait"]
    /\ Write(t, [OrderOf(t) EXCEPT !.submittedTx = threads[t].tx])

\* The node took the transaction, the answer was lost: the call raises.
SendLost(t) ==
    /\ threads[t].pc = "send" /\ "sendLost" \in Faults
    /\ Broadcast(t)
    /\ Reply(t, "server_error", None)
    /\ UNCHANGED orders

SendRejected(t) ==
    /\ threads[t].pc = "send"
    /\ ~Accepts(threads[t].tx) \/ "send" \in Faults
    /\ Reply(t, "server_error", None)
    /\ UNCHANGED <<ledgerVars, chainVars, envVars>>

-----------------------------------------------------------------------------
(* _confirm *)

NotPending(rec) == [rec EXCEPT !.pendingTx = None, !.pendingAuth = None]

\* wait_for_receipt answers; the order stops being pending before the logs
\* are fetched.
GotReceipt(t) ==
    /\ threads[t].pc = "wait" /\ FALSE \in ConfirmWithoutWaiting
    /\ Mined(threads[t].tx)
    /\ threads' = [threads EXCEPT ![t] =
         [@ EXCEPT !.pc = "confirm",
                   !.receipt = chain[threads[t].tx.nonce + 1]]]
    /\ Write(t, NotPending(OrderOf(t)))
    /\ UNCHANGED <<recovered, backup, job, issued, chainVars, envVars>>

\* Mutant: the broadcast hash is answered but not noted on the order.
NoReceiptForgets(t) ==
    /\ threads[t].pc = "wait" /\ FALSE \in ConfirmWithoutWaiting
    /\ ~Mined(threads[t].tx) \/ "receipt" \in Faults
    /\ Reply(t, "settlement_pending", threads[t].tx)
    /\ UNCHANGED <<ledgerVars, chainVars, envVars>>

\* No receipt within receipt_tries polls, or the RPC failed.
NoReceipt(t) ==
    /\ threads[t].pc = "wait" /\ FALSE \in ConfirmWithoutWaiting
    /\ ~Mined(threads[t].tx) \/ "receipt" \in Faults
    /\ Reply(t, "settlement_pending", threads[t].tx)
    /\ Write(t, [OrderOf(t) EXCEPT !.pendingTx = threads[t].tx,
                                 !.pendingAuth = threads[t].auth])
    /\ UNCHANGED <<recovered, backup, job, issued, chainVars, envVars>>

\* confirm_without_waiting: the confirmer is asked without a receipt, and
\* without one it confirms nothing.
SkipReceipt(t) ==
    /\ threads[t].pc = "wait" /\ TRUE \in ConfirmWithoutWaiting
    /\ Reply(t, "unsettled", threads[t].tx)
    /\ Write(t, NotPending(OrderOf(t)))
    /\ UNCHANGED <<recovered, backup, job, issued, chainVars, envVars>>

\* settlement_log_index before its eth_getLogs: the receipt of this
\* transaction, successful, and not from before the quote.
WorthFetching(t) ==
    LET th == threads[t] IN
    /\ th.receipt.ok
    /\ th.receipt.tx = th.tx
    /\ th.tx.nonce + 1 >= th.since

\* ... and after it: the receipt holds the watched Transfer, fetched as well,
\* and an AuthorizationUsed of this authorization.
Settled(t) ==
    LET th == threads[t] IN
    /\ th.receipt.mode = 0
    /\ th.tx \in CreditLogs
    /\ th.receipt.tx.auth = th.auth

\* Mutant: any Transfer from this payer counts as this order's settlement.
ConfirmAnyTransfer(t) ==
    /\ threads[t].pc = "confirm"
    /\ \E x \in CreditLogs :
         /\ Reply(t, "settled", x)
         /\ Write(t, [OrderOf(t) EXCEPT !.paid = TRUE, !.identity = x])
    /\ UNCHANGED <<recovered, backup, job, issued, chainVars, envVars>>

\* Mutant: a mined receipt is enough, whatever its status and logs.
ConfirmMined(t) ==
    /\ threads[t].pc = "confirm"
    /\ Reply(t, "settled", threads[t].tx)
    /\ Write(t, [OrderOf(t) EXCEPT !.paid = TRUE,
                                   !.identity = threads[t].tx])
    /\ UNCHANGED <<recovered, backup, job, issued, chainVars, envVars>>

ConfirmSettled(t) ==
    /\ threads[t].pc = "confirm"
    /\ WorthFetching(t) /\ Settled(t)
    /\ Reply(t, "settled", threads[t].tx)
    /\ Write(t, [OrderOf(t) EXCEPT !.paid = TRUE,
                                 !.identity = threads[t].tx])
    /\ UNCHANGED <<recovered, backup, job, issued, chainVars, envVars>>

ConfirmUnsettled(t) ==
    /\ threads[t].pc = "confirm"
    /\ ~(WorthFetching(t) /\ Settled(t))
    /\ Reply(t, "unsettled", threads[t].tx)
    /\ UNCHANGED <<ledgerVars, chainVars, envVars>>

ConfirmRaises(t) ==
    /\ threads[t].pc = "confirm" /\ WorthFetching(t)
    /\ "logs" \in Faults
    /\ Reply(t, "server_error", None)
    /\ UNCHANGED <<ledgerVars, chainVars, envVars>>

-----------------------------------------------------------------------------
(* Backup, restore and reconciliation *)

\* A backup that no restore will follow is not taken.
Backup ==
    /\ restores < MaxRestores
    /\ backup' = [orders |-> orders, recovered |-> recovered]
    /\ UNCHANGED <<orders, recovered, job, issued, chainVars, envVars, threads>>

\* restore_ledger replaces every _Order object; pay calls in flight go on
\* with the objects they hold.
Restore ==
    /\ backup # None /\ restores < MaxRestores
    /\ orders' = backup.orders /\ recovered' = backup.recovered
    /\ restores' = restores + 1
    /\ threads' = [t \in Thread |->
         [threads[t] EXCEPT !.live = @ /\ threads[t].pc = "idle"]]
    /\ UNCHANGED <<backup, job, issued, chainVars, clock, fairPrice, reorgs>>

\* Settlements the ledger has a paid record of.
KnownSettlements ==
    recovered \cup {orders[o].identity : o \in {p \in Order : Paid(p)}}

\* Mutant: a mined transaction counts as a credit, reverted or not.
ReconcileFetchMined ==
    /\ RunReconcile /\ job = None
    /\ job' = {chain[i].tx : i \in DOMAIN chain}
    /\ UNCHANGED <<orders, recovered, backup, issued, chainVars, envVars,
                   threads>>

\* reconcile: the credits are fetched first ...
ReconcileFetch ==
    /\ RunReconcile /\ job = None
    /\ job' = CreditLogs
    /\ UNCHANGED <<orders, recovered, backup, issued, chainVars, envVars,
                   threads>>

\* Mutant: an order that was submitted counts as booked even if it is unpaid.
ReconcileBookSubmitted ==
    /\ job # None
    /\ recovered' = IF ReconciliationEnabled
                    THEN recovered \cup (job \ {orders[o].submittedTx :
                           o \in {p \in Order : Known(p)}})
                    ELSE recovered
    /\ job' = None
    /\ UNCHANGED <<orders, backup, issued, chainVars, envVars, threads>>

\* ... and compared with the ledger after that answer arrived.
ReconcileBook ==
    /\ job # None
    /\ recovered' = IF ReconciliationEnabled
                    THEN recovered \cup (job \ KnownSettlements)
                    ELSE recovered
    /\ job' = None
    /\ UNCHANGED <<orders, backup, issued, chainVars, envVars, threads>>

-----------------------------------------------------------------------------
(* The environment and the whole system *)

Tick ==
    /\ clock < MaxClock /\ clock' = clock + 1
    /\ UNCHANGED <<fairPrice, restores, reorgs, ledgerVars, chainVars, threads>>

MoveFairPrice(p) ==
    /\ p # fairPrice /\ fairPrice' = p
    /\ UNCHANGED <<clock, restores, reorgs, ledgerVars, chainVars, threads>>

Pay(t, o) ==
    \/ PayUnknown(t, o)
    \/ PayCached(t, o)
    \/ PayAwaitsPending(t, o)
    \/ PayExpired(t, o)
    \/ PayStale(t, o)
    \/ \E a \in Auth : PaySubmits(t, o, a)

\* Candidates for the next facilitator nonce.
Nonces == {Len(chain)} \cup {tx.nonce + 1 : tx \in mempool}

Submission(t) ==
    \/ \E n \in Nonces, gas \in GasPrices : Prepare(t, n, gas)
    \/ PrepareRaises(t)
    \/ Send(t)
    \/ SendLost(t)
    \/ SendRejected(t)

Confirmation(t) ==
    \/ GotReceipt(t)
    \/ NoReceipt(t)
    \/ SkipReceipt(t)
    \/ ConfirmSettled(t)
    \/ ConfirmUnsettled(t)
    \/ ConfirmRaises(t)

Next ==
    \/ \E o \in Order : Quote(o)
    \/ \E t \in Thread, o \in Order : Pay(t, o)
    \/ \E t \in Thread : Submission(t) \/ Confirmation(t)
    \/ Backup \/ Restore \/ ReconcileFetch \/ ReconcileBook
    \/ Mine
    \/ \E n \in 0..Len(chain), requeue \in BOOLEAN : Reorg(n, requeue)
    \/ \E m \in EventModes : SetEventMode(m)
    \/ \E p \in FairPrices : MoveFairPrice(p)
    \/ Tick

Spec == Init /\ [][Next]_vars

\* The node keeps mining, a request that is running keeps running, a fault
\* does not last for ever, callers repeat a pay that was answered pending,
\* and the reconciliation job runs again and again.
Fairness ==
    /\ WF_vars(Mine)
    /\ \A t \in Thread :
         /\ WF_vars(Submission(t))
         /\ WF_vars(Confirmation(t))
         /\ SF_vars(GotReceipt(t))
         /\ SF_vars(ConfirmSettled(t))
    /\ \A o \in Order : SF_vars(\E t \in Thread : PayAwaitsPending(t, o))
    /\ WF_vars(ReconcileFetch)
    /\ WF_vars(ReconcileBook)

FairSpec == Spec /\ Fairness

-----------------------------------------------------------------------------
(* Properties *)

\* The shapes that the dataclasses _Order and ReferenceSut and the RPC results
\* give the variables.
Shapes ==
    /\ clock \in Nat /\ fairPrice \in Nat
    /\ orders \in [Order -> OrderRecord \cup {None}]
    /\ recovered \subseteq Tx
    /\ backup \in Ledger \cup {None}
    /\ job \in (SUBSET Tx) \cup {None}
    /\ threads \in [Thread -> ThreadRecord]
    /\ chain \in Seq(Entry) /\ mempool \subseteq Tx /\ eventMode \in {0, 1}
    /\ issued \subseteq Order
    /\ sent \subseteq [order : Order, tx : Tx]
    /\ restores \in Nat /\ reorgs \in Nat

\* What a thread holds at each stage of a pay call has been looked up, and the
\* order it will write to is in the ledger unless a restore has orphaned it.
ThreadTyped(th, ords) ==
    /\ th \in ThreadRecord
    /\ th.pc # "idle" => th.order \in Order /\ th.auth \in Auth
    /\ th.pc \in {"send", "wait", "confirm"} => th.tx \in Tx
    /\ th.pc = "confirm" => th.receipt \in Entry
    /\ th.pc # "idle" /\ th.live => ords[th.order] \in OrderRecord

\* The orders a ledger calls paid.
PaidOrders(ledger) == {o \in Order : ledger[o] # None /\ ledger[o].paid}

\* Every variable keeps its shape, a pay call in flight holds what its next step
\* uses, and no order, in the ledger or in the backup, is paid without the
\* identity of a settlement (server.py:79-117, 143-234, 255-263).
TypeOK ==
    /\ Shapes
    /\ \A t \in Thread : ThreadTyped(threads[t], orders)
    /\ \A o \in PaidOrders(orders) : orders[o].identity \in Tx
    /\ backup # None =>
         \A o \in PaidOrders(backup.orders) : backup.orders[o].identity \in Tx

\* The transaction is on the chain and moved the funds.
Executed(tx) == Mined(tx) /\ chain[tx.nonce + 1].ok

\* Successful settlements broadcast for an order.
Received == {s \in sent : Executed(s.tx)}
Settlements(o) == {s.tx : s \in {r \in Received : r.order = o}}

\* What GET /status answers about an order (server.py:236-253).
Status(o) ==
    [known |-> Known(o), paid |-> Paid(o),
     submitted_tx |-> IF Known(o) THEN orders[o].submittedTx ELSE None]

\* No phantom credit: an order the ledger calls paid names a transaction that
\* was broadcast for that very order and moved the funds on chain, whatever
\* calls overlapped, RPC calls failed or backups were restored (server.py:
\* 188-234, 261-263).
PaidIsBacked ==
    \A o \in Order : Paid(o) => orders[o].identity \in Settlements(o)

\* One on-chain settlement never pays for two quoted orders, even if callers
\* present one authorization for both at once (server.py:184-233,
\* confirmer.py "An unrelated historical transfer can never satisfy this").
NoSharedSettlement ==
    \A o, p \in Order :
      o # p /\ Paid(o) /\ Paid(p) => orders[o].identity # orders[p].identity

\* The body of an answer to POST /pay (server.py:143-234); an exception is
\* FastAPI's status 500.
PayResponse(answer) ==
    [status |-> IF answer.kind = "server_error" THEN 500 ELSE 200,
     settled |-> answer.kind \in {"settled", "idempotent"},
     submitted_tx |-> answer.tx,
     reason |-> IF answer.kind \in {"unknown_order", "quote_expired",
                                   "stale_quote", "settlement_pending"}
                THEN answer.kind ELSE None]

\* What a client concludes from an answer is true of the chain: settled names
\* a transaction that moved the funds, pending one that was broadcast, so
\* that there is something to reconcile, and unsettled, if it names one, one
\* that is mined and reverted, so that paying again with a new authorization
\* debits nobody twice.  The one exception is the documented blindness to a
\* drifted event (sut.py:74-89, server.py:188-234; docs/sc1-abi-drift.md).
OutcomeIsTrue ==
    \A t \in {u \in Thread : threads[u].answer.kind # "none"} :
      LET result == ParsePay(PayResponse(threads[t].answer))
          tx == result.submitted_tx
      IN result # None =>
           /\ Outcome(result) = "settled" => Executed(tx)
           /\ Outcome(result) = "pending" => \E s \in sent : s.tx = tx
           /\ Outcome(result) = "unsettled" /\ tx # None =>
                Mined(tx) /\ (~Executed(tx) \/ chain[tx.nonce + 1].mode = 1)

\* "A robust system never settles the same order twice" (server.py:149).
SettledAtMostOnce ==
    \A o \in Order : \A x, y \in Settlements(o) : x = y

\* No silent loss: a settlement that moved funds for an order is booked, is
\* the pending transaction a retry will wait on, or is being confirmed
\* (server.py:160-171, 199-212).
NoStrandedSettlement ==
    \A o \in Order : \A tx \in Settlements(o) :
      \/ tx \in KnownSettlements
      \/ Known(o) /\ orders[o].pendingTx = tx
      \/ \E t \in Thread : /\ threads[t].pc \in {"wait", "confirm"}
                            /\ threads[t].order = o /\ threads[t].tx = tx
                            /\ threads[t].live

\* The transaction status shows for a paid order is the one that paid it, which
\* the cached answer of a re-pay repeats (server.py:152-158, 185, 236-253).
StatusNamesTheSettlement ==
    \A o \in Order :
      Status(o).paid => Status(o).submitted_tx = orders[o].identity

\* A settlement is booked once: no recovered order duplicates the record of a
\* paid quoted order (server.py:265-306).
NoDoubleBooking ==
    \A o \in Order : Paid(o) => orders[o].identity \notin recovered

\* Once booked, an order stays paid by the same settlement until a restore
\* (server.py:152-158, 225-233).
BookingIsStable ==
    [][\A o \in Order : Paid(o) /\ restores' = restores =>
         Paid(o)' /\ orders'[o].identity = orders[o].identity]_vars

PaidIn(ledger) ==
    [o \in Order |-> IF ledger[o] # None /\ ledger[o].paid
                    THEN ledger[o].identity ELSE None]

MerchantLedger == INSTANCE PaymentLedger WITH
    Payment   <- Tx,
    received  <- Received,
    paid      <- PaidIn(orders),
    fetched   <- IF job = None THEN {} ELSE job,
    saved     <- IF backup = None THEN None
                 ELSE [paid |-> PaidIn(backup.orders),
                       recovered |-> backup.recovered]

\* The server keeps the promise of a payment ledger: overlapping, failing and
\* repeated pay calls, calls that go on with an order a restore has replaced,
\* reconciliations that overlap with them and reorganisations that come in
\* between book nothing else, and unbook nothing (server.py:143-306).
ImplementsLedger == MerchantLedger!Spec

\* The reconciliation job heals the ledger: again and again every credit that a
\* legacy Transfer log on the chain shows has a paid record, whatever pay calls
\* overlapped with the job, failed, or lost their order to a restore
\* (server.py:265-306, docs/d3-reconciliation.md:30-34).  A credit of a token
\* that emitted the drifted event has no such log: the job does not find it, and
\* nothing is claimed about it (server.py:272-276).
CreditsGetBooked == []<>(CreditLogs \subseteq KnownSettlements)

\* With callers that repeat a pay answered settlement_pending, every order
\* whose settlement moved funds ends up paid (server.py:160-171).
SettlementsGetConfirmed ==
    \A o \in Order : (Settlements(o) # {}) ~> Paid(o)

=============================================================================
