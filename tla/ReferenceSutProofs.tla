------------------------ MODULE ReferenceSutProofs --------------------------
(***************************************************************************)
(* Theorems about ReferenceSut, for any number of orders, authorizations   *)
(* and threads, every configuration and every combination of faults.       *)
(***************************************************************************)
EXTENDS ReferenceSut, TLAPS

-----------------------------------------------------------------------------
(* Type correctness *)

\* The shapes of the variables and of what the threads hold.
TypeInv ==
    /\ Shapes
    /\ \A t \in Thread : ThreadTyped(threads[t], orders)

\* A step that keeps every order of the ledger in it.
Keeps(ords, new) ==
    /\ new \in [Order -> OrderRecord \cup {None}]
    /\ \A o \in Order : ords[o] \in OrderRecord => new[o] \in OrderRecord

\* An idle thread, whatever it answered last, is well typed.
LEMMA IdleTyped ==
    ASSUME NEW kind \in AnswerKinds, NEW tx \in Tx \cup {None}, NEW ords
    PROVE  ThreadTyped(Idle(kind, tx), ords)
  BY DEF ThreadTyped, Idle, ThreadRecord

\* The empty ledger and the idle pool of a fresh server are well typed.
LEMMA InitType == Init => TypeInv
  <1> SUFFICES ASSUME Init PROVE TypeInv
    OBVIOUS
  <1>1. "none" \in AnswerKinds /\ None \in Tx \cup {None}
    BY DEF AnswerKinds
  <1>2. ThreadTyped(Idle("none", None), orders)
    BY <1>1, IdleTyped
  <1>3. \A t \in Thread : ThreadTyped(threads[t], orders)
    BY <1>2 DEF Init
  <1>4. threads \in [Thread -> ThreadRecord]
    BY <1>2 DEF Init, ThreadTyped
  <1>5. Shapes
    BY <1>4, SutAssumption DEF Init, Shapes
  <1> QED
    BY <1>3, <1>5 DEF TypeInv

\* One thread moves on, the ledger keeps its orders: threads stay typed.
LEMMA ThreadMoves ==
    ASSUME TypeInv, NEW t \in Thread, NEW th,
           Keeps(orders, orders'), ThreadTyped(th, orders'),
           threads' = [threads EXCEPT ![t] = th]
    PROVE  /\ threads' \in [Thread -> ThreadRecord]
           /\ \A u \in Thread : ThreadTyped(threads'[u], orders')
  <1>1. ASSUME NEW u \in Thread
        PROVE  ThreadTyped(threads'[u], orders')
    <2>1. CASE u = t
      BY <2>1 DEF TypeInv, Shapes
    <2>2. CASE u # t
      <3>1. threads'[u] = threads[u] /\ ThreadTyped(threads[u], orders)
        BY <2>2 DEF TypeInv, Shapes
      <3> QED
        BY <3>1 DEF ThreadTyped, Keeps
    <2> QED
      BY <2>1, <2>2
  <1>2. threads' \in [Thread -> ThreadRecord]
    BY DEF TypeInv, Shapes, ThreadTyped
  <1> QED
    BY <1>1, <1>2

\* What the chain holds are entries of settlement transactions.
LEMMA ChainEntries ==
    ASSUME TypeInv, NEW i \in 1..Len(chain)
    PROVE  chain[i] \in Entry /\ chain[i].tx \in Tx
  <1>1. chain \in Seq(Entry)
    BY DEF TypeInv, Shapes
  <1>2. chain[i] \in Entry
    BY <1>1
  <1> QED
    BY <1>2 DEF Entry

\* A step that leaves the ledger alone keeps its orders.
LEMMA SameOrders ==
    ASSUME TypeInv, orders' = orders
    PROVE  Keeps(orders, orders')
  BY DEF TypeInv, Shapes, Keeps

\* A call that answers leaves every thread well typed.
LEMMA Replies ==
    ASSUME TypeInv, NEW t \in Thread, NEW kind \in AnswerKinds,
           NEW tx \in Tx \cup {None}, Keeps(orders, orders'),
           Reply(t, kind, tx)
    PROVE  /\ threads' \in [Thread -> ThreadRecord]
           /\ \A u \in Thread : ThreadTyped(threads'[u], orders')
  <1>1. ThreadTyped(Idle(kind, tx), orders')
    BY IdleTyped
  <1> QED
    BY <1>1, ThreadMoves DEF Reply

\* Writing a record to the order a call looked up keeps the ledger typed.
LEMMA Writes ==
    ASSUME TypeInv, NEW t \in Thread, threads[t].pc # "idle", NEW rec,
           threads[t].live => rec \in OrderRecord, Write(t, rec)
    PROVE  Keeps(orders, orders')
  <1>1. threads[t].order \in Order
    BY DEF TypeInv, ThreadTyped
  <1>2. CASE threads[t].live
    BY <1>1, <1>2 DEF Write, Keeps, TypeInv, Shapes
  <1>3. CASE ~threads[t].live
    BY <1>3 DEF Write, Keeps, TypeInv, Shapes
  <1> QED
    BY <1>2, <1>3

\* The parts of Shapes a pay call does not touch.
LEMMA LedgerTyped ==
    ASSUME TypeInv, Keeps(orders, orders'),
           threads' \in [Thread -> ThreadRecord],
           \A u \in Thread : ThreadTyped(threads'[u], orders'),
           UNCHANGED <<recovered, backup, job, issued, chainVars, envVars>>
    PROVE  TypeInv'
  BY DEF TypeInv, Shapes, Keeps, chainVars, envVars

\* The calls of pay that answer at once.
LEMMA AnswersType ==
    ASSUME TypeInv, NEW t \in Thread, NEW kind \in AnswerKinds,
           NEW tx \in Tx \cup {None}, Reply(t, kind, tx),
           UNCHANGED <<ledgerVars, chainVars, envVars>>
    PROVE  TypeInv'
  <1>1. Keeps(orders, orders')
    BY SameOrders DEF ledgerVars
  <1> QED
    BY <1>1, Replies, LedgerTyped DEF ledgerVars

\* A call that waits on a pending transaction holds what _confirm needs.
LEMMA AwaitsTyped ==
    ASSUME TypeInv, NEW o \in Order, Known(o), NEW a \in Auth, NEW tx \in Tx,
           Keeps(orders, orders')
    PROVE  ThreadTyped([Starts("wait", o, a) EXCEPT !.tx = tx], orders')
  <1>1. orders[o] \in OrderRecord /\ orders'[o] \in OrderRecord
    BY DEF Known, TypeInv, Shapes, Keeps
  <1>2. orders[o].createdBlock \in Nat
    BY <1>1 DEF OrderRecord
  <1> QED
    BY <1>1, <1>2 DEF ThreadTyped, Starts, Idle, ThreadRecord, AnswerKinds

\* The guards of pay (server.py:143-186) keep the types.
LEMMA PayType ==
    ASSUME TypeInv, NEW t \in Thread, NEW o \in Order, Pay(t, o)
    PROVE  TypeInv'
  <1> USE DEF AnswerKinds
  <1>1. CASE PayUnknown(t, o)
    BY <1>1, AnswersType DEF PayUnknown
  <1>2. CASE PayCached(t, o)
    <2>1. orders[o] \in OrderRecord
      BY <1>2 DEF PayCached, Cached, Paid, Known, TypeInv, Shapes
    <2>2. orders[o].submittedTx \in Tx \cup {None}
      BY <2>1 DEF OrderRecord
    <2> QED
      BY <1>2, <2>2, AnswersType DEF PayCached
  <1>3. CASE PayAwaitsPending(t, o)
    <2>1. orders[o] \in OrderRecord
      BY <1>3 DEF PayAwaitsPending, AwaitsPending, Known, TypeInv, Shapes
    <2>2. orders[o].pendingTx \in Tx /\ orders[o].pendingAuth \in Auth
      BY <1>3, <2>1 DEF PayAwaitsPending, AwaitsPending, OrderRecord
    <2>3. Keeps(orders, orders')
      BY <1>3, SameOrders DEF PayAwaitsPending, ledgerVars
    <2>4. ThreadTyped([Starts("wait", o, orders[o].pendingAuth)
                         EXCEPT !.tx = orders[o].pendingTx], orders')
      BY <1>3, <2>2, <2>3, AwaitsTyped DEF PayAwaitsPending, AwaitsPending
    <2> QED
      BY <1>3, <2>3, <2>4, ThreadMoves, LedgerTyped
      DEF PayAwaitsPending, ledgerVars
  <1>4. CASE PayExpired(t, o)
    BY <1>4, AnswersType DEF PayExpired
  <1>5. CASE PayStale(t, o)
    BY <1>5, AnswersType DEF PayStale
  <1>6. ASSUME NEW a \in Auth, PaySubmits(t, o, a) PROVE TypeInv'
    <2>1. Known(o) /\ orders[o] \in OrderRecord
      BY <1>6 DEF PaySubmits, FallsThrough, Known, TypeInv, Shapes
    <2>2. Keeps(orders, orders')
      BY <1>6, <2>1 DEF PaySubmits, Keeps, OrderRecord, TypeInv, Shapes
    <2>3. orders[o].createdBlock \in Nat /\ orders'[o] \in OrderRecord
      BY <2>1, <2>2 DEF OrderRecord, Keeps
    <2>5. ThreadTyped(Starts("submit", o, a), orders')
      BY <2>3 DEF ThreadTyped, Starts, Idle, ThreadRecord
    <2> QED
      BY <1>6, <2>2, <2>5, ThreadMoves, LedgerTyped DEF PaySubmits
  <1> QED
    BY <1>1, <1>2, <1>3, <1>4, <1>5, <1>6 DEF Pay

\* _submit_settlement (server.py:310-352) keeps the types.
LEMMA SubmissionType ==
    ASSUME TypeInv, NEW t \in Thread, Submission(t)
    PROVE  TypeInv'
  <1> USE DEF AnswerKinds
  <1>0. ThreadTyped(threads[t], orders)
    BY DEF TypeInv
  <1>1. ASSUME NEW n \in Nonces, NEW gas \in GasPrices, Prepare(t, n, gas)
        PROVE  TypeInv'
    <2>1. n \in Nat
      BY DEF Nonces, TypeInv, Shapes, Tx
    <2>2. Keeps(orders, orders')
      BY <1>1, SameOrders DEF Prepare, ledgerVars
    <2> DEFINE th == [threads[t] EXCEPT !.pc = "send",
                        !.tx = [nonce |-> n, auth |-> threads[t].auth,
                                gas |-> gas]]
    <2>3. threads[t].auth \in Auth /\ threads[t].order \in Order
      BY <1>0, <1>1 DEF Prepare, ThreadTyped
    <2>4. th.tx \in Tx
      BY <1>0, <2>1, <2>3 DEF Tx, ThreadTyped, ThreadRecord
    <2>5. orders' = orders
      BY <1>1 DEF Prepare, ledgerVars
    <2>6. ThreadTyped(th, orders')
      BY <1>0, <1>1, <2>3, <2>4, <2>5 DEF Prepare, ThreadTyped, ThreadRecord
    <2>7. threads' = [threads EXCEPT ![t] = th]
      BY <1>1 DEF Prepare
    <2> QED
      BY <1>1, <2>2, <2>6, <2>7, ThreadMoves, LedgerTyped
      DEF Prepare, ledgerVars
  <1>2. CASE PrepareRaises(t)
    BY <1>2, AnswersType DEF PrepareRaises
  <1>3. ASSUME Broadcast(t), threads[t].pc = "send", Keeps(orders, orders'),
               threads' \in [Thread -> ThreadRecord],
               \A u \in Thread : ThreadTyped(threads'[u], orders')
        PROVE  TypeInv'
    <2>1. threads[t].tx \in Tx /\ threads[t].order \in Order
      BY <1>0, <1>3 DEF ThreadTyped
    <2>2. mempool' \subseteq Tx /\ sent' \subseteq [order : Order, tx : Tx]
      BY <1>3, <2>1 DEF Broadcast, Enqueue, TypeInv, Shapes
    <2> QED
      BY <1>3, <2>2 DEF Broadcast, Keeps, TypeInv, Shapes, envVars
  <1>4. CASE Send(t)
    <2> DEFINE rec == [OrderOf(t) EXCEPT !.submittedTx = threads[t].tx]
               th == [threads[t] EXCEPT !.pc = "wait"]
    <2>1. threads[t].live => rec \in OrderRecord
      BY <1>0, <1>4 DEF Send, OrderOf, ThreadTyped, OrderRecord
    <2>2. Keeps(orders, orders')
      BY <1>4, <2>1, Writes DEF Send
    <2>3. ThreadTyped(th, orders')
      BY <1>0, <1>4, <2>2 DEF Send, ThreadTyped, ThreadRecord, Keeps
    <2>4. threads' = [threads EXCEPT ![t] = th]
      BY <1>4 DEF Send
    <2> QED
      BY <1>3, <1>4, <2>2, <2>3, <2>4, ThreadMoves DEF Send
  <1>5. CASE SendLost(t)
    <2>1. Keeps(orders, orders')
      BY <1>5, SameOrders DEF SendLost
    <2> QED
      BY <1>3, <1>5, <2>1, Replies DEF SendLost
  <1>6. CASE SendRejected(t)
    BY <1>6, AnswersType DEF SendRejected
  <1> QED
    BY <1>1, <1>2, <1>4, <1>5, <1>6 DEF Submission

\* _confirm (server.py:188-234) keeps the types.
LEMMA ConfirmationType ==
    ASSUME TypeInv, NEW t \in Thread, Confirmation(t)
    PROVE  TypeInv'
  <1> USE DEF AnswerKinds
  <1>0. ThreadTyped(threads[t], orders)
    BY DEF TypeInv
  <1>1. threads[t].pc \in {"wait", "confirm"} =>
          /\ threads[t].tx \in Tx /\ threads[t].auth \in Auth
          /\ threads[t].live => OrderOf(t) \in OrderRecord
    BY <1>0 DEF ThreadTyped, OrderOf
  <1>2. CASE GotReceipt(t)
    <2> DEFINE th == [threads[t] EXCEPT !.pc = "confirm",
                        !.receipt = chain[threads[t].tx.nonce + 1]]
    <2>1. threads[t].live => NotPending(OrderOf(t)) \in OrderRecord
      BY <1>1, <1>2 DEF GotReceipt, NotPending, OrderRecord
    <2>2. Keeps(orders, orders')
      BY <1>2, <2>1, Writes DEF GotReceipt
    <2>3. chain[threads[t].tx.nonce + 1] \in Entry
      <3>1. threads[t].tx.nonce \in Nat /\ chain \in Seq(Entry)
        BY <1>1, <1>2 DEF GotReceipt, Tx, TypeInv, Shapes
      <3> QED
        BY <1>2, <3>1 DEF GotReceipt, Mined
    <2>4. ThreadTyped(th, orders')
      BY <1>0, <1>1, <1>2, <2>2, <2>3
      DEF GotReceipt, ThreadTyped, ThreadRecord, Keeps
    <2>5. threads' = [threads EXCEPT ![t] = th]
      BY <1>2 DEF GotReceipt
    <2> QED
      BY <1>2, <2>2, <2>4, <2>5, ThreadMoves, LedgerTyped DEF GotReceipt
  <1>3. CASE NoReceipt(t)
    <2>1. threads[t].live =>
            [OrderOf(t) EXCEPT !.pendingTx = threads[t].tx,
                               !.pendingAuth = threads[t].auth] \in OrderRecord
      BY <1>1, <1>3 DEF NoReceipt, OrderRecord
    <2>2. Keeps(orders, orders')
      BY <1>3, <2>1, Writes DEF NoReceipt
    <2> QED
      BY <1>1, <1>3, <2>2, Replies, LedgerTyped DEF NoReceipt
  <1>4. CASE SkipReceipt(t)
    <2>1. threads[t].live => NotPending(OrderOf(t)) \in OrderRecord
      BY <1>1, <1>4 DEF SkipReceipt, NotPending, OrderRecord
    <2>2. Keeps(orders, orders')
      BY <1>4, <2>1, Writes DEF SkipReceipt
    <2> QED
      BY <1>1, <1>4, <2>2, Replies, LedgerTyped DEF SkipReceipt
  <1>5. CASE ConfirmSettled(t)
    <2>1. threads[t].live =>
            [OrderOf(t) EXCEPT !.paid = TRUE,
                               !.identity = threads[t].tx] \in OrderRecord
      BY <1>1, <1>5 DEF ConfirmSettled, OrderRecord
    <2>2. Keeps(orders, orders')
      BY <1>5, <2>1, Writes DEF ConfirmSettled
    <2> QED
      BY <1>1, <1>5, <2>2, Replies, LedgerTyped DEF ConfirmSettled
  <1>6. CASE ConfirmUnsettled(t)
    BY <1>1, <1>6, AnswersType DEF ConfirmUnsettled
  <1>7. CASE ConfirmRaises(t)
    BY <1>7, AnswersType DEF ConfirmRaises
  <1> QED
    BY <1>2, <1>3, <1>4, <1>5, <1>6, <1>7 DEF Confirmation

\* The steps of the ledger's own operations.
LEMMA LedgerType ==
    ASSUME TypeInv,
           (\E o \in Order : Quote(o)) \/ Backup \/ Restore
             \/ ReconcileFetch \/ ReconcileBook
    PROVE  TypeInv'
  <1>1. ASSUME NEW o \in Order, Quote(o) PROVE TypeInv'
    <2>1. [expires |-> clock + QuoteTtl, createdBlock |-> Len(chain),
           attempts |-> 0, paid |-> FALSE, submittedTx |-> None,
           pendingTx |-> None, pendingAuth |-> None, identity |-> None]
            \in OrderRecord
      BY SutAssumption DEF OrderRecord, TypeInv, Shapes
    <2>2. Keeps(orders, orders')
      BY <1>1, <2>1 DEF Quote, Keeps, TypeInv, Shapes
    <2>3. \A u \in Thread : ThreadTyped(threads'[u], orders')
      BY <1>1, <2>2 DEF Quote, TypeInv, ThreadTyped, Keeps
    <2>4. issued' \subseteq Order
      BY <1>1 DEF Quote, TypeInv, Shapes
    <2> QED
      BY <1>1, <2>2, <2>3, <2>4
      DEF Quote, Keeps, TypeInv, Shapes, chainVars, envVars
  <1>2. CASE Backup
    <2>1. backup' \in Ledger
      BY <1>2 DEF Backup, Ledger, TypeInv, Shapes
    <2> QED
      BY <1>2, <2>1 DEF Backup, TypeInv, Shapes, chainVars, envVars
  <1>3. CASE Restore
    <2>1. orders' \in [Order -> OrderRecord \cup {None}] /\ recovered' \subseteq Tx
      BY <1>3 DEF Restore, Ledger, TypeInv, Shapes
    <2>2. ASSUME NEW u \in Thread PROVE ThreadTyped(threads'[u], orders')
      <3>1. threads'[u] = [threads[u] EXCEPT !.live = @ /\ threads[u].pc = "idle"]
        BY <1>3 DEF Restore
      <3>2. ThreadTyped(threads[u], orders)
        BY DEF TypeInv
      <3>3. (threads[u].live /\ threads[u].pc = "idle") \in BOOLEAN
        OBVIOUS
      <3> QED
        BY <3>1, <3>2, <3>3 DEF ThreadTyped, ThreadRecord
    <2>3. threads' \in [Thread -> ThreadRecord]
      BY <1>3, <2>2 DEF Restore, ThreadTyped
    <2> QED
      BY <1>3, <2>1, <2>2, <2>3 DEF Restore, TypeInv, Shapes, chainVars
  <1>4. CASE ReconcileFetch
    <2>1. job' \in SUBSET Tx
      <3>1. DOMAIN chain = 1..Len(chain)
        BY DEF TypeInv, Shapes
      <3>2. \A i \in DOMAIN chain : chain[i].tx \in Tx
        BY <3>1, ChainEntries
      <3> QED
        BY <1>4, <3>2 DEF ReconcileFetch, CreditLogs
    <2> QED
      BY <1>4, <2>1 DEF ReconcileFetch, TypeInv, Shapes, chainVars, envVars
  <1>5. CASE ReconcileBook
    <2>1. recovered' \subseteq Tx /\ job' = None
      BY <1>5 DEF ReconcileBook, TypeInv, Shapes
    <2> QED
      BY <1>5, <2>1 DEF ReconcileBook, TypeInv, Shapes, chainVars, envVars
  <1> QED
    BY <1>1, <1>2, <1>3, <1>4, <1>5

\* The steps of the chain and of the environment.
LEMMA ChainType ==
    ASSUME TypeInv,
           Mine \/ (\E n \in 0..Len(chain), requeue \in BOOLEAN : Reorg(n, requeue))
             \/ (\E m \in EventModes : SetEventMode(m))
             \/ (\E p \in FairPrices : MoveFairPrice(p)) \/ Tick
    PROVE  TypeInv'
  <1>1. CASE Mine
    <2>1. PICK tx \in mempool :
            /\ chain' = Append(chain, [tx |-> tx, mode |-> eventMode,
                                ok |-> tx.auth \in Executable \ UsedAuths])
            /\ mempool' = mempool \ {tx}
      BY <1>1 DEF Mine
    <2>2. (tx.auth \in Executable \ UsedAuths) \in BOOLEAN
      OBVIOUS
    <2>3. [tx |-> tx, mode |-> eventMode,
           ok |-> tx.auth \in Executable \ UsedAuths] \in Entry
      BY <2>2 DEF Entry, TypeInv, Shapes
    <2>4. chain' \in Seq(Entry) /\ mempool' \subseteq Tx
      BY <2>1, <2>3 DEF TypeInv, Shapes
    <2> QED
      BY <1>1, <2>4 DEF Mine, TypeInv, Shapes, ledgerVars, envVars
  <1>2. ASSUME NEW n \in 0..Len(chain), NEW requeue \in BOOLEAN,
               Reorg(n, requeue)
        PROVE  TypeInv'
    <2>1. chain \in Seq(Entry) /\ n \in Nat /\ n <= Len(chain)
      BY DEF TypeInv, Shapes
    <2>2. chain' \in Seq(Entry)
      BY <1>2, <2>1 DEF Reorg
    <2>3. {chain[i].tx : i \in (n + 1)..Len(chain)} \subseteq Tx
      <3>1. \A i \in (n + 1)..Len(chain) : i \in 1..Len(chain)
        BY <2>1
      <3>2. \A i \in (n + 1)..Len(chain) : chain[i].tx \in Tx
        BY <3>1, ChainEntries
      <3> QED
        BY <3>2
    <2>4. mempool' \subseteq Tx
      BY <1>2, <2>3 DEF Reorg, TypeInv, Shapes
    <2> QED
      BY <1>2, <2>2, <2>4 DEF Reorg, TypeInv, Shapes, ledgerVars
  <1>3. ASSUME NEW m \in EventModes, SetEventMode(m) PROVE TypeInv'
    BY <1>3, SutAssumption
    DEF SetEventMode, TypeInv, Shapes, ledgerVars, envVars
  <1>4. ASSUME NEW p \in FairPrices, MoveFairPrice(p) PROVE TypeInv'
    BY <1>4, SutAssumption
    DEF MoveFairPrice, TypeInv, Shapes, ledgerVars, chainVars
  <1>5. CASE Tick
    BY <1>5 DEF Tick, TypeInv, Shapes, ledgerVars, chainVars
  <1> QED
    BY <1>1, <1>2, <1>3, <1>4, <1>5

\* TypeInv is inductive.
LEMMA NextType == TypeInv /\ [Next]_vars => TypeInv'
  <1> SUFFICES ASSUME TypeInv, [Next]_vars PROVE TypeInv'
    OBVIOUS
  <1>1. CASE UNCHANGED vars
    BY <1>1 DEF vars, ledgerVars, chainVars, envVars, TypeInv, Shapes
  <1>2. CASE Next
    BY <1>2, PayType, SubmissionType, ConfirmationType, LedgerType, ChainType
    DEF Next
  <1> QED
    BY <1>1, <1>2

\* The paid orders of a ledger have an identity.
Identified(ledger) == \A o \in PaidOrders(ledger) : ledger[o].identity \in Tx

IdentityInv ==
    /\ TypeInv /\ Identified(orders)
    /\ backup # None => Identified(backup.orders)

\* A fresh server has no paid order.
LEMMA InitIdentity == Init => IdentityInv
  BY InitType DEF Init, IdentityInv, Identified, PaidOrders

\* What a call writes to its order has an identity if it is paid.
LEMMA WriteIdentified ==
    ASSUME IdentityInv, NEW t \in Thread, threads[t].pc # "idle", NEW rec,
           Write(t, rec),
           threads[t].live =>
             \/ rec.paid = OrderOf(t).paid /\ rec.identity = OrderOf(t).identity
             \/ rec.identity \in Tx
    PROVE  Identified(orders')
  <1>1. /\ threads[t].order \in Order
        /\ orders \in [Order -> OrderRecord \cup {None}]
        /\ threads[t].live => OrderOf(t) \in OrderRecord
    BY DEF IdentityInv, TypeInv, Shapes, ThreadTyped, OrderOf
  <1>2. CASE ~threads[t].live
    BY <1>2 DEF Write, IdentityInv, Identified, PaidOrders
  <1>3. CASE threads[t].live
    <2> SUFFICES ASSUME NEW o \in Order, orders'[o] # None, orders'[o].paid
                 PROVE  orders'[o].identity \in Tx
      BY DEF Identified, PaidOrders
    <2>1. CASE o # threads[t].order
      <3>1. orders'[o] = orders[o]
        BY <1>1, <1>3, <2>1 DEF Write
      <3> QED
        BY <3>1 DEF IdentityInv, Identified, PaidOrders
    <2>2. CASE o = threads[t].order
      <3>1. orders'[o] = rec
        BY <1>1, <1>3, <2>2 DEF Write
      <3>2. CASE rec.identity \in Tx
        BY <3>1, <3>2
      <3>3. CASE rec.paid = OrderOf(t).paid /\ rec.identity = OrderOf(t).identity
        <4>1. OrderOf(t) # None /\ OrderOf(t).paid
          BY <1>1, <1>3, <3>1, <3>3, NoneAssumption
        <4>2. OrderOf(t).identity \in Tx
          BY <2>2, <4>1 DEF IdentityInv, Identified, PaidOrders, OrderOf
        <4> QED
          BY <3>1, <3>3, <4>2
      <3> QED
        BY <1>3, <3>2, <3>3
    <2> QED
      BY <2>1, <2>2
  <1> QED
    BY <1>2, <1>3

\* A call pays an order only with the transaction it holds.
LEMMA CallIdentified ==
    ASSUME IdentityInv, NEW t \in Thread, Submission(t) \/ Confirmation(t)
    PROVE  Identified(orders') /\ backup' = backup
  <1>0. /\ threads[t].pc \in {"send", "wait", "confirm"} => threads[t].tx \in Tx
        /\ threads[t].pc # "idle" /\ threads[t].live => OrderOf(t) \in OrderRecord
    BY DEF IdentityInv, TypeInv, ThreadTyped, OrderOf
  <1>1. CASE orders' = orders /\ backup' = backup
    BY <1>1 DEF IdentityInv, Identified, PaidOrders
  <1>2. CASE Send(t)
    <2> DEFINE rec == [OrderOf(t) EXCEPT !.submittedTx = threads[t].tx]
    <2>1. threads[t].live => /\ rec.paid = OrderOf(t).paid
                             /\ rec.identity = OrderOf(t).identity
      BY <1>0, <1>2 DEF Send, OrderRecord
    <2> QED
      BY <1>2, <2>1, WriteIdentified DEF Send, Broadcast
  <1>3. CASE GotReceipt(t) \/ SkipReceipt(t)
    <2>1. threads[t].live => /\ NotPending(OrderOf(t)).paid = OrderOf(t).paid
                             /\ NotPending(OrderOf(t)).identity = OrderOf(t).identity
      BY <1>0, <1>3 DEF GotReceipt, SkipReceipt, NotPending, OrderRecord
    <2> QED
      BY <1>3, <2>1, WriteIdentified DEF GotReceipt, SkipReceipt
  <1>4. CASE NoReceipt(t)
    <2> DEFINE rec == [OrderOf(t) EXCEPT !.pendingTx = threads[t].tx,
                                         !.pendingAuth = threads[t].auth]
    <2>1. threads[t].live => /\ rec.paid = OrderOf(t).paid
                             /\ rec.identity = OrderOf(t).identity
      BY <1>0, <1>4 DEF NoReceipt, OrderRecord
    <2> QED
      BY <1>4, <2>1, WriteIdentified DEF NoReceipt
  <1>5. CASE ConfirmSettled(t)
    <2> DEFINE rec == [OrderOf(t) EXCEPT !.paid = TRUE, !.identity = threads[t].tx]
    <2>1. threads[t].live => rec.identity \in Tx
      BY <1>0, <1>5 DEF ConfirmSettled, OrderRecord
    <2> QED
      BY <1>5, <2>1, WriteIdentified DEF ConfirmSettled
  <1> QED
    BY <1>1, <1>2, <1>3, <1>4, <1>5
    DEF Submission, Confirmation, Prepare, PrepareRaises, SendLost, Broadcast,
        SendRejected, ConfirmUnsettled, ConfirmRaises, ledgerVars

\* Every step keeps it.
LEMMA NextIdentity == IdentityInv /\ [Next]_vars => IdentityInv'
  <1> SUFFICES ASSUME IdentityInv, [Next]_vars PROVE IdentityInv'
    OBVIOUS
  <1>1. TypeInv' /\ orders \in [Order -> OrderRecord \cup {None}]
    BY NextType DEF IdentityInv, TypeInv, Shapes
  <1>2. CASE Identified(orders') /\ backup' = backup
    BY <1>1, <1>2 DEF IdentityInv, Identified, PaidOrders
  <1>3. CASE UNCHANGED <<orders, backup>>
    BY <1>2, <1>3 DEF IdentityInv, Identified, PaidOrders
  <1>4. ASSUME NEW o \in Order, Quote(o) PROVE IdentityInv'
    <2>1. backup' = backup /\ orders'[o].paid = FALSE
            /\ \A p \in Order \ {o} : orders'[p] = orders[p]
      BY <1>1, <1>4 DEF Quote
    <2> QED
      BY <1>2, <2>1 DEF IdentityInv, Identified, PaidOrders
  <1>5. ASSUME NEW t \in Thread, NEW o \in Order, NEW a \in Auth,
               PaySubmits(t, o, a)
        PROVE  IdentityInv'
    <2>1. orders[o] \in OrderRecord
      BY <1>1, <1>5 DEF PaySubmits, FallsThrough, Known
    <2>2. /\ backup' = backup /\ orders'[o].paid = orders[o].paid
          /\ orders'[o].identity = orders[o].identity
          /\ \A p \in Order \ {o} : orders'[p] = orders[p]
      BY <1>1, <1>5, <2>1 DEF PaySubmits, OrderRecord
    <2>3. orders[o] # None
      BY <2>1, NoneAssumption
    <2> QED
      BY <1>2, <2>2, <2>3 DEF IdentityInv, Identified, PaidOrders
  <1>6. CASE Backup
    BY <1>1, <1>6 DEF Backup, IdentityInv, Identified, PaidOrders
  <1>7. CASE Restore
    BY <1>1, <1>7 DEF Restore, IdentityInv, Identified, PaidOrders
  <1>8. ASSUME NEW t \in Thread, Submission(t) \/ Confirmation(t)
        PROVE  IdentityInv'
    BY <1>2, <1>8, CallIdentified
  <1>9. ASSUME NEW t \in Thread, NEW o \in Order, Pay(t, o)
        PROVE  IdentityInv'
    BY <1>3, <1>5, <1>9
    DEF Pay, PayUnknown, PayCached, PayAwaitsPending, PayExpired, PayStale,
        ledgerVars
  <1>10. CASE ReconcileFetch \/ ReconcileBook
    BY <1>3, <1>10 DEF ReconcileFetch, ReconcileBook
  <1>11. CASE Mine \/ Tick
    BY <1>3, <1>11 DEF Mine, Tick, ledgerVars
  <1>12. ASSUME NEW n, NEW requeue, Reorg(n, requeue) PROVE IdentityInv'
    BY <1>3, <1>12 DEF Reorg, ledgerVars
  <1>13. ASSUME NEW m, SetEventMode(m) \/ MoveFairPrice(m) PROVE IdentityInv'
    BY <1>3, <1>13 DEF SetEventMode, MoveFairPrice, ledgerVars
  <1>14. CASE Next
    BY <1>4, <1>6, <1>7, <1>8, <1>9, <1>10, <1>11, <1>12, <1>13, <1>14 DEF Next
  <1>15. CASE UNCHANGED vars
    BY <1>3, <1>15 DEF vars, ledgerVars
  <1> QED
    BY <1>14, <1>15

\* For every server and chain: the state keeps its types, a pay call in flight
\* holds what its next step uses, and no order is paid without an identity, in
\* the ledger or in a backup (server.py:79-117, 143-234, 255-263).
THEOREM TypeCorrect == Spec => []TypeOK
  <1>1. IdentityInv => TypeOK
    BY DEF IdentityInv, Identified, TypeInv, TypeOK
  <1> QED
    BY <1>1, InitIdentity, NextIdentity, PTL DEF Spec

-----------------------------------------------------------------------------
(***************************************************************************)
(* No phantom credit, and no settlement shared by two orders, as long as   *)
(* the chain is not reorganised.  PaidIsBacked is not inductive: a pay     *)
(* call books what it read in earlier steps, a retry waits on what an      *)
(* earlier call noted, and a restore brings old records back.  BackedInv   *)
(* carries the evidence through threads, pending fields and backup.        *)
(***************************************************************************)

MinedIn(tx, c) == tx.nonce < Len(c) /\ c[tx.nonce + 1].tx = tx

SentFor(o, tx, s) == [order |-> o, tx |-> tx] \in s

BackedBy(o, tx, s, c) ==
    /\ tx \in Tx /\ SentFor(o, tx, s)
    /\ MinedIn(tx, c) /\ c[tx.nonce + 1].ok

OrderBacked(o, rec, s, c) ==
    rec \in OrderRecord =>
      /\ rec.paid => BackedBy(o, rec.identity, s, c)
      /\ rec.pendingTx # None => SentFor(o, rec.pendingTx, s)

ThreadBacked(th, s, c) ==
    /\ th.pc \in {"wait", "confirm"} => SentFor(th.order, th.tx, s)
    /\ th.pc = "confirm" => /\ MinedIn(th.tx, c)
                            /\ th.receipt = c[th.tx.nonce + 1]

\* A broadcast is mined, waiting, or outbid by one with the same nonce: the
\* node never takes the same transaction a second time.
SentOnce ==
    \A s \in sent :
      /\ \/ s.tx.nonce < Len(chain)
         \/ \E q \in mempool : /\ q.nonce = s.tx.nonce
                               /\ q = s.tx \/ Replaceable(s.tx, q)
      /\ \A r \in sent : r.tx = s.tx => r.order = s.order

BackedInv ==
    /\ TypeInv
    /\ \A t \in Thread : ThreadBacked(threads[t], sent, chain)
    /\ \A o \in Order : OrderBacked(o, orders[o], sent, chain)
    /\ backup \in Ledger =>
         \A o \in Order : OrderBacked(o, backup.orders[o], sent, chain)
    /\ SentOnce

\* Evidence only accumulates.
Grows(s, c, s1, c1) ==
    /\ s \subseteq s1
    /\ \A tx \in Tx : MinedIn(tx, c) =>
         MinedIn(tx, c1) /\ c1[tx.nonce + 1] = c[tx.nonce + 1]

\* Evidence for a paid order survives more broadcasts and blocks.
LEMMA OrderStaysBacked ==
    ASSUME NEW o, NEW rec, NEW s, NEW c, NEW s1, NEW c1,
           Grows(s, c, s1, c1), OrderBacked(o, rec, s, c)
    PROVE  OrderBacked(o, rec, s1, c1)
  BY DEF Grows, OrderBacked, BackedBy, SentFor

\* Evidence a call in flight holds survives more broadcasts and blocks.
LEMMA ThreadStaysBacked ==
    ASSUME NEW th, NEW ords, NEW s, NEW c, NEW s1, NEW c1,
           ThreadTyped(th, ords), Grows(s, c, s1, c1), ThreadBacked(th, s, c)
    PROVE  ThreadBacked(th, s1, c1)
  BY DEF Grows, ThreadBacked, SentFor, ThreadTyped

\* A step that touches neither chain nor broadcasts keeps the evidence.
LEMMA SameEvidence ==
    ASSUME UNCHANGED <<sent, chain>>
    PROVE  Grows(sent, chain, sent', chain')
  BY DEF Grows

\* One thread moves on and at most its order is rewritten.
LEMMA CallStaysBacked ==
    ASSUME BackedInv, TypeInv', NEW t \in Thread, NEW th,
           Grows(sent, chain, sent', chain'),
           threads' = [threads EXCEPT ![t] = th],
           ThreadBacked(th, sent', chain'),
           \A o \in Order : orders'[o] = orders[o]
                              \/ OrderBacked(o, orders'[o], sent', chain'),
           backup' = backup, SentOnce'
    PROVE  BackedInv'
  <1>1. ASSUME NEW u \in Thread
        PROVE  ThreadBacked(threads'[u], sent', chain')
    <2>1. CASE u = t
      BY <2>1 DEF BackedInv, TypeInv, Shapes
    <2>2. CASE u # t
      <3>1. threads'[u] = threads[u]
        BY <2>2 DEF BackedInv, TypeInv, Shapes
      <3>2. ThreadTyped(threads[u], orders) /\ ThreadBacked(threads[u], sent, chain)
        BY DEF BackedInv, TypeInv
      <3> QED
        BY <3>1, <3>2, ThreadStaysBacked
    <2> QED
      BY <2>1, <2>2
  <1>2. ASSUME NEW o \in Order
        PROVE  OrderBacked(o, orders'[o], sent', chain')
    <2>1. OrderBacked(o, orders[o], sent, chain)
      BY DEF BackedInv
    <2>2. OrderBacked(o, orders[o], sent', chain')
      BY <2>1, OrderStaysBacked
    <2> QED
      BY <2>2
  <1>3. ASSUME backup' \in Ledger, NEW o \in Order
        PROVE  OrderBacked(o, backup'.orders[o], sent', chain')
    <2>1. OrderBacked(o, backup.orders[o], sent, chain)
      BY <1>3 DEF BackedInv
    <2>2. OrderBacked(o, backup.orders[o], sent', chain')
      BY <2>1, OrderStaysBacked
    <2> QED
      BY <2>2
  <1> QED
    BY <1>1, <1>2, <1>3 DEF BackedInv

\* An idle thread needs no evidence.
LEMMA IdleBacked ==
    ASSUME NEW kind, NEW tx, NEW s, NEW c
    PROVE  ThreadBacked(Idle(kind, tx), s, c)
  BY DEF ThreadBacked, Idle

\* SentOnce speaks only about the chain's side of the state.
LEMMA SentOnceKept ==
    ASSUME SentOnce, UNCHANGED chainVars
    PROVE  SentOnce'
  BY DEF SentOnce, chainVars

\* A pay call answers without writing to the ledger.
LEMMA AnswerBacked ==
    ASSUME BackedInv, TypeInv', NEW t \in Thread, NEW kind, NEW tx,
           Reply(t, kind, tx), UNCHANGED <<ledgerVars, chainVars, envVars>>
    PROVE  BackedInv'
  <1>1. Grows(sent, chain, sent', chain') /\ SentOnce'
    BY SameEvidence, SentOnceKept DEF chainVars, BackedInv
  <1>2. ThreadBacked(Idle(kind, tx), sent', chain')
    BY IdleBacked
  <1>3. threads' = [threads EXCEPT ![t] = Idle(kind, tx)]
    BY DEF Reply
  <1>4. backup' = backup /\ orders' = orders
    BY DEF ledgerVars
  <1> QED
    BY <1>1, <1>2, <1>3, <1>4, CallStaysBacked

\* The guards of pay (server.py:143-186) keep paid orders backed.
LEMMA PayBacked ==
    ASSUME BackedInv, TypeInv', NEW t \in Thread, NEW o \in Order, Pay(t, o)
    PROVE  BackedInv'
  <1>1. CASE PayUnknown(t, o)
    BY <1>1, AnswerBacked DEF PayUnknown
  <1>2. CASE PayCached(t, o)
    BY <1>2, AnswerBacked DEF PayCached
  <1>3. CASE PayAwaitsPending(t, o)
    <2> DEFINE th == [Starts("wait", o, orders[o].pendingAuth)
                        EXCEPT !.tx = orders[o].pendingTx]
    <2>1. orders[o] \in OrderRecord /\ orders[o].pendingTx # None
      BY <1>3 DEF PayAwaitsPending, AwaitsPending, Known, BackedInv, TypeInv,
                  Shapes
    <2>2. SentFor(o, orders[o].pendingTx, sent)
      BY <2>1 DEF BackedInv, OrderBacked
    <2>3. sent' = sent /\ chain' = chain /\ orders' = orders /\ backup' = backup
      BY <1>3 DEF PayAwaitsPending, chainVars, ledgerVars
    <2>4. th.pc = "wait" /\ th.order = o /\ th.tx = orders[o].pendingTx
      BY DEF Starts, Idle
    <2>5. ThreadBacked(th, sent', chain')
      BY <2>2, <2>3, <2>4 DEF ThreadBacked
    <2>6. threads' = [threads EXCEPT ![t] = th]
      BY <1>3 DEF PayAwaitsPending
    <2>7. Grows(sent, chain, sent', chain') /\ SentOnce'
      BY <1>3, <2>3, SameEvidence, SentOnceKept DEF PayAwaitsPending, BackedInv
    <2> QED
      BY <2>3, <2>5, <2>6, <2>7, CallStaysBacked
  <1>4. CASE PayExpired(t, o)
    BY <1>4, AnswerBacked DEF PayExpired
  <1>5. CASE PayStale(t, o)
    BY <1>5, AnswerBacked DEF PayStale
  <1>6. ASSUME NEW a \in Auth, PaySubmits(t, o, a) PROVE BackedInv'
    <2> DEFINE th == Starts("submit", o, a)
    <2>1. sent' = sent /\ chain' = chain /\ backup' = backup
      BY <1>6 DEF PaySubmits, chainVars
    <2>2. ThreadBacked(th, sent', chain')
      BY DEF ThreadBacked, Starts, Idle
    <2>3. ASSUME NEW p \in Order
          PROVE  orders'[p] = orders[p]
                   \/ OrderBacked(p, orders'[p], sent', chain')
      <3>1. CASE p # o
        BY <1>6, <3>1 DEF PaySubmits, BackedInv, TypeInv, Shapes
      <3>2. CASE p = o
        <4>1. orders[o] \in OrderRecord
          BY <1>6 DEF PaySubmits, FallsThrough, Known, BackedInv, TypeInv, Shapes
        <4>2. /\ orders'[o].paid = orders[o].paid
              /\ orders'[o].identity = orders[o].identity
              /\ orders'[o].pendingTx = orders[o].pendingTx
          BY <1>6, <4>1 DEF PaySubmits, OrderRecord, BackedInv, TypeInv, Shapes
        <4>3. OrderBacked(o, orders[o], sent, chain)
          BY DEF BackedInv
        <4> QED
          BY <2>1, <3>2, <4>1, <4>2, <4>3 DEF OrderBacked
      <3> QED
        BY <3>1, <3>2
    <2>4. threads' = [threads EXCEPT ![t] = th]
      BY <1>6 DEF PaySubmits
    <2>5. Grows(sent, chain, sent', chain') /\ SentOnce'
      BY <1>6, <2>1, SameEvidence, SentOnceKept DEF PaySubmits, BackedInv
    <2> QED
      BY <2>1, <2>2, <2>3, <2>4, <2>5, CallStaysBacked
  <1> QED
    BY <1>1, <1>2, <1>3, <1>4, <1>5, <1>6 DEF Pay

\* What a thread writes to its order is backed if the new record is.
LEMMA WriteBacked ==
    ASSUME BackedInv, NEW t \in Thread, threads[t].pc # "idle", NEW rec,
           Write(t, rec), NEW s, NEW c,
           threads[t].live => OrderBacked(threads[t].order, rec, s, c)
    PROVE  \A o \in Order : orders'[o] = orders[o]
                              \/ OrderBacked(o, orders'[o], s, c)
  <1>1. threads[t].order \in Order /\ orders \in [Order -> OrderRecord \cup {None}]
    BY DEF BackedInv, TypeInv, Shapes, ThreadTyped
  <1> QED
    BY <1>1 DEF Write

\* _submit_settlement (server.py:310-352) keeps paid orders backed.
LEMMA SubmissionBacked ==
    ASSUME BackedInv, TypeInv', NEW t \in Thread, Submission(t)
    PROVE  BackedInv'
  <1>0. ThreadTyped(threads[t], orders) /\ ThreadBacked(threads[t], sent, chain)
    BY DEF BackedInv, TypeInv
  <1>1. ASSUME NEW n \in Nonces, NEW gas \in GasPrices, Prepare(t, n, gas)
        PROVE  BackedInv'
    <2> DEFINE th == [threads[t] EXCEPT !.pc = "send",
                        !.tx = [nonce |-> n, auth |-> threads[t].auth,
                                gas |-> gas]]
    <2>1. th.pc = "send"
      BY <1>0 DEF ThreadTyped, ThreadRecord
    <2>2. ThreadBacked(th, sent', chain')
      BY <2>1 DEF ThreadBacked
    <2>3. threads' = [threads EXCEPT ![t] = th]
      BY <1>1 DEF Prepare
    <2>4. Grows(sent, chain, sent', chain') /\ SentOnce'
      BY <1>1, SameEvidence, SentOnceKept DEF Prepare, BackedInv, chainVars
    <2>5. backup' = backup /\ orders' = orders
      BY <1>1 DEF Prepare, ledgerVars
    <2> QED
      BY <2>2, <2>3, <2>4, <2>5, CallStaysBacked
  <1>2. CASE PrepareRaises(t)
    BY <1>2, AnswerBacked DEF PrepareRaises
  <1>3. ASSUME threads[t].pc = "send", Broadcast(t)
        PROVE  /\ Grows(sent, chain, sent', chain') /\ SentOnce'
               /\ SentFor(threads[t].order, threads[t].tx, sent')
    <2> DEFINE x == threads[t].tx
               b == [order |-> threads[t].order, tx |-> x]
    <2>1. x \in Tx
      BY <1>0, <1>3 DEF ThreadTyped
    <2>2. sent' = sent \cup {b} /\ chain' = chain /\ Accepts(x)
          /\ mempool' = {q \in mempool : q.nonce # x.nonce} \cup {x}
      BY <1>3 DEF Broadcast, Enqueue
    <2>3. Grows(sent, chain, sent', chain')
      BY <2>2 DEF Grows
    <2>4. \A s \in sent : s.tx # x
      BY <2>1, <2>2 DEF BackedInv, SentOnce, Accepts, Replaceable, Tx, GasPrices,
                        TypeInv, Shapes
    <2>5. ASSUME NEW s \in sent'
          PROVE  s.tx.nonce < Len(chain') \/
                 \E q \in mempool' : /\ q.nonce = s.tx.nonce
                                     /\ q = s.tx \/ Replaceable(s.tx, q)
      <3>1. CASE s = b
        BY <2>2, <3>1
      <3>2. CASE s \in sent /\ ~(s.tx.nonce < Len(chain))
        <4>1. PICK q \in mempool : /\ q.nonce = s.tx.nonce
                                   /\ q = s.tx \/ Replaceable(s.tx, q)
          BY <3>2 DEF BackedInv, SentOnce
        <4>2. CASE q.nonce # x.nonce
          BY <2>2, <4>1, <4>2
        <4>3. CASE q.nonce = x.nonce
          <5>1. Replaceable(q, x)
            BY <2>2, <4>3 DEF Accepts
          <5>2. Replaceable(s.tx, x)
            BY <4>1, <5>1 DEF Replaceable
          <5> QED
            BY <2>2, <4>1, <4>3, <5>2
        <4> QED
          BY <4>2, <4>3
      <3>3. CASE s.tx.nonce < Len(chain)
        BY <2>2, <3>3
      <3> QED
        BY <2>2, <3>1, <3>2, <3>3
    <2>6. ASSUME NEW s \in sent', NEW r \in sent', r.tx = s.tx
          PROVE  r.order = s.order
      <3>1. CASE r = b /\ s = b
        BY <3>1
      <3>2. CASE r \in sent /\ s \in sent
        BY <2>6, <3>2 DEF BackedInv, SentOnce
      <3>3. b.tx = x
        OBVIOUS
      <3> QED
        BY <2>2, <2>4, <2>6, <3>1, <3>2, <3>3
    <2>7. SentOnce'
      BY <2>5, <2>6 DEF SentOnce
    <2> QED
      BY <2>2, <2>3, <2>7 DEF SentFor
  <1>4. CASE Send(t)
    <2> DEFINE th == [threads[t] EXCEPT !.pc = "wait"]
               rec == [OrderOf(t) EXCEPT !.submittedTx = threads[t].tx]
    <2>1. /\ Grows(sent, chain, sent', chain') /\ SentOnce'
          /\ SentFor(threads[t].order, threads[t].tx, sent')
      BY <1>3, <1>4 DEF Send
    <2>2. /\ th.pc = "wait" /\ th.order = threads[t].order
          /\ th.tx = threads[t].tx
      BY <1>0 DEF ThreadTyped, ThreadRecord
    <2>3. ThreadBacked(th, sent', chain')
      BY <2>1, <2>2 DEF ThreadBacked
    <2>4. threads[t].live => OrderBacked(threads[t].order, rec, sent', chain')
      <3> SUFFICES ASSUME threads[t].live
                   PROVE  OrderBacked(threads[t].order, rec, sent', chain')
        OBVIOUS
      <3>1. OrderOf(t) \in OrderRecord /\ threads[t].order \in Order
        BY <1>0, <1>4 DEF Send, ThreadTyped, OrderOf
      <3>2. rec.paid = OrderOf(t).paid /\ rec.identity = OrderOf(t).identity
            /\ rec.pendingTx = OrderOf(t).pendingTx
        BY <3>1 DEF OrderRecord
      <3>3. OrderBacked(threads[t].order, OrderOf(t), sent, chain)
        BY <3>1 DEF BackedInv, OrderOf
      <3>4. OrderBacked(threads[t].order, OrderOf(t), sent', chain')
        BY <2>1, <3>3, OrderStaysBacked
      <3> QED
        BY <3>1, <3>2, <3>4 DEF OrderBacked
    <2>5. \A o \in Order : orders'[o] = orders[o]
                             \/ OrderBacked(o, orders'[o], sent', chain')
      BY <1>4, <2>4, WriteBacked DEF Send
    <2>6. threads' = [threads EXCEPT ![t] = th] /\ backup' = backup
      BY <1>4 DEF Send, Broadcast
    <2> QED
      BY <2>1, <2>3, <2>5, <2>6, CallStaysBacked
  <1>5. CASE SendLost(t)
    <2>1. Grows(sent, chain, sent', chain') /\ SentOnce'
      BY <1>3, <1>5 DEF SendLost
    <2>2. ThreadBacked(Idle("server_error", None), sent', chain')
      BY IdleBacked
    <2>3. threads' = [threads EXCEPT ![t] = Idle("server_error", None)]
          /\ backup' = backup /\ orders' = orders
      BY <1>5 DEF SendLost, Reply, Broadcast
    <2> QED
      BY <2>1, <2>2, <2>3, CallStaysBacked
  <1>6. CASE SendRejected(t)
    BY <1>6, AnswerBacked DEF SendRejected
  <1> QED
    BY <1>1, <1>2, <1>4, <1>5, <1>6 DEF Submission

\* A call that ends by writing a backed record to its order.
LEMMA EndBacked ==
    ASSUME BackedInv, TypeInv', NEW t \in Thread, threads[t].pc # "idle",
           NEW kind, NEW tx, NEW rec, Reply(t, kind, tx), Write(t, rec),
           UNCHANGED <<recovered, backup, job, issued, chainVars, envVars>>,
           threads[t].live => OrderBacked(threads[t].order, rec, sent, chain)
    PROVE  BackedInv'
  <1>1. Grows(sent, chain, sent', chain') /\ SentOnce'
    BY SameEvidence, SentOnceKept DEF BackedInv, chainVars
  <1>2. ThreadBacked(Idle(kind, tx), sent', chain')
    BY IdleBacked
  <1>3. sent' = sent /\ chain' = chain
    BY DEF chainVars
  <1>4. \A o \in Order : orders'[o] = orders[o]
                           \/ OrderBacked(o, orders'[o], sent', chain')
    BY <1>3, WriteBacked
  <1> QED
    BY <1>1, <1>2, <1>4, CallStaysBacked DEF Reply

\* _confirm (server.py:188-234) books an order only with evidence.
LEMMA ConfirmationBacked ==
    ASSUME BackedInv, TypeInv', NEW t \in Thread, Confirmation(t)
    PROVE  BackedInv'
  <1>0. ThreadTyped(threads[t], orders) /\ ThreadBacked(threads[t], sent, chain)
    BY DEF BackedInv, TypeInv
  <1>1. ASSUME threads[t].pc \in {"wait", "confirm"}, threads[t].live
        PROVE  /\ threads[t].order \in Order /\ threads[t].tx \in Tx
               /\ OrderOf(t) \in OrderRecord
               /\ SentFor(threads[t].order, threads[t].tx, sent)
               /\ OrderBacked(threads[t].order, OrderOf(t), sent, chain)
    BY <1>0, <1>1 DEF ThreadTyped, ThreadBacked, OrderOf, BackedInv
  <1>2. ASSUME threads[t].pc = "wait", threads[t].live
        PROVE  OrderBacked(threads[t].order, NotPending(OrderOf(t)), sent, chain)
    <2>1. LET rec == NotPending(OrderOf(t)) IN
            /\ rec.paid = OrderOf(t).paid
            /\ rec.identity = OrderOf(t).identity
            /\ rec.pendingTx = None
      BY <1>1, <1>2 DEF NotPending, OrderRecord
    <2> QED
      BY <1>1, <1>2, <2>1 DEF OrderBacked
  <1>3. CASE GotReceipt(t)
    <2> DEFINE th == [threads[t] EXCEPT !.pc = "confirm",
                        !.receipt = chain[threads[t].tx.nonce + 1]]
    <2>1. /\ th.pc = "confirm" /\ th.order = threads[t].order
          /\ th.tx = threads[t].tx
          /\ th.receipt = chain[threads[t].tx.nonce + 1]
      BY <1>0 DEF ThreadTyped, ThreadRecord
    <2>2. sent' = sent /\ chain' = chain /\ backup' = backup
      BY <1>3 DEF GotReceipt, chainVars
    <2>3. ThreadBacked(th, sent', chain')
      BY <1>0, <1>3, <2>1, <2>2 DEF GotReceipt, ThreadBacked, Mined, MinedIn
    <2>4. threads' = [threads EXCEPT ![t] = th]
      BY <1>3 DEF GotReceipt
    <2>5. \A o \in Order : orders'[o] = orders[o]
                             \/ OrderBacked(o, orders'[o], sent', chain')
      BY <1>2, <1>3, <2>2, WriteBacked DEF GotReceipt
    <2>6. Grows(sent, chain, sent', chain') /\ SentOnce'
      BY <1>3, <2>2, SameEvidence, SentOnceKept DEF GotReceipt, BackedInv
    <2> QED
      BY <2>2, <2>3, <2>4, <2>5, <2>6, CallStaysBacked
  <1>4. CASE NoReceipt(t)
    <2> DEFINE rec == [OrderOf(t) EXCEPT !.pendingTx = threads[t].tx,
                                         !.pendingAuth = threads[t].auth]
    <2>1. threads[t].live => OrderBacked(threads[t].order, rec, sent, chain)
      <3> SUFFICES ASSUME threads[t].live
                   PROVE  OrderBacked(threads[t].order, rec, sent, chain)
        OBVIOUS
      <3>1. rec.paid = OrderOf(t).paid /\ rec.identity = OrderOf(t).identity
            /\ rec.pendingTx = threads[t].tx
        BY <1>1, <1>4 DEF NoReceipt, OrderRecord
      <3> QED
        BY <1>1, <1>4, <3>1 DEF NoReceipt, OrderBacked
    <2> QED
      BY <1>4, <2>1, EndBacked DEF NoReceipt
  <1>5. CASE SkipReceipt(t)
    BY <1>2, <1>5, EndBacked DEF SkipReceipt
  <1>6. CASE ConfirmSettled(t)
    <2> DEFINE rec == [OrderOf(t) EXCEPT !.paid = TRUE,
                                         !.identity = threads[t].tx]
    <2>1. threads[t].live => OrderBacked(threads[t].order, rec, sent, chain)
      <3> SUFFICES ASSUME threads[t].live
                   PROVE  OrderBacked(threads[t].order, rec, sent, chain)
        OBVIOUS
      <3>1. rec.identity = threads[t].tx /\ rec.pendingTx = OrderOf(t).pendingTx
        BY <1>1, <1>6 DEF ConfirmSettled, OrderRecord
      <3>2. BackedBy(threads[t].order, threads[t].tx, sent, chain)
        BY <1>0, <1>1, <1>6
        DEF ConfirmSettled, WorthFetching, ThreadBacked, BackedBy
      <3> QED
        BY <1>1, <1>6, <3>1, <3>2 DEF ConfirmSettled, OrderBacked
    <2> QED
      BY <1>6, <2>1, EndBacked DEF ConfirmSettled
  <1>7. CASE ConfirmUnsettled(t)
    BY <1>7, AnswerBacked DEF ConfirmUnsettled
  <1>8. CASE ConfirmRaises(t)
    BY <1>8, AnswerBacked DEF ConfirmRaises
  <1> QED
    BY <1>3, <1>4, <1>5, <1>6, <1>7, <1>8 DEF Confirmation

\* Quotes, backups, restores and reconciliation keep paid orders backed.
LEMMA LedgerBacked ==
    ASSUME BackedInv, TypeInv',
           (\E o \in Order : Quote(o)) \/ Backup \/ Restore
             \/ ReconcileFetch \/ ReconcileBook
    PROVE  BackedInv'
  <1>0. sent' = sent /\ chain' = chain /\ SentOnce'
    BY SentOnceKept
    DEF Quote, Backup, Restore, ReconcileFetch, ReconcileBook, chainVars,
        BackedInv
  <1>1. ASSUME NEW o \in Order, Quote(o) PROVE BackedInv'
    <2>1. ASSUME NEW p \in Order
          PROVE  OrderBacked(p, orders'[p], sent', chain')
      <3>1. CASE p = o
        BY <1>1, <3>1 DEF Quote, OrderBacked, BackedInv, TypeInv, Shapes
      <3>2. CASE p # o
        BY <1>0, <1>1, <3>2 DEF Quote, BackedInv, TypeInv, Shapes
      <3> QED
        BY <3>1, <3>2
    <2> QED
      BY <1>0, <1>1, <2>1 DEF Quote, BackedInv
  <1>2. CASE Backup
    BY <1>0, <1>2 DEF Backup, BackedInv
  <1>3. CASE Restore
    <2>1. ASSUME NEW u \in Thread
          PROVE  ThreadBacked(threads'[u], sent', chain')
      <3>1. threads'[u] = [threads[u] EXCEPT !.live = @ /\ threads[u].pc = "idle"]
        BY <1>3 DEF Restore
      <3>2. ThreadTyped(threads[u], orders) /\ ThreadBacked(threads[u], sent, chain)
        BY DEF BackedInv, TypeInv
      <3>3. /\ threads'[u].pc = threads[u].pc
            /\ threads'[u].order = threads[u].order
            /\ threads'[u].tx = threads[u].tx
            /\ threads'[u].receipt = threads[u].receipt
        BY <3>1, <3>2 DEF ThreadTyped, ThreadRecord
      <3> QED
        BY <1>0, <3>2, <3>3 DEF ThreadBacked
    <2>2. backup \in Ledger
      BY <1>3 DEF Restore, BackedInv, TypeInv, Shapes
    <2>3. \A o \in Order : OrderBacked(o, orders'[o], sent', chain')
      BY <1>0, <1>3, <2>2 DEF Restore, BackedInv
    <2> QED
      BY <1>0, <1>3, <2>1, <2>3 DEF Restore, BackedInv
  <1>4. CASE ReconcileFetch
    BY <1>0, <1>4 DEF ReconcileFetch, BackedInv
  <1>5. CASE ReconcileBook
    BY <1>0, <1>5 DEF ReconcileBook, BackedInv
  <1> QED
    BY <1>1, <1>2, <1>3, <1>4, <1>5

\* The chain only grows when it is not reorganised.
LEMMA ChainBacked ==
    ASSUME MaxReorgs = 0, BackedInv, TypeInv',
           Mine \/ (\E n \in 0..Len(chain), requeue \in BOOLEAN : Reorg(n, requeue))
             \/ (\E m \in EventModes : SetEventMode(m))
             \/ (\E p \in FairPrices : MoveFairPrice(p)) \/ Tick
    PROVE  BackedInv'
  <1>1. CASE Mine
    <2>1. PICK x \in mempool :
            /\ x.nonce = Len(chain)
            /\ chain' = Append(chain, [tx |-> x, mode |-> eventMode,
                                ok |-> x.auth \in Executable \ UsedAuths])
            /\ mempool' = mempool \ {x}
      BY <1>1 DEF Mine
    <2>2. chain \in Seq(Entry) /\ x \in Tx
      BY DEF BackedInv, TypeInv, Shapes
    <2>3. Len(chain') = Len(chain) + 1
          /\ \A i \in 1..Len(chain) : chain'[i] = chain[i]
      BY <2>1, <2>2
    <2>4. sent' = sent /\ orders' = orders /\ backup' = backup /\ threads' = threads
      BY <1>1 DEF Mine, ledgerVars
    <2>5. Grows(sent, chain, sent', chain')
      BY <2>2, <2>3, <2>4 DEF Grows, MinedIn, Tx
    <2>6. SentOnce'
      <3>1. ASSUME NEW s \in sent
            PROVE  s.tx.nonce < Len(chain') \/
                   \E q \in mempool' : /\ q.nonce = s.tx.nonce
                                       /\ q = s.tx \/ Replaceable(s.tx, q)
        <4>1. s.tx.nonce \in Nat /\ Len(chain) \in Nat
          BY <2>2 DEF BackedInv, TypeInv, Shapes, Tx
        <4>2. CASE s.tx.nonce <= Len(chain)
          BY <2>3, <4>1, <4>2
        <4>3. CASE ~(s.tx.nonce <= Len(chain))
          <5>1. PICK q \in mempool : /\ q.nonce = s.tx.nonce
                                     /\ q = s.tx \/ Replaceable(s.tx, q)
            BY <4>1, <4>3 DEF BackedInv, SentOnce
          <5>2. q # x
            BY <2>1, <4>1, <4>3, <5>1
          <5> QED
            BY <2>1, <5>1, <5>2
        <4> QED
          BY <4>2, <4>3
      <3> QED
        BY <2>4, <3>1 DEF BackedInv, SentOnce
    <2>7. \A u \in Thread : ThreadBacked(threads[u], sent', chain')
      BY <2>5, ThreadStaysBacked DEF BackedInv, TypeInv
    <2>8. \A o \in Order : OrderBacked(o, orders[o], sent', chain')
      BY <2>5, OrderStaysBacked DEF BackedInv
    <2>9. backup \in Ledger =>
            \A o \in Order : OrderBacked(o, backup.orders[o], sent', chain')
      BY <2>5, OrderStaysBacked DEF BackedInv
    <2> QED
      BY <2>4, <2>6, <2>7, <2>8, <2>9 DEF BackedInv
  <1>2. ASSUME NEW n \in 0..Len(chain), NEW requeue \in BOOLEAN,
               Reorg(n, requeue)
        PROVE  FALSE
    BY <1>2 DEF Reorg, BackedInv, TypeInv, Shapes
  <1>3. ASSUME NEW m \in EventModes, SetEventMode(m) PROVE BackedInv'
    BY <1>3 DEF SetEventMode, BackedInv, SentOnce, ledgerVars
  <1>4. ASSUME NEW p \in FairPrices, MoveFairPrice(p) PROVE BackedInv'
    BY <1>4, SentOnceKept DEF MoveFairPrice, BackedInv, ledgerVars, chainVars
  <1>5. CASE Tick
    BY <1>5, SentOnceKept DEF Tick, BackedInv, ledgerVars, chainVars
  <1> QED
    BY <1>1, <1>2, <1>3, <1>4, <1>5

\* BackedInv is inductive while the chain is not reorganised.
LEMMA NextBacked ==
    ASSUME MaxReorgs = 0
    PROVE  BackedInv /\ [Next]_vars => BackedInv'
  <1> SUFFICES ASSUME BackedInv, [Next]_vars PROVE BackedInv'
    OBVIOUS
  <1>1. TypeInv'
    BY NextType DEF BackedInv
  <1>2. CASE UNCHANGED vars
    BY <1>1, <1>2, SentOnceKept
    DEF vars, ledgerVars, chainVars, envVars, BackedInv
  <1>3. CASE Next
    BY <1>1, <1>3, PayBacked, SubmissionBacked, ConfirmationBacked,
       LedgerBacked, ChainBacked
    DEF Next
  <1> QED
    BY <1>2, <1>3

\* A fresh server has no paid order and no call in flight.
LEMMA InitBacked == Init => BackedInv
  <1> SUFFICES ASSUME Init PROVE BackedInv
    OBVIOUS
  <1>1. TypeInv
    BY InitType
  <1>2. \A t \in Thread : ThreadBacked(threads[t], sent, chain)
    BY IdleBacked DEF Init
  <1>3. \A o \in Order : OrderBacked(o, orders[o], sent, chain)
    BY NoneAssumption DEF Init, OrderBacked
  <1>4. SentOnce /\ backup \notin Ledger
    BY NoneAssumption DEF Init, SentOnce
  <1> QED
    BY <1>1, <1>2, <1>3, <1>4 DEF BackedInv

\* A paid order names a settlement broadcast for it that succeeded.
LEMMA BackedOrders ==
    ASSUME BackedInv, NEW o \in Order, Paid(o)
    PROVE  BackedBy(o, orders[o].identity, sent, chain)
  <1>1. orders[o] \in OrderRecord /\ orders[o].paid
    BY DEF Paid, Known, BackedInv, TypeInv, Shapes
  <1> QED
    BY <1>1 DEF BackedInv, OrderBacked

\* No phantom credit without a reorganisation: whatever pay calls overlap, RPC
\* calls fail and backups are restored, a paid order names a successful
\* settlement that was broadcast for that order (server.py:143-263).
THEOREM PaidOrdersAreBacked ==
    ASSUME MaxReorgs = 0
    PROVE  Spec => []PaidIsBacked
  <1>1. BackedInv => PaidIsBacked
    <2> SUFFICES ASSUME BackedInv, NEW o \in Order, Paid(o)
                 PROVE  orders[o].identity \in Settlements(o)
      BY DEF PaidIsBacked
    <2>1. BackedBy(o, orders[o].identity, sent, chain)
      BY BackedOrders
    <2>2. [order |-> o, tx |-> orders[o].identity]
            \in {r \in Received : r.order = o}
      BY <2>1 DEF BackedBy, SentFor, MinedIn, Mined, Received, Executed
    <2> QED
      BY <2>2 DEF Settlements
  <1> QED
    BY <1>1, InitBacked, NextBacked, PTL DEF Spec

\* One settlement never pays for two quoted orders: the node takes a signed
\* transaction at most once, and a confirmation is bound to the transaction
\* its own call broadcast (server.py:184-233, confirmer.py:87-162).
THEOREM SettlementsAreNotShared ==
    ASSUME MaxReorgs = 0
    PROVE  Spec => []NoSharedSettlement
  <1>1. BackedInv => NoSharedSettlement
    <2> SUFFICES ASSUME BackedInv, NEW o \in Order, NEW p \in Order,
                        Paid(o), Paid(p),
                        orders[o].identity = orders[p].identity
                 PROVE  o = p
      BY DEF NoSharedSettlement
    <2> DEFINE x == orders[o].identity
    <2>1. [order |-> o, tx |-> x] \in sent /\ [order |-> p, tx |-> x] \in sent
      BY BackedOrders DEF BackedBy, SentFor
    <2>2. SentOnce
      BY DEF BackedInv
    <2> HIDE DEF x
    <2>3. \A s, r \in sent : r.tx = s.tx => r.order = s.order
      BY <2>2 DEF SentOnce
    <2> QED
      BY <2>1, <2>3
  <1> QED
    BY <1>1, InitBacked, NextBacked, PTL DEF Spec

-----------------------------------------------------------------------------
(***************************************************************************)
(* The server implements PaymentLedger, reorganisations included.  A step  *)
(* books only what the node shows at that moment, so the chain part of     *)
(* BackedInv is not needed.  What is needed is SentInv: a transaction a    *)
(* call waits on or a record notes was broadcast for that order, only      *)
(* broadcast transactions are on the chain, each at its nonce, and a       *)
(* quote never overwrites a record.                                        *)
(***************************************************************************)

ThreadSent(th, s) ==
    th.pc \in {"wait", "confirm"} => SentFor(th.order, th.tx, s)

OrderSent(o, rec, s, handed) ==
    rec \in OrderRecord =>
      /\ o \in handed
      /\ rec.pendingTx # None => SentFor(o, rec.pendingTx, s)

\* The chain and the mempool hold broadcast transactions, and the chain has
\* them in the order of the facilitator's nonces.
ChainSent ==
    /\ \A tx \in mempool : \E s \in sent : s.tx = tx
    /\ \A i \in 1..Len(chain) : /\ \E s \in sent : s.tx = chain[i].tx
                                /\ chain[i].tx.nonce = i - 1

SentInv ==
    /\ TypeInv
    /\ \A t \in Thread : ThreadSent(threads[t], sent)
    /\ \A o \in Order : OrderSent(o, orders[o], sent, issued)
    /\ backup \in Ledger =>
         \A o \in Order : OrderSent(o, backup.orders[o], sent, issued)
    /\ ChainSent

\* Broadcasts and order ids are never taken back.
LEMMA OrderStaysSent ==
    ASSUME NEW o, NEW rec, NEW s, NEW h, NEW s1, NEW h1,
           s \subseteq s1, h \subseteq h1, OrderSent(o, rec, s, h)
    PROVE  OrderSent(o, rec, s1, h1)
  BY DEF OrderSent, SentFor

\* One thread moves on and at most its order is rewritten.
LEMMA CallStaysSent ==
    ASSUME SentInv, TypeInv', NEW t \in Thread, NEW th, sent \subseteq sent',
           threads' = [threads EXCEPT ![t] = th], ThreadSent(th, sent'),
           \A o \in Order : orders'[o] = orders[o]
                              \/ OrderSent(o, orders'[o], sent', issued),
           UNCHANGED <<backup, issued>>, ChainSent'
    PROVE  SentInv'
  <1>1. ASSUME NEW u \in Thread
        PROVE  ThreadSent(threads'[u], sent')
    <2>1. CASE u = t
      BY <2>1 DEF SentInv, TypeInv, Shapes
    <2>2. CASE u # t
      <3>1. threads'[u] = threads[u] /\ ThreadSent(threads[u], sent)
        BY <2>2 DEF SentInv, TypeInv, Shapes
      <3> QED
        BY <3>1 DEF ThreadSent, SentFor
    <2> QED
      BY <2>1, <2>2
  <1>2. ASSUME NEW o \in Order
        PROVE  OrderSent(o, orders'[o], sent', issued')
    BY OrderStaysSent DEF SentInv
  <1>3. ASSUME backup' \in Ledger, NEW o \in Order
        PROVE  OrderSent(o, backup'.orders[o], sent', issued')
    <2>1. OrderSent(o, backup.orders[o], sent, issued)
      BY <1>3 DEF SentInv
    <2> QED
      BY <2>1, OrderStaysSent
  <1> QED
    BY <1>1, <1>2, <1>3 DEF SentInv

\* ChainSent speaks only about the chain's side of the state.
LEMMA ChainSentKept ==
    ASSUME ChainSent, UNCHANGED chainVars
    PROVE  ChainSent'
  BY DEF ChainSent, chainVars

\* A pay call answers without writing to the ledger.
LEMMA AnswerSent ==
    ASSUME SentInv, TypeInv', NEW t \in Thread, NEW kind, NEW tx,
           Reply(t, kind, tx), UNCHANGED <<ledgerVars, chainVars>>
    PROVE  SentInv'
  <1>1. ChainSent'
    BY ChainSentKept DEF SentInv
  <1>2. ThreadSent(Idle(kind, tx), sent')
    BY DEF ThreadSent, Idle
  <1>3. /\ threads' = [threads EXCEPT ![t] = Idle(kind, tx)]
        /\ sent' = sent /\ orders' = orders /\ UNCHANGED <<backup, issued>>
    BY DEF Reply, ledgerVars, chainVars
  <1> QED
    BY <1>1, <1>2, <1>3, CallStaysSent

\* What a thread writes to its order notes a broadcast if the record does.
LEMMA WriteSent ==
    ASSUME SentInv, NEW t \in Thread, threads[t].pc # "idle", NEW rec,
           Write(t, rec), NEW s,
           threads[t].live /\ rec.pendingTx # None =>
             SentFor(threads[t].order, rec.pendingTx, s)
    PROVE  \A o \in Order : orders'[o] = orders[o]
                              \/ OrderSent(o, orders'[o], s, issued)
  <1>1. /\ threads[t].order \in Order
        /\ orders \in [Order -> OrderRecord \cup {None}]
        /\ threads[t].live => OrderOf(t) \in OrderRecord
    BY DEF SentInv, TypeInv, Shapes, ThreadTyped, OrderOf
  <1>2. threads[t].live => threads[t].order \in issued
    BY <1>1 DEF SentInv, OrderSent, OrderOf
  <1>3. threads[t].live => OrderSent(threads[t].order, rec, s, issued)
    BY <1>2 DEF OrderSent
  <1> QED
    BY <1>1, <1>3 DEF Write

\* A call that ends by writing a record that notes only a broadcast.
LEMMA EndSent ==
    ASSUME SentInv, TypeInv', NEW t \in Thread, threads[t].pc # "idle",
           NEW kind, NEW tx, NEW rec, Reply(t, kind, tx), Write(t, rec),
           UNCHANGED <<backup, issued, chainVars>>,
           threads[t].live /\ rec.pendingTx # None =>
             SentFor(threads[t].order, rec.pendingTx, sent)
    PROVE  SentInv'
  <1>1. ChainSent' /\ sent' = sent
    BY ChainSentKept DEF SentInv, chainVars
  <1>2. ThreadSent(Idle(kind, tx), sent')
    BY DEF ThreadSent, Idle
  <1>3. \A o \in Order : orders'[o] = orders[o]
                           \/ OrderSent(o, orders'[o], sent', issued)
    BY <1>1, WriteSent
  <1> QED
    BY <1>1, <1>2, <1>3, CallStaysSent DEF Reply

\* The guards of pay (server.py:143-186): a retry waits on a broadcast that
\* was made for its order.
LEMMA PaySent ==
    ASSUME SentInv, TypeInv', NEW t \in Thread, NEW o \in Order, Pay(t, o)
    PROVE  SentInv'
  <1>1. CASE PayUnknown(t, o)
    BY <1>1, AnswerSent DEF PayUnknown
  <1>2. CASE PayCached(t, o)
    BY <1>2, AnswerSent DEF PayCached
  <1>3. CASE PayAwaitsPending(t, o)
    <2> DEFINE th == [Starts("wait", o, orders[o].pendingAuth)
                        EXCEPT !.tx = orders[o].pendingTx]
    <2>1. orders[o] \in OrderRecord /\ orders[o].pendingTx # None
      BY <1>3 DEF PayAwaitsPending, AwaitsPending, Known, SentInv, TypeInv,
                  Shapes
    <2>2. SentFor(o, orders[o].pendingTx, sent)
      BY <2>1 DEF SentInv, OrderSent
    <2>3. sent' = sent /\ orders' = orders /\ UNCHANGED <<backup, issued>>
      BY <1>3 DEF PayAwaitsPending, chainVars, ledgerVars
    <2>4. th.pc = "wait" /\ th.order = o /\ th.tx = orders[o].pendingTx
      BY DEF Starts, Idle
    <2>5. ThreadSent(th, sent')
      BY <2>2, <2>3, <2>4 DEF ThreadSent
    <2>6. threads' = [threads EXCEPT ![t] = th] /\ ChainSent'
      BY <1>3, ChainSentKept DEF PayAwaitsPending, SentInv
    <2> QED
      BY <2>3, <2>5, <2>6, CallStaysSent
  <1>4. CASE PayExpired(t, o)
    BY <1>4, AnswerSent DEF PayExpired
  <1>5. CASE PayStale(t, o)
    BY <1>5, AnswerSent DEF PayStale
  <1>6. ASSUME NEW a \in Auth, PaySubmits(t, o, a) PROVE SentInv'
    <2>1. sent' = sent /\ UNCHANGED <<backup, issued>> /\ ChainSent'
      BY <1>6, ChainSentKept DEF PaySubmits, chainVars, SentInv
    <2>2. ThreadSent(Starts("submit", o, a), sent')
      BY DEF ThreadSent, Starts, Idle
    <2>3. orders[o] \in OrderRecord /\ orders \in [Order -> OrderRecord \cup {None}]
      BY <1>6 DEF PaySubmits, FallsThrough, Known, SentInv, TypeInv, Shapes
    <2>4. orders'[o].pendingTx = orders[o].pendingTx
          /\ \A p \in Order : p # o => orders'[p] = orders[p]
      BY <1>6, <2>3 DEF PaySubmits, OrderRecord
    <2>5. OrderSent(o, orders'[o], sent', issued)
      BY <2>1, <2>3, <2>4 DEF OrderSent, SentInv
    <2>6. threads' = [threads EXCEPT ![t] = Starts("submit", o, a)]
      BY <1>6 DEF PaySubmits
    <2> QED
      BY <2>1, <2>2, <2>4, <2>5, <2>6, CallStaysSent
  <1> QED
    BY <1>1, <1>2, <1>3, <1>4, <1>5, <1>6 DEF Pay

\* _submit_settlement (server.py:310-352): the hash is noted after the node
\* took the transaction.
LEMMA SubmissionSent ==
    ASSUME SentInv, TypeInv', NEW t \in Thread, Submission(t)
    PROVE  SentInv'
  <1>0. ThreadTyped(threads[t], orders)
    BY DEF SentInv, TypeInv
  <1>1. ASSUME NEW n \in Nonces, NEW gas \in GasPrices, Prepare(t, n, gas)
        PROVE  SentInv'
    <2> DEFINE th == [threads[t] EXCEPT !.pc = "send",
                        !.tx = [nonce |-> n, auth |-> threads[t].auth,
                                gas |-> gas]]
    <2>1. th.pc = "send"
      BY <1>0 DEF ThreadTyped, ThreadRecord
    <2>2. ThreadSent(th, sent')
      BY <2>1 DEF ThreadSent
    <2>3. threads' = [threads EXCEPT ![t] = th] /\ ChainSent'
      BY <1>1, ChainSentKept DEF Prepare, SentInv
    <2>4. sent' = sent /\ orders' = orders /\ UNCHANGED <<backup, issued>>
      BY <1>1 DEF Prepare, ledgerVars, chainVars
    <2> QED
      BY <2>2, <2>3, <2>4, CallStaysSent
  <1>2. CASE PrepareRaises(t)
    BY <1>2, AnswerSent DEF PrepareRaises
  <1>3. ASSUME Broadcast(t)
        PROVE  /\ sent \subseteq sent' /\ ChainSent'
               /\ SentFor(threads[t].order, threads[t].tx, sent')
               /\ UNCHANGED <<backup, issued>>
    <2>1. sent' = sent \cup {[order |-> threads[t].order, tx |-> threads[t].tx]}
          /\ chain' = chain /\ UNCHANGED <<backup, issued>>
          /\ mempool' = {q \in mempool : q.nonce # threads[t].tx.nonce}
                          \cup {threads[t].tx}
      BY <1>3 DEF Broadcast, Enqueue
    <2>2. SentFor(threads[t].order, threads[t].tx, sent')
      BY <2>1 DEF SentFor
    <2>3. \E s \in sent' : s.tx = threads[t].tx
      <3>1. [order |-> threads[t].order, tx |-> threads[t].tx].tx = threads[t].tx
        OBVIOUS
      <3> QED
        BY <2>2, <3>1 DEF SentFor
    <2>4. \A tx \in mempool' : \E s \in sent' : s.tx = tx
      BY <2>1, <2>3 DEF SentInv, ChainSent
    <2>5. \A i \in 1..Len(chain') : /\ \E s \in sent' : s.tx = chain'[i].tx
                                    /\ chain'[i].tx.nonce = i - 1
      BY <2>1 DEF SentInv, ChainSent
    <2> QED
      BY <2>1, <2>2, <2>4, <2>5 DEF ChainSent
  <1>4. CASE Send(t)
    <2> DEFINE th == [threads[t] EXCEPT !.pc = "wait"]
               rec == [OrderOf(t) EXCEPT !.submittedTx = threads[t].tx]
    <2>1. th.order = threads[t].order /\ th.tx = threads[t].tx
      BY <1>0 DEF ThreadTyped, ThreadRecord
    <2>2. ThreadSent(th, sent')
      BY <1>3, <1>4, <2>1 DEF Send, ThreadSent
    <2>3. ASSUME threads[t].live, rec.pendingTx # None
          PROVE  SentFor(threads[t].order, rec.pendingTx, sent')
      <3>1. OrderOf(t) \in OrderRecord /\ threads[t].order \in Order
        BY <1>0, <1>4, <2>3 DEF Send, ThreadTyped, OrderOf
      <3>2. rec.pendingTx = OrderOf(t).pendingTx
        BY <3>1 DEF OrderRecord
      <3>3. SentFor(threads[t].order, OrderOf(t).pendingTx, sent)
        BY <2>3, <3>1, <3>2 DEF SentInv, OrderSent, OrderOf
      <3> QED
        BY <1>3, <1>4, <3>2, <3>3 DEF Send, SentFor
    <2>4. Write(t, rec) /\ threads[t].pc # "idle"
      BY <1>4 DEF Send
    <2> HIDE DEF rec
    <2>5. \A o \in Order : orders'[o] = orders[o]
                             \/ OrderSent(o, orders'[o], sent', issued)
      BY <2>3, <2>4, WriteSent
    <2>6. threads' = [threads EXCEPT ![t] = th]
      BY <1>4 DEF Send
    <2> QED
      BY <1>3, <1>4, <2>2, <2>5, <2>6, CallStaysSent DEF Send
  <1>5. CASE SendLost(t)
    <2>1. ThreadSent(Idle("server_error", None), sent')
      BY DEF ThreadSent, Idle
    <2>2. threads' = [threads EXCEPT ![t] = Idle("server_error", None)]
          /\ orders' = orders
      BY <1>5 DEF SendLost, Reply
    <2> QED
      BY <1>3, <1>5, <2>1, <2>2, CallStaysSent DEF SendLost
  <1>6. CASE SendRejected(t)
    BY <1>6, AnswerSent DEF SendRejected
  <1> QED
    BY <1>1, <1>2, <1>4, <1>5, <1>6 DEF Submission

\* _confirm (server.py:188-234): a pending hash is one the call broadcast.
LEMMA ConfirmationSent ==
    ASSUME SentInv, TypeInv', NEW t \in Thread, Confirmation(t)
    PROVE  SentInv'
  <1>0. ThreadTyped(threads[t], orders) /\ ThreadSent(threads[t], sent)
    BY DEF SentInv, TypeInv
  <1>1. ASSUME threads[t].pc \in {"wait", "confirm"}, threads[t].live
        PROVE  /\ threads[t].order \in Order /\ OrderOf(t) \in OrderRecord
               /\ OrderOf(t).pendingTx # None =>
                    SentFor(threads[t].order, OrderOf(t).pendingTx, sent)
    BY <1>0, <1>1 DEF ThreadTyped, OrderOf, SentInv, OrderSent
  <1>2. ASSUME threads[t].pc = "wait", threads[t].live
        PROVE  NotPending(OrderOf(t)).pendingTx = None
    BY <1>1, <1>2 DEF NotPending, OrderRecord
  <1>3. CASE GotReceipt(t)
    <2> DEFINE th == [threads[t] EXCEPT !.pc = "confirm",
                        !.receipt = chain[threads[t].tx.nonce + 1]]
    <2>1. th.order = threads[t].order /\ th.tx = threads[t].tx
      BY <1>0 DEF ThreadTyped, ThreadRecord
    <2>2. sent' = sent /\ UNCHANGED <<backup, issued>> /\ ChainSent'
      BY <1>3, ChainSentKept DEF GotReceipt, chainVars, SentInv
    <2>3. ThreadSent(th, sent')
      BY <1>0, <1>3, <2>1, <2>2 DEF GotReceipt, ThreadSent
    <2>4. threads' = [threads EXCEPT ![t] = th]
      BY <1>3 DEF GotReceipt
    <2>5. \A o \in Order : orders'[o] = orders[o]
                             \/ OrderSent(o, orders'[o], sent', issued)
      BY <1>2, <1>3, WriteSent DEF GotReceipt
    <2> QED
      BY <2>2, <2>3, <2>4, <2>5, CallStaysSent
  <1>4. CASE NoReceipt(t)
    <2> DEFINE rec == [OrderOf(t) EXCEPT !.pendingTx = threads[t].tx,
                                         !.pendingAuth = threads[t].auth]
    <2>1. threads[t].live => rec.pendingTx = threads[t].tx
      BY <1>1, <1>4 DEF NoReceipt, OrderRecord
    <2>2. SentFor(threads[t].order, threads[t].tx, sent)
      BY <1>0, <1>4 DEF NoReceipt, ThreadSent
    <2> QED
      BY <1>4, <2>1, <2>2, EndSent DEF NoReceipt
  <1>5. CASE SkipReceipt(t)
    BY <1>2, <1>5, EndSent DEF SkipReceipt
  <1>6. CASE ConfirmSettled(t)
    <2> DEFINE rec == [OrderOf(t) EXCEPT !.paid = TRUE,
                                         !.identity = threads[t].tx]
    <2>1. threads[t].live => rec.pendingTx = OrderOf(t).pendingTx
      BY <1>1, <1>6 DEF ConfirmSettled, OrderRecord
    <2> QED
      BY <1>1, <1>6, <2>1, EndSent DEF ConfirmSettled
  <1>7. CASE ConfirmUnsettled(t)
    BY <1>7, AnswerSent DEF ConfirmUnsettled
  <1>8. CASE ConfirmRaises(t)
    BY <1>8, AnswerSent DEF ConfirmRaises
  <1> QED
    BY <1>3, <1>4, <1>5, <1>6, <1>7, <1>8 DEF Confirmation

\* Quotes, backups, restores and reconciliation.
LEMMA LedgerSent ==
    ASSUME SentInv, TypeInv',
           (\E o \in Order : Quote(o)) \/ Backup \/ Restore
             \/ ReconcileFetch \/ ReconcileBook
    PROVE  SentInv'
  <1>0. sent' = sent /\ ChainSent'
    BY ChainSentKept
    DEF Quote, Backup, Restore, ReconcileFetch, ReconcileBook, chainVars,
        SentInv
  <1>1. ASSUME NEW o \in Order, Quote(o) PROVE SentInv'
    <2>1. ASSUME NEW p \in Order
          PROVE  OrderSent(p, orders'[p], sent', issued')
      <3>1. CASE p = o
        BY <1>1, <3>1 DEF Quote, OrderSent, SentInv, TypeInv, Shapes
      <3>2. CASE p # o
        <4>1. orders'[p] = orders[p] /\ issued \subseteq issued'
          BY <1>1, <3>2 DEF Quote, SentInv, TypeInv, Shapes
        <4> QED
          BY <1>0, <4>1, OrderStaysSent DEF SentInv
      <3> QED
        BY <3>1, <3>2
    <2>2. issued \subseteq issued' /\ backup' = backup /\ threads' = threads
      BY <1>1 DEF Quote
    <2>3. backup \in Ledger =>
            \A p \in Order : OrderSent(p, backup.orders[p], sent', issued')
      BY <1>0, <2>2, OrderStaysSent DEF SentInv
    <2> QED
      BY <1>0, <2>1, <2>2, <2>3 DEF SentInv
  <1>2. CASE Backup
    BY <1>0, <1>2 DEF Backup, SentInv
  <1>3. CASE Restore
    <2>1. ASSUME NEW u \in Thread PROVE ThreadSent(threads'[u], sent')
      <3>1. threads'[u] = [threads[u] EXCEPT !.live = @ /\ threads[u].pc = "idle"]
        BY <1>3 DEF Restore
      <3>2. ThreadTyped(threads[u], orders) /\ ThreadSent(threads[u], sent)
        BY DEF SentInv, TypeInv
      <3>3. /\ threads'[u].pc = threads[u].pc
            /\ threads'[u].order = threads[u].order
            /\ threads'[u].tx = threads[u].tx
        BY <3>1, <3>2 DEF ThreadTyped, ThreadRecord
      <3> QED
        BY <1>0, <3>2, <3>3 DEF ThreadSent
    <2>2. backup \in Ledger
      BY <1>3 DEF Restore, SentInv, TypeInv, Shapes
    <2> QED
      BY <1>0, <1>3, <2>1, <2>2 DEF Restore, SentInv
  <1>4. CASE ReconcileFetch
    BY <1>0, <1>4 DEF ReconcileFetch, SentInv
  <1>5. CASE ReconcileBook
    BY <1>0, <1>5 DEF ReconcileBook, SentInv
  <1> QED
    BY <1>1, <1>2, <1>3, <1>4, <1>5

\* The chain moves, forwards or back: only broadcast transactions are on it.
LEMMA ChainStaysSent ==
    ASSUME SentInv, TypeInv',
           Mine \/ (\E n \in 0..Len(chain), requeue \in BOOLEAN : Reorg(n, requeue))
             \/ (\E m \in EventModes : SetEventMode(m))
             \/ (\E p \in FairPrices : MoveFairPrice(p)) \/ Tick
    PROVE  SentInv'
  <1>0. UNCHANGED <<sent, orders, backup, issued, threads>>
    BY DEF Mine, Reorg, SetEventMode, MoveFairPrice, Tick, ledgerVars, chainVars
  <1>1. chain \in Seq(Entry) /\ mempool \subseteq Tx
    BY DEF SentInv, TypeInv, Shapes
  <1>2. ChainSent
    BY DEF SentInv
  <1>3. CASE Mine
    <2>1. PICK x \in mempool :
            /\ x.nonce = Len(chain)
            /\ chain' = Append(chain, [tx |-> x, mode |-> eventMode,
                                ok |-> x.auth \in Executable \ UsedAuths])
            /\ mempool' = mempool \ {x}
      BY <1>3 DEF Mine
    <2>2. /\ Len(chain') = Len(chain) + 1 /\ chain'[Len(chain) + 1].tx = x
          /\ \A i \in 1..Len(chain) : chain'[i] = chain[i]
      BY <1>1, <2>1
    <2>3. ChainSent'
      BY <1>0, <1>1, <1>2, <2>1, <2>2 DEF ChainSent
    <2> QED
      BY <1>0, <2>3 DEF SentInv
  <1>4. ASSUME NEW n \in 0..Len(chain), NEW requeue \in BOOLEAN,
               Reorg(n, requeue)
        PROVE  SentInv'
    <2>1. /\ Len(chain') = n /\ n <= Len(chain)
          /\ \A i \in 1..n : chain'[i] = chain[i]
      BY <1>1, <1>4 DEF Reorg
    <2>2. mempool' \subseteq mempool \cup {chain[i].tx : i \in (n + 1)..Len(chain)}
      BY <1>4 DEF Reorg
    <2>3. \A i \in (n + 1)..Len(chain) : i \in 1..Len(chain)
      BY <1>1
    <2>4. \A i \in 1..n : i \in 1..Len(chain)
      BY <1>1, <2>1
    <2>5. \A i \in 1..Len(chain') : /\ \E s \in sent' : s.tx = chain'[i].tx
                                    /\ chain'[i].tx.nonce = i - 1
      BY <1>0, <1>2, <2>1, <2>4 DEF ChainSent
    <2>6. ASSUME NEW tx \in mempool' PROVE \E s \in sent' : s.tx = tx
      <3>1. CASE tx \in mempool
        BY <1>0, <1>2, <3>1 DEF ChainSent
      <3>2. CASE tx \notin mempool
        <4>1. PICK i \in 1..Len(chain) : tx = chain[i].tx
          BY <2>2, <2>3, <3>2
        <4> QED
          BY <1>0, <1>2, <4>1 DEF ChainSent
      <3> QED
        BY <3>1, <3>2
    <2> QED
      BY <1>0, <2>5, <2>6 DEF SentInv, ChainSent
  <1>5. CASE UNCHANGED <<chain, mempool>>
    BY <1>0, <1>2, <1>5 DEF SentInv, ChainSent
  <1> QED
    BY <1>3, <1>4, <1>5
    DEF SetEventMode, MoveFairPrice, Tick, chainVars

\* SentInv is inductive.
LEMMA NextSent == SentInv /\ [Next]_vars => SentInv'
  <1> SUFFICES ASSUME SentInv, [Next]_vars PROVE SentInv'
    OBVIOUS
  <1>1. TypeInv'
    BY NextType DEF SentInv
  <1>2. CASE UNCHANGED vars
    BY <1>1, <1>2, ChainSentKept
    DEF vars, ledgerVars, chainVars, envVars, SentInv
  <1>3. CASE Next
    BY <1>1, <1>3, PaySent, SubmissionSent, ConfirmationSent, LedgerSent,
       ChainStaysSent
    DEF Next
  <1> QED
    BY <1>2, <1>3

\* A fresh server has broadcast nothing and noted nothing.
LEMMA InitSent == Init => SentInv
  <1> SUFFICES ASSUME Init PROVE SentInv
    OBVIOUS
  <1>1. TypeInv
    BY InitType
  <1>2. \A t \in Thread : ThreadSent(threads[t], sent)
    BY DEF Init, ThreadSent, Idle
  <1>3. \A o \in Order : OrderSent(o, orders[o], sent, issued)
    BY NoneAssumption DEF Init, OrderSent
  <1>4. ChainSent /\ backup \notin Ledger
    BY NoneAssumption DEF Init, ChainSent
  <1> QED
    BY <1>1, <1>2, <1>3, <1>4 DEF SentInv

\* A transaction the node shows as a credit was received for some order.
LEMMA CreditsAreReceived ==
    ASSUME SentInv, NEW tx \in CreditLogs
    PROVE  Executed(tx) /\ tx \in {r.tx : r \in Received}
  <1>1. chain \in Seq(Entry)
    BY DEF SentInv, TypeInv, Shapes
  <1>2. PICK i \in 1..Len(chain) : chain[i].ok /\ chain[i].tx = tx
    BY <1>1 DEF CreditLogs
  <1>3. tx.nonce = i - 1 /\ \E s \in sent : s.tx = tx
    BY <1>2 DEF SentInv, ChainSent
  <1>4. Executed(tx)
    BY <1>1, <1>2, <1>3 DEF Executed, Mined
  <1> QED
    BY <1>3, <1>4 DEF Received

\* What the ledger books of an order's record.
Booked(rec) == IF rec # None /\ rec.paid THEN rec.identity ELSE None

\* The books change only where a record's payment does.
LEMMA SameBooks ==
    ASSUME \A o \in Order : Booked(orders'[o]) = Booked(orders[o])
    PROVE  PaidIn(orders') = PaidIn(orders)
  BY DEF PaidIn, Booked

\* A record that is written back with its payment leaves the books alone.
LEMMA WriteKeepsBooks ==
    ASSUME TypeInv, NEW t \in Thread, threads[t].pc # "idle", NEW rec,
           Write(t, rec),
           threads[t].live => /\ rec \in OrderRecord
                              /\ rec.paid = OrderOf(t).paid
                              /\ rec.identity = OrderOf(t).identity
    PROVE  PaidIn(orders') = PaidIn(orders)
  <1>1. /\ threads[t].order \in Order
        /\ orders \in [Order -> OrderRecord \cup {None}]
        /\ threads[t].live => OrderOf(t) \in OrderRecord
    BY DEF TypeInv, Shapes, ThreadTyped, OrderOf
  <1>2. ASSUME NEW o \in Order PROVE Booked(orders'[o]) = Booked(orders[o])
    <2>1. CASE orders'[o] = orders[o]
      BY <2>1
    <2>2. CASE orders'[o] # orders[o]
      <3>1. threads[t].live /\ o = threads[t].order /\ orders'[o] = rec
        BY <1>1, <2>2 DEF Write
      <3> QED
        BY <1>1, <3>1, NoneAssumption DEF Booked, OrderOf
    <2> QED
      BY <2>1, <2>2
  <1> QED
    BY <1>2, SameBooks

\* A step that neither moves the chain nor writes books is a stutter.
LEMMA Stutters ==
    ASSUME UNCHANGED <<sent, chain, recovered, job, backup>>,
           PaidIn(orders') = PaidIn(orders)
    PROVE  UNCHANGED MerchantLedger!vars
  <1>1. Received' = Received
    BY DEF Received, Executed, Mined
  <1>2. PaidIn(backup'.orders) = PaidIn(backup.orders)
    OBVIOUS
  <1> QED
    BY <1>1, <1>2 DEF MerchantLedger!vars

\* Mining, broadcasting and reorganising move the chain under the ledger.
LEMMA ChainMovesRefine ==
    ASSUME TypeInv', UNCHANGED <<recovered, job, backup>>,
           PaidIn(orders') = PaidIn(orders)
    PROVE  MerchantLedger!Next
  <1>1. Received' \subseteq [order : Order, tx : Tx]
    BY DEF Received, TypeInv, Shapes
  <1>2. PaidIn(backup'.orders) = PaidIn(backup.orders)
    OBVIOUS
  <1>3. MerchantLedger!ChainMoves
    BY <1>1, <1>2 DEF MerchantLedger!ChainMoves
  <1> QED
    BY <1>3 DEF MerchantLedger!Next

\* A pay call books nothing before it confirms (server.py:143-186, 310-352).
LEMMA CallsRefine ==
    ASSUME SentInv, SentInv', NEW t \in Thread,
           (\E o \in Order : Pay(t, o)) \/ Submission(t)
    PROVE  MerchantLedger!Next \/ UNCHANGED MerchantLedger!vars
  <1>0. TypeInv /\ TypeInv' /\ ThreadTyped(threads[t], orders)
    BY DEF SentInv, TypeInv
  <1>1. ASSUME NEW o \in Order, NEW a \in Auth, PaySubmits(t, o, a)
        PROVE  UNCHANGED MerchantLedger!vars
    <2>1. orders[o] \in OrderRecord /\ orders \in [Order -> OrderRecord \cup {None}]
      BY <1>0, <1>1 DEF PaySubmits, FallsThrough, Known, TypeInv, Shapes
    <2>2. /\ orders'[o] \in OrderRecord
          /\ orders'[o].paid = orders[o].paid
          /\ orders'[o].identity = orders[o].identity
          /\ \A p \in Order : p # o => orders'[p] = orders[p]
      BY <1>1, <2>1 DEF PaySubmits, OrderRecord
    <2>3. \A p \in Order : Booked(orders'[p]) = Booked(orders[p])
      BY <2>1, <2>2, NoneAssumption DEF Booked
    <2> QED
      BY <1>1, <2>3, SameBooks, Stutters DEF PaySubmits, chainVars
  <1>2. CASE Send(t)
    <2> DEFINE rec == [OrderOf(t) EXCEPT !.submittedTx = threads[t].tx]
    <2>1. ASSUME threads[t].live
          PROVE  /\ rec \in OrderRecord /\ rec.paid = OrderOf(t).paid
                 /\ rec.identity = OrderOf(t).identity
      BY <1>0, <1>2, <2>1 DEF Send, OrderOf, ThreadTyped, OrderRecord
    <2>2. PaidIn(orders') = PaidIn(orders)
      BY <1>0, <1>2, <2>1, WriteKeepsBooks DEF Send
    <2> QED
      BY <1>0, <1>2, <2>2, ChainMovesRefine DEF Send, Broadcast
  <1>3. CASE SendLost(t)
    BY <1>0, <1>3, ChainMovesRefine DEF SendLost, Broadcast
  <1>4. CASE UNCHANGED <<ledgerVars, chainVars>>
    BY <1>4, Stutters DEF ledgerVars, chainVars
  <1> QED
    BY <1>1, <1>2, <1>3, <1>4
    DEF Pay, PayUnknown, PayCached, PayAwaitsPending, PayExpired, PayStale,
        Submission, Prepare, PrepareRaises, SendRejected

\* Confirming books a payment the node shows (server.py:188-234); a call whose
\* order a restore replaced books nothing.
LEMMA ConfirmationRefines ==
    ASSUME SentInv, NEW t \in Thread, Confirmation(t)
    PROVE  MerchantLedger!Next \/ UNCHANGED MerchantLedger!vars
  <1>0. TypeInv /\ ThreadTyped(threads[t], orders) /\ ThreadSent(threads[t], sent)
    BY DEF SentInv, TypeInv
  <1>1. ASSUME threads[t].pc \in {"wait", "confirm"}
        PROVE  /\ threads[t].order \in Order /\ threads[t].tx \in Tx
               /\ threads[t].auth \in Auth
               /\ threads[t].live => OrderOf(t) \in OrderRecord
    BY <1>0, <1>1 DEF ThreadTyped, OrderOf
  <1>2. ASSUME NEW rec, threads[t].pc # "idle", Write(t, rec),
               threads[t].live => /\ rec \in OrderRecord
                                  /\ rec.paid = OrderOf(t).paid
                                  /\ rec.identity = OrderOf(t).identity,
               UNCHANGED <<recovered, backup, job, issued, chainVars>>
        PROVE  UNCHANGED MerchantLedger!vars
    BY <1>0, <1>2, WriteKeepsBooks, Stutters DEF chainVars
  <1>3. CASE GotReceipt(t) \/ SkipReceipt(t)
    <2>1. threads[t].pc = "wait" /\ Write(t, NotPending(OrderOf(t)))
          /\ UNCHANGED <<recovered, backup, job, issued, chainVars>>
      BY <1>3 DEF GotReceipt, SkipReceipt
    <2>2. ASSUME threads[t].live
          PROVE  LET rec == NotPending(OrderOf(t)) IN
                 /\ rec \in OrderRecord /\ rec.paid = OrderOf(t).paid
                 /\ rec.identity = OrderOf(t).identity
      BY <1>1, <2>1, <2>2 DEF NotPending, OrderRecord
    <2> QED
      BY <1>2, <2>1, <2>2
  <1>4. CASE NoReceipt(t)
    <2> DEFINE rec == [OrderOf(t) EXCEPT !.pendingTx = threads[t].tx,
                                         !.pendingAuth = threads[t].auth]
    <2>1. threads[t].pc = "wait" /\ Write(t, rec)
          /\ UNCHANGED <<recovered, backup, job, issued, chainVars>>
      BY <1>4 DEF NoReceipt
    <2>2. ASSUME threads[t].live
          PROVE  /\ rec \in OrderRecord /\ rec.paid = OrderOf(t).paid
                 /\ rec.identity = OrderOf(t).identity
      BY <1>1, <2>1, <2>2 DEF OrderRecord
    <2> QED
      BY <1>2, <2>1, <2>2
  <1>5. CASE ConfirmSettled(t) /\ ~threads[t].live
    <2>1. orders' = orders /\ UNCHANGED <<recovered, backup, job, chainVars>>
      BY <1>5 DEF ConfirmSettled, Write
    <2> QED
      BY <2>1, Stutters DEF chainVars
  <1>6. CASE ConfirmSettled(t) /\ threads[t].live
    <2> DEFINE o == threads[t].order
               x == threads[t].tx
               rec == [OrderOf(t) EXCEPT !.paid = TRUE, !.identity = x]
               r == [order |-> o, tx |-> x]
    <2>1. /\ threads[t].pc = "confirm" /\ x \in CreditLogs
          /\ orders' = [orders EXCEPT ![o] = rec]
          /\ UNCHANGED <<recovered, backup, job, issued, chainVars>>
      BY <1>6 DEF ConfirmSettled, Settled, Write
    <2>2. o \in Order /\ x \in Tx /\ OrderOf(t) \in OrderRecord
      BY <1>1, <1>6, <2>1
    <2>3. r \in Received
      BY <1>0, <2>1, CreditsAreReceived DEF ThreadSent, SentFor, Received
    <2>4. rec \in OrderRecord /\ rec.paid /\ rec.identity = x
      BY <2>2 DEF OrderRecord
    <2>5. PaidIn(orders') = [PaidIn(orders) EXCEPT ![o] = x]
      <3>1. orders \in [Order -> OrderRecord \cup {None}]
        BY <1>0 DEF TypeInv, Shapes
      <3>2. orders'[o] = rec /\ \A p \in Order : p # o => orders'[p] = orders[p]
        BY <2>1, <2>2, <3>1
      <3> HIDE DEF rec, x, o
      <3> QED
        BY <2>2, <2>4, <3>2, NoneAssumption DEF PaidIn
    <2>6. r.order = o /\ r.tx = x
      OBVIOUS
    <2>7. Received' = Received /\ PaidIn(backup'.orders) = PaidIn(backup.orders)
      BY <2>1 DEF Received, Executed, Mined, chainVars
    <2>8. MerchantLedger!Book(o)
      BY <2>1, <2>3, <2>5, <2>6, <2>7 DEF MerchantLedger!Book
    <2> QED
      BY <2>2, <2>8 DEF MerchantLedger!Next
  <1>7. CASE ConfirmUnsettled(t) \/ ConfirmRaises(t)
    BY <1>7, Stutters DEF ConfirmUnsettled, ConfirmRaises, ledgerVars, chainVars
  <1> QED
    BY <1>3, <1>4, <1>5, <1>6, <1>7 DEF Confirmation

\* A quote adds a record for a new order, backup and restore carry the books
\* over, and reconciliation books what it saw (server.py:119-141, 255-306).
LEMMA LedgerRefines ==
    ASSUME SentInv, SentInv',
           (\E o \in Order : Quote(o)) \/ Backup \/ Restore
             \/ ReconcileFetch \/ ReconcileBook
    PROVE  MerchantLedger!Next \/ UNCHANGED MerchantLedger!vars
  <1>0. TypeInv /\ TypeInv'
    BY DEF SentInv
  <1>1. ASSUME NEW o \in Order, Quote(o)
        PROVE  UNCHANGED MerchantLedger!vars
    <2>1. orders \in [Order -> OrderRecord \cup {None}]
      BY <1>0 DEF TypeInv, Shapes
    <2>2. orders[o] = None
      BY <1>1, <2>1 DEF Quote, SentInv, OrderSent
    <2>3. orders'[o].paid = FALSE /\ \A p \in Order : p # o => orders'[p] = orders[p]
      BY <1>1, <2>1 DEF Quote
    <2>4. \A p \in Order : Booked(orders'[p]) = Booked(orders[p])
      BY <2>2, <2>3 DEF Booked
    <2> QED
      BY <1>1, <2>4, SameBooks, Stutters DEF Quote, chainVars
  <1>2. ASSUME UNCHANGED chainVars
        PROVE  Received' = Received
    BY <1>2 DEF Received, Executed, Mined, chainVars
  <1>3. CASE Backup
    <2>1. backup' = [orders |-> orders, recovered |-> recovered]
          /\ UNCHANGED <<orders, recovered, job, chainVars>>
      BY <1>3 DEF Backup
    <2>2. backup' \in Ledger
      BY <1>0, <2>1 DEF TypeInv, Shapes, Ledger
    <2>3. backup' # None
      BY <2>2, NoneAssumption
    <2>4. PaidIn(backup'.orders) = PaidIn(orders) /\ backup'.recovered = recovered
      BY <2>1
    <2>5. MerchantLedger!Backup
      BY <1>2, <2>1, <2>3, <2>4 DEF MerchantLedger!Backup
    <2> QED
      BY <2>5 DEF MerchantLedger!Next
  <1>4. CASE Restore
    <2>1. /\ backup # None
          /\ orders' = backup.orders /\ recovered' = backup.recovered
          /\ UNCHANGED <<backup, job, chainVars>>
      BY <1>4 DEF Restore
    <2> DEFINE books == [paid |-> PaidIn(backup.orders),
                         recovered |-> backup.recovered]
    <2>2. backup.orders \in [Order -> OrderRecord \cup {None}]
          /\ backup.recovered \subseteq Tx
      BY <1>0, <2>1 DEF TypeInv, Shapes, Ledger
    <2>3. PaidIn(backup.orders) \in [Order -> Tx \cup {None}]
      BY <2>2 DEF PaidIn, OrderRecord
    <2>4. books # None
      BY <2>2, <2>3, NoneAssumption DEF Books
    <2>5. PaidIn(orders') = PaidIn(backup.orders)
          /\ PaidIn(backup'.orders) = PaidIn(backup.orders)
      BY <2>1
    <2>6. MerchantLedger!Restore
      BY <1>2, <2>1, <2>4, <2>5 DEF MerchantLedger!Restore
    <2> QED
      BY <2>6 DEF MerchantLedger!Next
  <1>5. CASE ReconcileFetch
    <2>1. job' = CreditLogs /\ UNCHANGED <<orders, recovered, backup, chainVars>>
      BY <1>5 DEF ReconcileFetch
    <2>2. CreditLogs \subseteq {r.tx : r \in Received}
      BY CreditsAreReceived
    <2>3. PaidIn(orders') = PaidIn(orders)
          /\ PaidIn(backup'.orders) = PaidIn(backup.orders)
      BY <2>1
    <2>4. MerchantLedger!Fetch
      BY <1>2, <2>1, <2>2, <2>3 DEF MerchantLedger!Fetch
    <2> QED
      BY <2>4 DEF MerchantLedger!Next
  <1>6. CASE ReconcileBook
    <2>1. /\ job # None /\ job' = None
          /\ recovered \subseteq recovered' /\ recovered' \subseteq recovered \cup job
          /\ UNCHANGED <<orders, backup, chainVars>>
      BY <1>6 DEF ReconcileBook
    <2>2. PaidIn(orders') = PaidIn(orders)
          /\ PaidIn(backup'.orders) = PaidIn(backup.orders)
      BY <2>1
    <2>3. MerchantLedger!Recover
      BY <1>2, <2>1, <2>2 DEF MerchantLedger!Recover
    <2> QED
      BY <2>3 DEF MerchantLedger!Next
  <1> QED
    BY <1>1, <1>3, <1>4, <1>5, <1>6

\* Every step of the server is a step of the payment ledger or none.
LEMMA NextRefines ==
    SentInv /\ SentInv' /\ [Next]_vars => [MerchantLedger!Next]_(MerchantLedger!vars)
  <1> SUFFICES ASSUME SentInv, SentInv', [Next]_vars
               PROVE  MerchantLedger!Next \/ UNCHANGED MerchantLedger!vars
    OBVIOUS
  <1>1. CASE UNCHANGED vars
    BY <1>1, Stutters DEF vars, ledgerVars, chainVars
  <1>2. CASE Mine \/ (\E n \in 0..Len(chain), requeue \in BOOLEAN : Reorg(n, requeue))
               \/ (\E m \in EventModes : SetEventMode(m))
               \/ (\E p \in FairPrices : MoveFairPrice(p)) \/ Tick
    <2>1. UNCHANGED <<orders, recovered, job, backup>>
      BY <1>2 DEF Mine, Reorg, SetEventMode, MoveFairPrice, Tick, ledgerVars
    <2> QED
      BY <2>1, ChainMovesRefine DEF SentInv
  <1>3. CASE Next
    BY <1>2, <1>3, CallsRefine, ConfirmationRefines, LedgerRefines DEF Next
  <1> QED
    BY <1>1, <1>3

\* The server keeps the promise of a payment ledger, for any number of orders,
\* threads and faults and across reorganisations and restores: an order gets
\* paid only by a settlement broadcast for it that is on the chain at that
\* moment, reconciliation books only credits it saw there, and nothing is
\* unbooked but by a restore (server.py:143-306).
THEOREM ServerImplementsLedger == Spec => ImplementsLedger
  <1>1. Init => MerchantLedger!Init
    <2> SUFFICES ASSUME Init PROVE MerchantLedger!Init
      OBVIOUS
    <2>1. Received = {} /\ PaidIn(orders) = [o \in Order |-> None]
      BY DEF Init, Received, PaidIn
    <2> QED
      BY <2>1 DEF Init, MerchantLedger!Init
  <1> QED
    BY <1>1, InitSent, NextSent, NextRefines, PTL
    DEF Spec, ImplementsLedger, MerchantLedger!Spec

-----------------------------------------------------------------------------
(***************************************************************************)
(* An idempotent server that serves one pay call at a time: a booking is   *)
(* stable and the hash status shows is the settlement's, under every fault *)
(* and across reorganisations and restores.  Both rest on NamedInv: the    *)
(* order of a call in flight is unpaid, the hash the record shows is the   *)
(* one the call waits on, and a pending hash is the last one broadcast.    *)
(* With two calls in flight for one order neither holds (the second call   *)
(* overwrites the hash), which is why OneCaller is a hypothesis.           *)
(***************************************************************************)

OneCaller == \A t, u \in Thread : t = u

RecordNamed(rec) ==
    rec \in OrderRecord =>
      /\ rec.paid => rec.submittedTx = rec.identity
      /\ rec.pendingTx # None => /\ rec.pendingTx = rec.submittedTx
                                 /\ rec.pendingAuth # None

ThreadNamed(th, ords) ==
    th.pc # "idle" /\ th.live =>
      /\ ~ords[th.order].paid
      /\ th.pc \in {"submit", "send"} => ords[th.order].pendingTx = None
      /\ th.pc \in {"wait", "confirm"} => ords[th.order].submittedTx = th.tx

NamedInv ==
    /\ SentInv
    /\ \A t \in Thread : ThreadNamed(threads[t], orders)
    /\ \A o \in Order : RecordNamed(orders[o])
    /\ backup \in Ledger => \A o \in Order : RecordNamed(backup.orders[o])

\* The one caller moves on and at most its order is rewritten.
LEMMA CallStaysNamed ==
    ASSUME OneCaller, NamedInv, SentInv', NEW t \in Thread, NEW th,
           threads' = [threads EXCEPT ![t] = th], ThreadNamed(th, orders'),
           \A o \in Order : orders'[o] = orders[o] \/ RecordNamed(orders'[o]),
           backup' = backup
    PROVE  NamedInv'
  <1>1. ASSUME NEW u \in Thread PROVE ThreadNamed(threads'[u], orders')
    BY DEF OneCaller, NamedInv, SentInv, TypeInv, Shapes
  <1> QED
    BY <1>1 DEF NamedInv

\* A pay call answers without writing to the ledger.
LEMMA AnswerNamed ==
    ASSUME OneCaller, NamedInv, SentInv', NEW t \in Thread, NEW kind, NEW tx,
           Reply(t, kind, tx), UNCHANGED ledgerVars
    PROVE  NamedInv'
  <1>1. ThreadNamed(Idle(kind, tx), orders')
    BY DEF ThreadNamed, Idle
  <1> QED
    BY <1>1, CallStaysNamed DEF Reply, ledgerVars

\* What a thread writes to its order is well named if the record is.
LEMMA WriteNamed ==
    ASSUME TypeInv, NEW t \in Thread, threads[t].pc # "idle", NEW rec,
           Write(t, rec), threads[t].live => RecordNamed(rec)
    PROVE  /\ \A o \in Order : orders'[o] = orders[o] \/ RecordNamed(orders'[o])
           /\ threads[t].live => orders'[threads[t].order] = rec
  <1>1. threads[t].order \in Order /\ orders \in [Order -> OrderRecord \cup {None}]
    BY DEF TypeInv, Shapes, ThreadTyped
  <1> QED
    BY <1>1 DEF Write

\* A call that ends by writing a well named record to its order.
LEMMA EndNamed ==
    ASSUME OneCaller, NamedInv, SentInv', NEW t \in Thread,
           threads[t].pc # "idle", NEW kind, NEW tx, NEW rec,
           Reply(t, kind, tx), Write(t, rec), backup' = backup,
           threads[t].live => RecordNamed(rec)
    PROVE  NamedInv'
  <1>1. ThreadNamed(Idle(kind, tx), orders')
    BY DEF ThreadNamed, Idle
  <1>2. \A o \in Order : orders'[o] = orders[o] \/ RecordNamed(orders'[o])
    BY WriteNamed DEF NamedInv, SentInv
  <1> QED
    BY <1>1, <1>2, CallStaysNamed DEF Reply

\* The guards of pay (server.py:143-186): the idempotency check and the
\* pending check come before a new broadcast.
LEMMA PayNamed ==
    ASSUME IdempotentPay, OneCaller, NamedInv, SentInv',
           NEW t \in Thread, NEW o \in Order, Pay(t, o)
    PROVE  NamedInv'
  <1>0. orders \in [Order -> OrderRecord \cup {None}]
    BY DEF NamedInv, SentInv, TypeInv, Shapes
  <1>1. CASE PayUnknown(t, o)
    BY <1>1, AnswerNamed DEF PayUnknown
  <1>2. CASE PayCached(t, o)
    BY <1>2, AnswerNamed DEF PayCached
  <1>3. CASE PayAwaitsPending(t, o)
    <2> DEFINE th == [Starts("wait", o, orders[o].pendingAuth)
                        EXCEPT !.tx = orders[o].pendingTx]
    <2>1. orders[o] \in OrderRecord /\ ~orders[o].paid /\ orders[o].pendingTx # None
      BY <1>0, <1>3 DEF PayAwaitsPending, AwaitsPending, Cached, Paid, Known
    <2>2. orders[o].submittedTx = orders[o].pendingTx
      BY <2>1 DEF NamedInv, RecordNamed
    <2>3. th.pc = "wait" /\ th.order = o /\ th.tx = orders[o].pendingTx
      BY DEF Starts, Idle
    <2>4. threads' = [threads EXCEPT ![t] = th] /\ orders' = orders
          /\ backup' = backup
      BY <1>3 DEF PayAwaitsPending, ledgerVars
    <2>5. ThreadNamed(th, orders')
      BY <2>1, <2>2, <2>3, <2>4 DEF ThreadNamed
    <2> QED
      BY <2>4, <2>5, CallStaysNamed
  <1>4. CASE PayExpired(t, o)
    BY <1>4, AnswerNamed DEF PayExpired
  <1>5. CASE PayStale(t, o)
    BY <1>5, AnswerNamed DEF PayStale
  <1>6. ASSUME NEW a \in Auth, PaySubmits(t, o, a) PROVE NamedInv'
    <2>1. orders[o] \in OrderRecord /\ ~orders[o].paid
      BY <1>0, <1>6 DEF PaySubmits, FallsThrough, Cached, Paid, Known
    <2>2. orders[o].pendingTx = None
      BY <1>6, <2>1
      DEF PaySubmits, FallsThrough, AwaitsPending, NamedInv, RecordNamed
    <2>3. /\ orders'[o] \in OrderRecord /\ ~orders'[o].paid
          /\ orders'[o].pendingTx = None
          /\ \A p \in Order : p # o => orders'[p] = orders[p]
      BY <1>0, <1>6, <2>1, <2>2 DEF PaySubmits, OrderRecord
    <2> DEFINE th == Starts("submit", o, a)
    <2>4. th.pc = "submit" /\ th.order = o
      BY DEF Starts, Idle
    <2>5. ThreadNamed(th, orders') /\ RecordNamed(orders'[o])
      BY <2>3, <2>4 DEF ThreadNamed, RecordNamed
    <2>6. threads' = [threads EXCEPT ![t] = th] /\ backup' = backup
      BY <1>6 DEF PaySubmits
    <2> QED
      BY <2>3, <2>5, <2>6, CallStaysNamed
  <1> QED
    BY <1>1, <1>2, <1>3, <1>4, <1>5, <1>6 DEF Pay

\* _submit_settlement (server.py:310-352): a broadcast renames an unpaid
\* order that waits on nothing.
LEMMA SubmissionNamed ==
    ASSUME OneCaller, NamedInv, SentInv', NEW t \in Thread, Submission(t)
    PROVE  NamedInv'
  <1>0. /\ TypeInv /\ ThreadTyped(threads[t], orders)
        /\ ThreadNamed(threads[t], orders)
    BY DEF NamedInv, SentInv, TypeInv
  <1>1. ASSUME NEW n \in Nonces, NEW gas \in GasPrices, Prepare(t, n, gas)
        PROVE  NamedInv'
    <2> DEFINE th == [threads[t] EXCEPT !.pc = "send",
                        !.tx = [nonce |-> n, auth |-> threads[t].auth,
                                gas |-> gas]]
    <2>1. /\ th.pc = "send" /\ th.order = threads[t].order
          /\ th.live = threads[t].live
      BY <1>0 DEF ThreadTyped, ThreadRecord
    <2>2. threads' = [threads EXCEPT ![t] = th] /\ orders' = orders
          /\ backup' = backup
      BY <1>1 DEF Prepare, ledgerVars
    <2>3. ThreadNamed(th, orders')
      BY <1>0, <1>1, <2>1, <2>2 DEF Prepare, ThreadNamed
    <2> QED
      BY <2>2, <2>3, CallStaysNamed
  <1>2. CASE PrepareRaises(t)
    BY <1>2, AnswerNamed DEF PrepareRaises
  <1>3. CASE Send(t)
    <2> DEFINE th == [threads[t] EXCEPT !.pc = "wait"]
               rec == [OrderOf(t) EXCEPT !.submittedTx = threads[t].tx]
    <2>1. /\ th.pc = "wait" /\ th.order = threads[t].order
          /\ th.live = threads[t].live /\ th.tx = threads[t].tx
      BY <1>0 DEF ThreadTyped, ThreadRecord
    <2>2. ASSUME threads[t].live
          PROVE  /\ rec \in OrderRecord /\ rec.submittedTx = threads[t].tx
                 /\ ~rec.paid /\ rec.pendingTx = None
      BY <1>0, <1>3, <2>2 DEF Send, ThreadTyped, ThreadNamed, OrderOf, OrderRecord
    <2>3. threads[t].live => RecordNamed(rec)
      BY <2>2 DEF RecordNamed
    <2>4. Write(t, rec) /\ threads[t].pc # "idle"
      BY <1>3 DEF Send
    <2> HIDE DEF rec
    <2>5. /\ \A o \in Order : orders'[o] = orders[o] \/ RecordNamed(orders'[o])
          /\ threads[t].live => orders'[threads[t].order] = rec
      BY <1>0, <2>3, <2>4, WriteNamed
    <2>6. ThreadNamed(th, orders')
      BY <2>1, <2>2, <2>5 DEF ThreadNamed
    <2>7. threads' = [threads EXCEPT ![t] = th] /\ backup' = backup
      BY <1>3 DEF Send, Broadcast
    <2> QED
      BY <2>5, <2>6, <2>7, CallStaysNamed
  <1>4. CASE SendLost(t)
    <2>1. ThreadNamed(Idle("server_error", None), orders')
      BY DEF ThreadNamed, Idle
    <2> QED
      BY <1>4, <2>1, CallStaysNamed DEF SendLost, Reply, Broadcast
  <1>5. CASE SendRejected(t)
    BY <1>5, AnswerNamed DEF SendRejected
  <1> QED
    BY <1>1, <1>2, <1>3, <1>4, <1>5 DEF Submission

\* _confirm (server.py:188-234) books and notes the hash the record shows.
LEMMA ConfirmationNamed ==
    ASSUME OneCaller, NamedInv, SentInv', NEW t \in Thread, Confirmation(t)
    PROVE  NamedInv'
  <1>0. /\ TypeInv /\ ThreadTyped(threads[t], orders)
        /\ ThreadNamed(threads[t], orders)
    BY DEF NamedInv, SentInv, TypeInv
  <1>1. ASSUME threads[t].pc \in {"wait", "confirm"}, threads[t].live
        PROVE  /\ threads[t].order \in Order /\ threads[t].auth \in Auth
               /\ OrderOf(t) \in OrderRecord /\ ~OrderOf(t).paid
               /\ OrderOf(t).submittedTx = threads[t].tx /\ threads[t].tx \in Tx
               /\ RecordNamed(OrderOf(t))
    BY <1>0, <1>1 DEF ThreadTyped, ThreadNamed, OrderOf, NamedInv
  <1>2. ASSUME threads[t].pc = "wait", threads[t].live
        PROVE  LET rec == NotPending(OrderOf(t)) IN
               /\ RecordNamed(rec) /\ ~rec.paid
               /\ rec.submittedTx = threads[t].tx
    <2>1. LET rec == NotPending(OrderOf(t)) IN
            /\ ~rec.paid /\ rec.submittedTx = threads[t].tx
            /\ rec.pendingTx = None
      BY <1>1, <1>2 DEF NotPending, OrderRecord
    <2> QED
      BY <2>1 DEF RecordNamed
  <1>3. CASE GotReceipt(t)
    <2> DEFINE th == [threads[t] EXCEPT !.pc = "confirm",
                        !.receipt = chain[threads[t].tx.nonce + 1]]
    <2>1. /\ th.pc = "confirm" /\ th.order = threads[t].order
          /\ th.live = threads[t].live /\ th.tx = threads[t].tx
      BY <1>0 DEF ThreadTyped, ThreadRecord
    <2>2. /\ threads[t].pc = "wait" /\ Write(t, NotPending(OrderOf(t)))
          /\ threads' = [threads EXCEPT ![t] = th] /\ backup' = backup
      BY <1>3 DEF GotReceipt
    <2>3. /\ \A o \in Order : orders'[o] = orders[o] \/ RecordNamed(orders'[o])
          /\ threads[t].live => orders'[threads[t].order] = NotPending(OrderOf(t))
      BY <1>0, <1>2, <2>2, WriteNamed
    <2>4. ThreadNamed(th, orders')
      BY <1>2, <2>1, <2>2, <2>3 DEF ThreadNamed
    <2> QED
      BY <2>2, <2>3, <2>4, CallStaysNamed
  <1>4. CASE NoReceipt(t)
    <2> DEFINE rec == [OrderOf(t) EXCEPT !.pendingTx = threads[t].tx,
                                         !.pendingAuth = threads[t].auth]
    <2>1. threads[t].pc = "wait"
      BY <1>4 DEF NoReceipt
    <2>2. ASSUME threads[t].live
          PROVE  /\ rec.paid = OrderOf(t).paid /\ rec.pendingTx = threads[t].tx
                 /\ rec.submittedTx = threads[t].tx
                 /\ rec.pendingAuth = threads[t].auth /\ rec \in OrderRecord
      BY <1>1, <2>1, <2>2 DEF OrderRecord
    <2>3. threads[t].live /\ rec.pendingAuth = None => FALSE
      <3>1. SUFFICES ASSUME threads[t].live, threads[t].auth = None PROVE FALSE
        BY <2>2
      <3> QED
        BY <1>1, <2>1, <3>1, NoneAssumption
    <2>4. threads[t].live => RecordNamed(rec)
      BY <1>1, <2>1, <2>2, <2>3 DEF RecordNamed
    <2> QED
      BY <1>4, <2>4, EndNamed DEF NoReceipt
  <1>5. CASE SkipReceipt(t)
    BY <1>2, <1>5, EndNamed DEF SkipReceipt
  <1>6. CASE ConfirmSettled(t)
    <2> DEFINE rec == [OrderOf(t) EXCEPT !.paid = TRUE,
                                         !.identity = threads[t].tx]
    <2>1. threads[t].pc = "confirm"
      BY <1>6 DEF ConfirmSettled
    <2>2. ASSUME threads[t].live
          PROVE  /\ rec.identity = threads[t].tx
                 /\ rec.submittedTx = threads[t].tx
                 /\ rec.pendingTx = OrderOf(t).pendingTx
                 /\ rec.pendingAuth = OrderOf(t).pendingAuth
      BY <1>1, <2>1, <2>2 DEF OrderRecord
    <2>3. threads[t].live => RecordNamed(rec)
      BY <1>1, <2>1, <2>2 DEF RecordNamed
    <2> QED
      BY <1>6, <2>3, EndNamed DEF ConfirmSettled
  <1>7. CASE ConfirmUnsettled(t)
    BY <1>7, AnswerNamed DEF ConfirmUnsettled
  <1>8. CASE ConfirmRaises(t)
    BY <1>8, AnswerNamed DEF ConfirmRaises
  <1> QED
    BY <1>3, <1>4, <1>5, <1>6, <1>7, <1>8 DEF Confirmation

\* Quotes, backups, restores and reconciliation keep the records named.
LEMMA LedgerNamed ==
    ASSUME NamedInv, SentInv',
           (\E o \in Order : Quote(o)) \/ Backup \/ Restore
             \/ ReconcileFetch \/ ReconcileBook
    PROVE  NamedInv'
  <1>0. orders \in [Order -> OrderRecord \cup {None}]
        /\ \A t \in Thread : ThreadTyped(threads[t], orders)
    BY DEF NamedInv, SentInv, TypeInv, Shapes
  <1>1. ASSUME NEW o \in Order, Quote(o) PROVE NamedInv'
    <2>1. orders[o] \notin OrderRecord
      BY <1>1 DEF Quote, NamedInv, SentInv, OrderSent
    <2>2. \A p \in Order : p # o => orders'[p] = orders[p]
      BY <1>0, <1>1 DEF Quote
    <2>3. orders'[o].paid = FALSE /\ orders'[o].pendingTx = None
      BY <1>0, <1>1 DEF Quote
    <2>4. \A p \in Order : RecordNamed(orders'[p])
      BY <2>2, <2>3 DEF NamedInv, RecordNamed
    <2>5. ASSUME NEW u \in Thread PROVE ThreadNamed(threads[u], orders')
      <3>1. SUFFICES ASSUME threads[u].pc # "idle", threads[u].live
                     PROVE  ThreadNamed(threads[u], orders')
        BY DEF ThreadNamed
      <3>2. orders'[threads[u].order] = orders[threads[u].order]
        BY <1>0, <2>1, <2>2, <3>1 DEF ThreadTyped
      <3> QED
        BY <3>2 DEF NamedInv, ThreadNamed
    <2> QED
      BY <1>1, <2>4, <2>5 DEF Quote, NamedInv
  <1>2. CASE Backup
    BY <1>2 DEF Backup, NamedInv
  <1>3. CASE Restore
    <2>1. ASSUME NEW u \in Thread PROVE ThreadNamed(threads'[u], orders')
      <3>1. threads'[u] = [threads[u] EXCEPT !.live = @ /\ threads[u].pc = "idle"]
            /\ threads[u] \in ThreadRecord
        BY <1>0, <1>3 DEF Restore, ThreadTyped
      <3>2. threads'[u].pc = threads[u].pc
            /\ (threads'[u].live => threads[u].pc = "idle")
        BY <3>1 DEF ThreadRecord
      <3> QED
        BY <3>2 DEF ThreadNamed
    <2>2. backup \in Ledger
      BY <1>3 DEF Restore, NamedInv, SentInv, TypeInv, Shapes
    <2> QED
      BY <1>3, <2>1, <2>2 DEF Restore, NamedInv
  <1>4. CASE ReconcileFetch
    BY <1>4 DEF ReconcileFetch, NamedInv
  <1>5. CASE ReconcileBook
    BY <1>5 DEF ReconcileBook, NamedInv
  <1> QED
    BY <1>1, <1>2, <1>3, <1>4, <1>5

\* NamedInv is inductive for an idempotent server with one caller.
LEMMA NextNamed ==
    ASSUME IdempotentPay, OneCaller
    PROVE  NamedInv /\ [Next]_vars => NamedInv'
  <1> SUFFICES ASSUME NamedInv, [Next]_vars PROVE NamedInv'
    OBVIOUS
  <1>1. SentInv'
    BY NextSent DEF NamedInv
  <1>2. CASE UNCHANGED <<orders, backup, threads>>
    BY <1>1, <1>2 DEF NamedInv
  <1>3. CASE UNCHANGED vars
    BY <1>2, <1>3 DEF vars, ledgerVars
  <1>4. CASE Mine \/ (\E n \in 0..Len(chain), requeue \in BOOLEAN : Reorg(n, requeue))
               \/ (\E m \in EventModes : SetEventMode(m))
               \/ (\E p \in FairPrices : MoveFairPrice(p)) \/ Tick
    BY <1>2, <1>4
    DEF Mine, Reorg, SetEventMode, MoveFairPrice, Tick, ledgerVars
  <1>5. CASE Next
    BY <1>1, <1>4, <1>5, PayNamed, SubmissionNamed, ConfirmationNamed,
       LedgerNamed
    DEF Next
  <1> QED
    BY <1>3, <1>5

\* A fresh server has no record and no call in flight.
LEMMA InitNamed == Init => NamedInv
  <1> SUFFICES ASSUME Init PROVE NamedInv
    OBVIOUS
  <1>1. SentInv
    BY InitSent
  <1>2. \A t \in Thread : ThreadNamed(threads[t], orders)
    BY DEF Init, ThreadNamed, Idle
  <1>3. \A o \in Order : RecordNamed(orders[o])
    BY NoneAssumption DEF Init, RecordNamed
  <1>4. backup \notin Ledger
    BY NoneAssumption DEF Init
  <1> QED
    BY <1>1, <1>2, <1>3, <1>4 DEF NamedInv

\* The hash status shows for a paid order, and the cached answer repeats, is
\* the settlement that paid it, if pay is idempotent and calls do not overlap
\* (server.py:152-158, 185, 236-253).
THEOREM StatusIsTheSettlement ==
    ASSUME IdempotentPay, OneCaller
    PROVE  Spec => []StatusNamesTheSettlement
  <1>1. NamedInv => StatusNamesTheSettlement
    <2> SUFFICES ASSUME NamedInv, NEW o \in Order, Status(o).paid
                 PROVE  Status(o).submitted_tx = orders[o].identity
      BY DEF StatusNamesTheSettlement
    <2>1. Paid(o) /\ orders[o] \in OrderRecord
      BY DEF Status, Paid, Known, NamedInv, SentInv, TypeInv, Shapes
    <2> QED
      BY <2>1 DEF Status, Paid, NamedInv, RecordNamed
  <1> QED
    BY <1>1, InitNamed, NextNamed, PTL DEF Spec

\* The write of a call in flight leaves a paid order alone.
LEMMA WriteSparesPaid ==
    ASSUME NamedInv, NEW t \in Thread, threads[t].pc # "idle", NEW rec,
           Write(t, rec), NEW o \in Order, Paid(o)
    PROVE  orders'[o] = orders[o]
  <1>1. threads[t].order \in Order /\ orders \in [Order -> OrderRecord \cup {None}]
    BY DEF NamedInv, SentInv, TypeInv, Shapes, ThreadTyped
  <1>2. threads[t].live => threads[t].order # o
    BY DEF NamedInv, ThreadNamed, Paid
  <1> QED
    BY <1>1, <1>2 DEF Write

\* A booking survives until a restore: whatever is called again, fails or is
\* reorganised, a paid order stays paid by the same settlement, if pay is
\* idempotent and calls do not overlap (server.py:152-158, 225-233).
THEOREM BookingsAreStable ==
    ASSUME IdempotentPay, OneCaller
    PROVE  Spec => BookingIsStable
  <1>1. ASSUME NamedInv, [Next]_vars, NEW o \in Order, Paid(o),
               restores' = restores
        PROVE  Paid(o)' /\ orders'[o].identity = orders[o].identity
    <2>0. /\ orders \in [Order -> OrderRecord \cup {None}] /\ restores \in Nat
          /\ orders[o] \in OrderRecord
      BY <1>1 DEF NamedInv, SentInv, TypeInv, Shapes, Paid, Known
    <2>1. SUFFICES orders'[o] = orders[o]
      BY <1>1 DEF Paid, Known
    <2>2. ASSUME NEW p \in Order, Quote(p) PROVE orders'[o] = orders[o]
      <3>1. p # o
        BY <1>1, <2>0, <2>2 DEF Quote, OrderSent, NamedInv, SentInv
      <3> QED
        BY <2>0, <2>2, <3>1 DEF Quote
    <2>3. ASSUME NEW t \in Thread, NEW p \in Order, Pay(t, p)
          PROVE  orders'[o] = orders[o]
      <3>1. ASSUME NEW a \in Auth, PaySubmits(t, p, a)
            PROVE  orders'[o] = orders[o]
        <4>1. p # o
          BY <1>1, <3>1 DEF PaySubmits, FallsThrough, Cached
        <4> QED
          BY <2>0, <3>1, <4>1 DEF PaySubmits
      <3> QED
        BY <2>3, <3>1
        DEF Pay, PayUnknown, PayCached, PayAwaitsPending, PayExpired, PayStale,
            ledgerVars
    <2>4. ASSUME NEW t \in Thread, Submission(t) PROVE orders'[o] = orders[o]
      <3>1. CASE Send(t)
        BY <1>1, <3>1, WriteSparesPaid DEF Send
      <3> QED
        BY <2>4, <3>1
        DEF Submission, Prepare, PrepareRaises, SendLost, SendRejected, ledgerVars
    <2>5. ASSUME NEW t \in Thread, Confirmation(t) PROVE orders'[o] = orders[o]
      <3>1. CASE ConfirmUnsettled(t) \/ ConfirmRaises(t)
        BY <3>1 DEF ConfirmUnsettled, ConfirmRaises, ledgerVars
      <3>2. CASE GotReceipt(t)
        BY <1>1, <3>2, WriteSparesPaid DEF GotReceipt
      <3>3. CASE NoReceipt(t)
        BY <1>1, <3>3, WriteSparesPaid DEF NoReceipt
      <3>4. CASE SkipReceipt(t)
        BY <1>1, <3>4, WriteSparesPaid DEF SkipReceipt
      <3>5. CASE ConfirmSettled(t)
        BY <1>1, <3>5, WriteSparesPaid DEF ConfirmSettled
      <3> QED
        BY <2>5, <3>1, <3>2, <3>3, <3>4, <3>5 DEF Confirmation
    <2>6. ~Restore
      BY <1>1, <2>0 DEF Restore
    <2>7. CASE UNCHANGED orders
      BY <2>7
    <2>8. CASE Next
      BY <2>2, <2>3, <2>4, <2>5, <2>6, <2>7, <2>8
      DEF Next, Backup, ReconcileFetch, ReconcileBook, Mine, Reorg,
          SetEventMode, MoveFairPrice, Tick, ledgerVars
    <2> QED
      BY <1>1, <2>7, <2>8 DEF vars, ledgerVars
  <1>2. NamedInv /\ [Next]_vars =>
          [\A o \in Order : Paid(o) /\ restores' = restores =>
             Paid(o)' /\ orders'[o].identity = orders[o].identity]_vars
    BY <1>1
  <1> QED
    BY <1>2, InitNamed, NextNamed, PTL DEF Spec, BookingIsStable

-----------------------------------------------------------------------------
(***************************************************************************)
(* A call remembers the block of its order's quote (created_block), the    *)
(* lower bound of the confirmer's search, and no write of another call     *)
(* changes it.                                                             *)
(***************************************************************************)

ThreadQuoted(th, ords) ==
    th.pc # "idle" /\ th.live => ords[th.order].createdBlock = th.since

QuotedInv == SentInv /\ \A t \in Thread : ThreadQuoted(threads[t], orders)

KeepsQuotes(ords, new) ==
    \A o \in Order : ords[o] \in OrderRecord =>
                       new[o].createdBlock = ords[o].createdBlock

\* One thread moves on and no quote changes.
LEMMA CallStaysQuoted ==
    ASSUME QuotedInv, SentInv', NEW t \in Thread, NEW th,
           threads' = [threads EXCEPT ![t] = th], ThreadQuoted(th, orders'),
           KeepsQuotes(orders, orders')
    PROVE  QuotedInv'
  <1>1. ASSUME NEW u \in Thread, u # t PROVE ThreadQuoted(threads'[u], orders')
    <2>1. threads'[u] = threads[u] /\ ThreadTyped(threads[u], orders)
          /\ ThreadQuoted(threads[u], orders)
      BY <1>1 DEF QuotedInv, SentInv, TypeInv, Shapes
    <2> QED
      BY <2>1 DEF ThreadTyped, ThreadQuoted, KeepsQuotes
  <1>2. threads'[t] = th
    BY DEF QuotedInv, SentInv, TypeInv, Shapes
  <1> QED
    BY <1>1, <1>2 DEF QuotedInv

\* A pay call answers; whatever it writes keeps the quotes.
LEMMA AnswerQuoted ==
    ASSUME QuotedInv, SentInv', NEW t \in Thread, NEW kind, NEW tx,
           Reply(t, kind, tx), KeepsQuotes(orders, orders')
    PROVE  QuotedInv'
  <1>1. ThreadQuoted(Idle(kind, tx), orders')
    BY DEF ThreadQuoted, Idle
  <1> QED
    BY <1>1, CallStaysQuoted DEF Reply

\* A call moves on with the order it looked up.
LEMMA MoveQuoted ==
    ASSUME QuotedInv, SentInv', NEW t \in Thread, threads[t].pc # "idle",
           NEW th, threads' = [threads EXCEPT ![t] = th],
           th.order = threads[t].order, th.live = threads[t].live,
           th.since = threads[t].since, KeepsQuotes(orders, orders')
    PROVE  QuotedInv'
  <1>1. ThreadTyped(threads[t], orders) /\ ThreadQuoted(threads[t], orders)
    BY DEF QuotedInv, SentInv, TypeInv
  <1>2. ThreadQuoted(th, orders')
    BY <1>1 DEF ThreadTyped, ThreadQuoted, KeepsQuotes
  <1> QED
    BY <1>2, CallStaysQuoted

\* Writing a record back with its quote keeps the quotes.
LEMMA WriteQuoted ==
    ASSUME TypeInv, NEW t \in Thread, threads[t].pc # "idle", NEW rec,
           Write(t, rec),
           threads[t].live => rec.createdBlock = OrderOf(t).createdBlock
    PROVE  KeepsQuotes(orders, orders')
  <1>1. threads[t].order \in Order /\ orders \in [Order -> OrderRecord \cup {None}]
    BY DEF TypeInv, Shapes, ThreadTyped
  <1> QED
    BY <1>1 DEF Write, KeepsQuotes, OrderOf

\* The steps of pay keep the quotes.
LEMMA CallQuoted ==
    ASSUME QuotedInv, SentInv', NEW t \in Thread,
           (\E o \in Order : Pay(t, o)) \/ Submission(t) \/ Confirmation(t)
    PROVE  QuotedInv'
  <1>0. /\ TypeInv /\ ThreadTyped(threads[t], orders)
        /\ orders \in [Order -> OrderRecord \cup {None}]
    BY DEF QuotedInv, SentInv, TypeInv, Shapes
  <1>1. ASSUME orders' = orders PROVE KeepsQuotes(orders, orders')
    BY <1>1 DEF KeepsQuotes
  <1>2. ASSUME threads[t].pc # "idle", threads[t].live
        PROVE  OrderOf(t) \in OrderRecord
    BY <1>0, <1>2 DEF ThreadTyped, OrderOf
  <1>3. ASSUME NEW o \in Order, PayAwaitsPending(t, o) PROVE QuotedInv'
    <2> DEFINE th == [Starts("wait", o, orders[o].pendingAuth)
                        EXCEPT !.tx = orders[o].pendingTx]
    <2>1. th.order = o /\ th.since = orders[o].createdBlock
      BY DEF Starts, Idle
    <2>2. threads' = [threads EXCEPT ![t] = th] /\ orders' = orders
      BY <1>3 DEF PayAwaitsPending, ledgerVars
    <2>3. ThreadQuoted(th, orders')
      BY <2>1, <2>2 DEF ThreadQuoted
    <2> QED
      BY <1>1, <2>2, <2>3, CallStaysQuoted
  <1>4. ASSUME NEW o \in Order, NEW a \in Auth, PaySubmits(t, o, a)
        PROVE  QuotedInv'
    <2> DEFINE th == Starts("submit", o, a)
    <2>1. th.order = o /\ th.since = orders[o].createdBlock
      BY DEF Starts, Idle
    <2>2. orders[o] \in OrderRecord
      BY <1>0, <1>4 DEF PaySubmits, FallsThrough, Known
    <2>3. /\ orders'[o].createdBlock = orders[o].createdBlock
          /\ \A p \in Order : p # o => orders'[p] = orders[p]
      BY <1>0, <1>4, <2>2 DEF PaySubmits, OrderRecord
    <2>4. ThreadQuoted(th, orders') /\ KeepsQuotes(orders, orders')
      BY <2>1, <2>3 DEF ThreadQuoted, KeepsQuotes
    <2> QED
      BY <1>4, <2>4, CallStaysQuoted DEF PaySubmits
  <1>5. ASSUME NEW n \in Nonces, NEW gas \in GasPrices, Prepare(t, n, gas)
        PROVE  QuotedInv'
    <2> DEFINE th == [threads[t] EXCEPT !.pc = "send",
                        !.tx = [nonce |-> n, auth |-> threads[t].auth,
                                gas |-> gas]]
    <2>1. /\ th.order = threads[t].order /\ th.live = threads[t].live
          /\ th.since = threads[t].since
      BY <1>0 DEF ThreadTyped, ThreadRecord
    <2>2. threads[t].pc # "idle" /\ threads' = [threads EXCEPT ![t] = th]
          /\ orders' = orders
      BY <1>5 DEF Prepare, ledgerVars
    <2> QED
      BY <1>1, <2>1, <2>2, MoveQuoted
  <1>6. CASE Send(t)
    <2> DEFINE th == [threads[t] EXCEPT !.pc = "wait"]
               rec == [OrderOf(t) EXCEPT !.submittedTx = threads[t].tx]
    <2>1. /\ th.order = threads[t].order /\ th.live = threads[t].live
          /\ th.since = threads[t].since
      BY <1>0 DEF ThreadTyped, ThreadRecord
    <2>2. /\ threads[t].pc # "idle" /\ threads' = [threads EXCEPT ![t] = th]
          /\ Write(t, rec)
      BY <1>6 DEF Send
    <2>3. threads[t].live => rec.createdBlock = OrderOf(t).createdBlock
      BY <1>2, <2>2 DEF OrderRecord
    <2> QED
      BY <1>0, <2>1, <2>2, <2>3, WriteQuoted, MoveQuoted
  <1>7. CASE GotReceipt(t)
    <2> DEFINE th == [threads[t] EXCEPT !.pc = "confirm",
                        !.receipt = chain[threads[t].tx.nonce + 1]]
    <2>1. /\ th.order = threads[t].order /\ th.live = threads[t].live
          /\ th.since = threads[t].since
      BY <1>0 DEF ThreadTyped, ThreadRecord
    <2>2. /\ threads[t].pc # "idle" /\ threads' = [threads EXCEPT ![t] = th]
          /\ Write(t, NotPending(OrderOf(t)))
      BY <1>7 DEF GotReceipt
    <2>3. threads[t].live =>
            NotPending(OrderOf(t)).createdBlock = OrderOf(t).createdBlock
      BY <1>2, <2>2 DEF NotPending, OrderRecord
    <2> QED
      BY <1>0, <2>1, <2>2, <2>3, WriteQuoted, MoveQuoted
  <1>8. CASE NoReceipt(t) \/ SkipReceipt(t) \/ ConfirmSettled(t)
    <2>1. PICK rec, kind, tx :
            /\ threads[t].pc # "idle" /\ Reply(t, kind, tx) /\ Write(t, rec)
            /\ \/ rec = NotPending(OrderOf(t))
               \/ rec = [OrderOf(t) EXCEPT !.pendingTx = threads[t].tx,
                                           !.pendingAuth = threads[t].auth]
               \/ rec = [OrderOf(t) EXCEPT !.paid = TRUE,
                                           !.identity = threads[t].tx]
      BY <1>8 DEF NoReceipt, SkipReceipt, ConfirmSettled
    <2>2. threads[t].live => rec.createdBlock = OrderOf(t).createdBlock
      BY <1>2, <2>1 DEF NotPending, OrderRecord
    <2> QED
      BY <1>0, <2>1, <2>2, WriteQuoted, AnswerQuoted
  <1>9. ASSUME NEW kind, NEW tx, Reply(t, kind, tx), orders' = orders
        PROVE  QuotedInv'
    BY <1>1, <1>9, AnswerQuoted
  <1> QED
    BY <1>3, <1>4, <1>5, <1>6, <1>7, <1>8, <1>9
    DEF Pay, PayUnknown, PayCached, PayExpired, PayStale, Submission,
        PrepareRaises, SendLost, SendRejected, Confirmation, ConfirmUnsettled,
        ConfirmRaises, ledgerVars

\* QuotedInv is inductive.
LEMMA NextQuoted == QuotedInv /\ [Next]_vars => QuotedInv'
  <1> SUFFICES ASSUME QuotedInv, [Next]_vars PROVE QuotedInv'
    OBVIOUS
  <1>0. /\ SentInv' /\ orders \in [Order -> OrderRecord \cup {None}]
        /\ \A t \in Thread : ThreadTyped(threads[t], orders)
    BY NextSent DEF QuotedInv, SentInv, TypeInv, Shapes
  <1>1. CASE UNCHANGED <<orders, threads>>
    BY <1>0, <1>1 DEF QuotedInv
  <1>2. ASSUME NEW o \in Order, Quote(o) PROVE QuotedInv'
    <2>1. orders[o] \notin OrderRecord
      BY <1>2 DEF Quote, QuotedInv, SentInv, OrderSent
    <2>2. threads' = threads /\ \A p \in Order : p # o => orders'[p] = orders[p]
      BY <1>0, <1>2 DEF Quote
    <2> QED
      BY <1>0, <2>1, <2>2 DEF QuotedInv, ThreadQuoted, ThreadTyped
  <1>3. CASE Restore
    <2>1. ASSUME NEW u \in Thread PROVE ThreadQuoted(threads'[u], orders')
      <3>1. threads'[u] = [threads[u] EXCEPT !.live = @ /\ threads[u].pc = "idle"]
            /\ threads[u] \in ThreadRecord
        BY <1>0, <1>3 DEF Restore, ThreadTyped
      <3>2. threads'[u].pc = threads[u].pc
            /\ (threads'[u].live => threads[u].pc = "idle")
        BY <3>1 DEF ThreadRecord
      <3> QED
        BY <3>2 DEF ThreadQuoted
    <2> QED
      BY <1>0, <2>1 DEF QuotedInv
  <1>4. CASE Next
    BY <1>0, <1>1, <1>2, <1>3, <1>4, CallQuoted
    DEF Next, Backup, ReconcileFetch, ReconcileBook, Mine, Reorg,
        SetEventMode, MoveFairPrice, Tick, ledgerVars
  <1> QED
    BY <1>1, <1>4 DEF vars, ledgerVars

\* A fresh server has no call in flight.
LEMMA InitQuoted == Init => QuotedInv
  BY InitSent DEF Init, QuotedInv, ThreadQuoted, Idle

-----------------------------------------------------------------------------
(***************************************************************************)
(* What a pay call answers is true of the chain.  TruthInv adds to         *)
(* BackedInv the binding of a call to its transaction: it carries the      *)
(* call's own authorization, and its nonce is not older than the quote, so *)
(* that confirmation refuses a mined transaction only if it reverted or    *)
(* its event has drifted.                                                  *)
(***************************************************************************)

RecordBound(rec, c) ==
    rec \in OrderRecord =>
      /\ rec.createdBlock <= Len(c)
      /\ rec.pendingTx # None => /\ rec.pendingTx.auth = rec.pendingAuth
                                 /\ rec.createdBlock <= rec.pendingTx.nonce + 1

ThreadBound(th, c) ==
    /\ th.pc # "idle" => th.since <= Len(c)
    /\ th.pc \in {"send", "wait", "confirm"} =>
         th.tx.auth = th.auth /\ th.since <= th.tx.nonce + 1

Named == {"settled", "idempotent", "settlement_pending", "unsettled"}

AnswerTrue(answer, s, c) ==
    LET tx == answer.tx IN
    /\ answer.kind \in {"settled", "idempotent"} =>
         tx \in Tx /\ MinedIn(tx, c) /\ c[tx.nonce + 1].ok
    /\ answer.kind = "settlement_pending" => \E b \in s : b.tx = tx
    /\ answer.kind = "unsettled" =>
         /\ tx \in Tx /\ MinedIn(tx, c)
         /\ ~c[tx.nonce + 1].ok \/ c[tx.nonce + 1].mode = 1
    /\ answer.kind \notin Named => tx = None

ThreadTrue(th, s, c) == ThreadBound(th, c) /\ AnswerTrue(th.answer, s, c)

TruthInv ==
    /\ BackedInv /\ QuotedInv
    /\ IdempotentPay => NamedInv
    /\ \A t \in Thread : ThreadTrue(threads[t], sent, chain)
    /\ \A o \in Order : RecordBound(orders[o], chain)
    /\ backup \in Ledger =>
         \A o \in Order : RecordBound(backup.orders[o], chain)

\* Evidence accumulates and the chain does not get shorter.
Extends(s, c, s1, c1) ==
    Grows(s, c, s1, c1) /\ Len(c) \in Nat /\ Len(c1) \in Nat /\ Len(c) <= Len(c1)

\* The part of TruthInv that other invariants carry.
Carried == BackedInv /\ QuotedInv /\ (IdempotentPay => NamedInv)

\* A record bound to its transaction stays so on a longer chain.
LEMMA RecordStaysBound ==
    ASSUME NEW rec, NEW s, NEW c, NEW s1, NEW c1,
           Extends(s, c, s1, c1), RecordBound(rec, c)
    PROVE  RecordBound(rec, c1)
  <1>1. rec \in OrderRecord => rec.createdBlock \in Nat
    BY DEF OrderRecord
  <1> QED
    BY <1>1 DEF Extends, RecordBound

\* A true answer stays true on a longer chain.
LEMMA AnswerStaysTrue ==
    ASSUME NEW th \in ThreadRecord, NEW s, NEW c, NEW s1, NEW c1,
           Extends(s, c, s1, c1), ThreadTrue(th, s, c)
    PROVE  ThreadTrue(th, s1, c1)
  <1>1. th.since \in Nat
    BY DEF ThreadRecord
  <1>2. ThreadBound(th, c1)
    BY <1>1 DEF Extends, ThreadTrue, ThreadBound
  <1>3. AnswerTrue(th.answer, s1, c1)
    BY DEF Extends, Grows, ThreadTrue, AnswerTrue
  <1> QED
    BY <1>2, <1>3 DEF ThreadTrue

\* One thread moves on and at most its order is rewritten.
LEMMA CallStaysTrue ==
    ASSUME TruthInv, Carried', NEW t \in Thread, NEW th,
           Extends(sent, chain, sent', chain'),
           threads' = [threads EXCEPT ![t] = th],
           ThreadTrue(th, sent', chain'),
           \A o \in Order : orders'[o] = orders[o] \/ RecordBound(orders'[o], chain'),
           backup' = backup
    PROVE  TruthInv'
  <1>1. ASSUME NEW u \in Thread PROVE ThreadTrue(threads'[u], sent', chain')
    <2>1. threads \in [Thread -> ThreadRecord]
      BY DEF TruthInv, BackedInv, TypeInv, Shapes
    <2>2. CASE u = t
      BY <2>1, <2>2
    <2>3. CASE u # t
      <3>1. threads'[u] = threads[u] /\ threads[u] \in ThreadRecord
        BY <2>1, <2>3
      <3>2. ThreadTrue(threads[u], sent, chain)
        BY DEF TruthInv
      <3> QED
        BY <3>1, <3>2, AnswerStaysTrue
    <2> QED
      BY <2>2, <2>3
  <1>2. ASSUME NEW o \in Order PROVE RecordBound(orders'[o], chain')
    BY RecordStaysBound DEF TruthInv
  <1>3. ASSUME backup' \in Ledger, NEW o \in Order
        PROVE  RecordBound(backup'.orders[o], chain')
    BY <1>3, RecordStaysBound DEF TruthInv
  <1> QED
    BY <1>1, <1>2, <1>3 DEF TruthInv, Carried

\* A step that touches neither chain nor broadcasts.
LEMMA SameChain ==
    ASSUME TypeInv, UNCHANGED <<sent, chain>>
    PROVE  Extends(sent, chain, sent', chain')
  <1>1. Len(chain) \in Nat
    BY DEF TypeInv, Shapes
  <1> QED
    BY <1>1, SameEvidence DEF Extends

\* An idle thread is as true as what it answered.
LEMMA IdleTrue ==
    ASSUME NEW kind, NEW tx, NEW s, NEW c,
           AnswerTrue([kind |-> kind, tx |-> tx], s, c)
    PROVE  ThreadTrue(Idle(kind, tx), s, c)
  BY DEF ThreadTrue, ThreadBound, Idle

\* Answers that name no transaction claim nothing about the chain.
LEMMA SilentAnswer ==
    ASSUME NEW kind, kind \notin Named, NEW s, NEW c
    PROVE  AnswerTrue([kind |-> kind, tx |-> None], s, c)
  BY DEF AnswerTrue, Named

\* A pay call answers without writing to the ledger.
LEMMA AnswersTruly ==
    ASSUME TruthInv, Carried', NEW t \in Thread, NEW kind, NEW tx,
           AnswerTrue([kind |-> kind, tx |-> tx], sent, chain),
           Reply(t, kind, tx), UNCHANGED <<ledgerVars, chainVars>>
    PROVE  TruthInv'
  <1>1. Extends(sent, chain, sent', chain') /\ sent' = sent /\ chain' = chain
    BY SameChain DEF chainVars, TruthInv, BackedInv
  <1>2. ThreadTrue(Idle(kind, tx), sent', chain')
    BY <1>1, IdleTrue
  <1> QED
    BY <1>1, <1>2, CallStaysTrue DEF Reply, ledgerVars

\* A pay call that fails or refuses names no transaction.
LEMMA AnswersSilently ==
    ASSUME TruthInv, Carried', NEW t \in Thread, NEW kind, kind \notin Named,
           Reply(t, kind, None), UNCHANGED <<ledgerVars, chainVars>>
    PROVE  TruthInv'
  BY SilentAnswer, AnswersTruly

\* The guards of pay (server.py:143-186): the cached answer names the
\* settlement, and a retry is bound to the pending transaction.
LEMMA PayTrue ==
    ASSUME TruthInv, Carried', NEW t \in Thread, NEW o \in Order, Pay(t, o)
    PROVE  TruthInv'
  <1>0. TypeInv /\ orders \in [Order -> OrderRecord \cup {None}]
    BY DEF TruthInv, BackedInv, TypeInv, Shapes
  <1>1. CASE PayUnknown(t, o)
    BY <1>1, AnswersSilently DEF PayUnknown, Named
  <1>2. CASE PayCached(t, o)
    <2> DEFINE x == orders[o].submittedTx
    <2>1. IdempotentPay /\ Paid(o) /\ orders[o] \in OrderRecord
      BY <1>0, <1>2 DEF PayCached, Cached, Paid, Known
    <2>2. x = orders[o].identity
      BY <2>1 DEF TruthInv, NamedInv, RecordNamed, Paid
    <2>3. BackedBy(o, x, sent, chain)
      BY <2>1, <2>2, BackedOrders DEF TruthInv
    <2> HIDE DEF x
    <2>4. AnswerTrue([kind |-> "idempotent", tx |-> x], sent, chain)
      BY <2>3 DEF AnswerTrue, BackedBy, Named
    <2>5. Reply(t, "idempotent", x) /\ UNCHANGED <<ledgerVars, chainVars>>
      BY <1>2 DEF PayCached, x
    <2> QED
      BY <2>4, <2>5, AnswersTruly
  <1>3. CASE PayAwaitsPending(t, o)
    <2> DEFINE th == [Starts("wait", o, orders[o].pendingAuth)
                        EXCEPT !.tx = orders[o].pendingTx]
    <2>1. orders[o] \in OrderRecord /\ orders[o].pendingTx # None
      BY <1>0, <1>3 DEF PayAwaitsPending, AwaitsPending, Known
    <2>2. RecordBound(orders[o], chain)
      BY DEF TruthInv
    <2>3. /\ th.pc = "wait" /\ th.auth = orders[o].pendingAuth
          /\ th.tx = orders[o].pendingTx /\ th.since = orders[o].createdBlock
          /\ th.answer = [kind |-> "none", tx |-> None]
      BY DEF Starts, Idle
    <2>4. /\ threads' = [threads EXCEPT ![t] = th]
          /\ UNCHANGED <<orders, backup, sent, chain>>
      BY <1>3 DEF PayAwaitsPending, ledgerVars, chainVars
    <2>5. ThreadTrue(th, sent', chain')
      BY <2>1, <2>2, <2>3, <2>4, SilentAnswer
      DEF RecordBound, ThreadTrue, ThreadBound, Named
    <2>6. Extends(sent, chain, sent', chain')
      BY <1>0, <2>4, SameChain
    <2> QED
      BY <2>4, <2>5, <2>6, CallStaysTrue
  <1>4. CASE PayExpired(t, o)
    BY <1>4, AnswersSilently DEF PayExpired, Named
  <1>5. CASE PayStale(t, o)
    BY <1>5, AnswersSilently DEF PayStale, Named
  <1>6. ASSUME NEW a \in Auth, PaySubmits(t, o, a) PROVE TruthInv'
    <2> DEFINE th == Starts("submit", o, a)
    <2>1. orders[o] \in OrderRecord
      BY <1>0, <1>6 DEF PaySubmits, FallsThrough, Known
    <2>2. RecordBound(orders[o], chain)
      BY DEF TruthInv
    <2>3. /\ th.pc = "submit" /\ th.since = orders[o].createdBlock
          /\ th.answer = [kind |-> "none", tx |-> None]
      BY DEF Starts, Idle
    <2>4. /\ threads' = [threads EXCEPT ![t] = th]
          /\ UNCHANGED <<backup, sent, chain>>
      BY <1>6 DEF PaySubmits, chainVars
    <2>5. ThreadTrue(th, sent', chain')
      BY <2>1, <2>2, <2>3, <2>4, SilentAnswer
      DEF RecordBound, ThreadTrue, ThreadBound, Named
    <2>6. /\ orders'[o].createdBlock = orders[o].createdBlock
          /\ orders'[o].pendingTx = orders[o].pendingTx
          /\ orders'[o].pendingAuth = orders[o].pendingAuth
          /\ \A p \in Order : p # o => orders'[p] = orders[p]
      BY <1>0, <1>6, <2>1 DEF PaySubmits, OrderRecord
    <2>7. RecordBound(orders'[o], chain')
      BY <2>1, <2>2, <2>4, <2>6 DEF RecordBound
    <2>8. Extends(sent, chain, sent', chain')
      BY <1>0, <2>4, SameChain
    <2> QED
      BY <2>4, <2>5, <2>6, <2>7, <2>8, CallStaysTrue
  <1> QED
    BY <1>1, <1>2, <1>3, <1>4, <1>5, <1>6 DEF Pay

\* What a thread writes to its order is bound if the record is.
LEMMA WriteBound ==
    ASSUME TypeInv, NEW t \in Thread, threads[t].pc # "idle", NEW rec,
           Write(t, rec), NEW c, threads[t].live => RecordBound(rec, c)
    PROVE  \A o \in Order : orders'[o] = orders[o] \/ RecordBound(orders'[o], c)
  <1>1. threads[t].order \in Order /\ orders \in [Order -> OrderRecord \cup {None}]
    BY DEF TypeInv, Shapes, ThreadTyped
  <1> QED
    BY <1>1 DEF Write

\* _submit_settlement (server.py:310-352): the signed transaction carries the
\* call's authorization and a nonce that is not on the chain yet.
LEMMA SubmissionTrue ==
    ASSUME TruthInv, Carried', NEW t \in Thread, Submission(t)
    PROVE  TruthInv'
  <1>0. /\ TypeInv /\ ThreadTyped(threads[t], orders)
        /\ ThreadTrue(threads[t], sent, chain)
    BY DEF TruthInv, BackedInv, TypeInv
  <1>1. ASSUME NEW n \in Nonces, NEW gas \in GasPrices, Prepare(t, n, gas)
        PROVE  TruthInv'
    <2> DEFINE x == [nonce |-> n, auth |-> threads[t].auth, gas |-> gas]
               th == [threads[t] EXCEPT !.pc = "send", !.tx = x]
    <2>1. /\ th.pc = "send" /\ th.tx = x /\ th.auth = threads[t].auth
          /\ th.since = threads[t].since /\ th.answer = threads[t].answer
      BY <1>0 DEF ThreadTyped, ThreadRecord
    <2>2. n >= Len(chain) /\ threads[t].pc = "submit" /\ x.nonce = n
          /\ x.auth = threads[t].auth
      BY <1>1 DEF Prepare, PendingNonce
    <2>3. n \in Nat /\ Len(chain) \in Nat /\ threads[t].since \in Nat
      BY <1>0 DEF Nonces, TypeInv, Shapes, Tx, ThreadTyped, ThreadRecord
    <2>4. /\ threads' = [threads EXCEPT ![t] = th]
          /\ UNCHANGED <<orders, backup, sent, chain>>
      BY <1>1 DEF Prepare, ledgerVars, chainVars
    <2> HIDE DEF x, th
    <2>5. ThreadTrue(th, sent', chain')
      BY <1>0, <2>1, <2>2, <2>3, <2>4 DEF ThreadTrue, ThreadBound
    <2>6. Extends(sent, chain, sent', chain')
      BY <1>0, <2>4, SameChain
    <2> QED
      BY <2>4, <2>5, <2>6, CallStaysTrue
  <1>2. CASE PrepareRaises(t)
    BY <1>2, AnswersSilently DEF PrepareRaises, Named
  <1>3. ASSUME Broadcast(t) PROVE Extends(sent, chain, sent', chain')
    <2>1. sent \subseteq sent' /\ chain' = chain /\ Len(chain) \in Nat
      BY <1>0, <1>3 DEF Broadcast, TypeInv, Shapes
    <2> QED
      BY <2>1 DEF Extends, Grows
  <1>4. CASE Send(t)
    <2> DEFINE th == [threads[t] EXCEPT !.pc = "wait"]
               rec == [OrderOf(t) EXCEPT !.submittedTx = threads[t].tx]
    <2>1. /\ th.pc = "wait" /\ th.tx = threads[t].tx
          /\ th.auth = threads[t].auth /\ th.since = threads[t].since
          /\ th.answer = threads[t].answer
      BY <1>0 DEF ThreadTyped, ThreadRecord
    <2>2. Extends(sent, chain, sent', chain') /\ chain' = chain
      BY <1>3, <1>4 DEF Send, Broadcast
    <2>3. ThreadTrue(threads[t], sent', chain')
      BY <1>0, <2>2, AnswerStaysTrue DEF ThreadTyped
    <2>4. ThreadTrue(th, sent', chain')
      BY <1>4, <2>1, <2>3 DEF Send, ThreadTrue, ThreadBound
    <2>5. threads[t].live => RecordBound(rec, chain')
      <3> SUFFICES ASSUME threads[t].live PROVE RecordBound(rec, chain')
        OBVIOUS
      <3>1. OrderOf(t) \in OrderRecord /\ threads[t].order \in Order
        BY <1>0, <1>4 DEF Send, ThreadTyped, OrderOf
      <3>2. /\ rec.createdBlock = OrderOf(t).createdBlock
            /\ rec.pendingTx = OrderOf(t).pendingTx
            /\ rec.pendingAuth = OrderOf(t).pendingAuth
        BY <3>1 DEF OrderRecord
      <3>3. RecordBound(OrderOf(t), chain)
        BY <3>1 DEF TruthInv, OrderOf
      <3> QED
        BY <2>2, <3>1, <3>2, <3>3 DEF RecordBound
    <2>6. \A o \in Order : orders'[o] = orders[o] \/ RecordBound(orders'[o], chain')
      BY <1>0, <1>4, <2>5, WriteBound DEF Send
    <2>7. threads' = [threads EXCEPT ![t] = th] /\ backup' = backup
      BY <1>4 DEF Send, Broadcast
    <2> QED
      BY <2>2, <2>4, <2>6, <2>7, CallStaysTrue
  <1>5. CASE SendLost(t)
    <2>1. ThreadTrue(Idle("server_error", None), sent', chain')
      BY SilentAnswer, IdleTrue DEF Named
    <2> QED
      BY <1>3, <1>5, <2>1, CallStaysTrue DEF SendLost, Reply, Broadcast
  <1>6. CASE SendRejected(t)
    BY <1>6, AnswersSilently DEF SendRejected, Named
  <1> QED
    BY <1>1, <1>2, <1>4, <1>5, <1>6 DEF Submission

\* Confirmation refuses a mined transaction only if it reverted or its event
\* has drifted (confirmer.py:87-162).
LEMMA RefusedForCause ==
    ASSUME TruthInv, NEW t \in Thread, threads[t].pc = "confirm",
           ~(WorthFetching(t) /\ Settled(t))
    PROVE  AnswerTrue([kind |-> "unsettled", tx |-> threads[t].tx], sent, chain)
  <1> DEFINE x == threads[t].tx
             e == chain[x.nonce + 1]
  <1>0. /\ ThreadTyped(threads[t], orders) /\ ThreadBound(threads[t], chain)
        /\ ThreadBacked(threads[t], sent, chain)
        /\ chain \in Seq(Entry)
    BY DEF TruthInv, BackedInv, TypeInv, Shapes, ThreadTrue
  <1>1. /\ x \in Tx /\ threads[t].receipt = e /\ MinedIn(x, chain)
        /\ x.auth = threads[t].auth /\ threads[t].since <= x.nonce + 1
        /\ threads[t].since \in Nat
    BY <1>0 DEF ThreadTyped, ThreadBound, ThreadBacked, ThreadRecord
  <1>2. x.nonce \in Nat /\ x.nonce + 1 \in 1..Len(chain) /\ e.tx = x /\ e \in Entry
    BY <1>0, <1>1 DEF MinedIn, Tx
  <1>3. ASSUME e.ok, e.mode # 1 PROVE FALSE
    <2>1. e.mode = 0
      BY <1>2, <1>3 DEF Entry
    <2>2. x \in CreditLogs
      BY <1>0, <1>2, <1>3, <2>1 DEF CreditLogs
    <2>3. WorthFetching(t)
      BY <1>1, <1>2, <1>3 DEF WorthFetching
    <2>4. Settled(t)
      BY <1>1, <1>2, <2>1, <2>2 DEF Settled
    <2> QED
      BY <2>3, <2>4
  <1> HIDE DEF x, e
  <1>4. AnswerTrue([kind |-> "unsettled", tx |-> x], sent, chain)
    BY <1>1, <1>3 DEF AnswerTrue, Named, e
  <1> QED
    BY <1>4 DEF x

\* A call that ends by writing a bound record to its order.
LEMMA EndTrue ==
    ASSUME TruthInv, Carried', NEW t \in Thread, threads[t].pc # "idle",
           NEW kind, NEW tx, NEW rec, Reply(t, kind, tx), Write(t, rec),
           AnswerTrue([kind |-> kind, tx |-> tx], sent, chain),
           threads[t].live => RecordBound(rec, chain),
           UNCHANGED <<recovered, backup, job, issued, chainVars, envVars>>
    PROVE  TruthInv'
  <1>0. TypeInv
    BY DEF TruthInv, BackedInv
  <1>1. Extends(sent, chain, sent', chain') /\ sent' = sent /\ chain' = chain
    BY <1>0, SameChain DEF chainVars
  <1>2. ThreadTrue(Idle(kind, tx), sent', chain')
    BY <1>1, IdleTrue
  <1>3. \A o \in Order : orders'[o] = orders[o] \/ RecordBound(orders'[o], chain')
    BY <1>0, <1>1, WriteBound
  <1> QED
    BY <1>1, <1>2, <1>3, CallStaysTrue DEF Reply

\* _confirm (server.py:188-234) answers what it has seen of its transaction.
LEMMA ConfirmationTrue ==
    ASSUME TRUE \notin ConfirmWithoutWaiting, TruthInv, Carried', NEW t \in Thread,
           Confirmation(t)
    PROVE  TruthInv'
  <1>0. /\ TypeInv /\ ThreadTyped(threads[t], orders)
        /\ ThreadTrue(threads[t], sent, chain)
        /\ ThreadBacked(threads[t], sent, chain)
    BY DEF TruthInv, BackedInv, TypeInv
  <1>1. ASSUME threads[t].pc \in {"wait", "confirm"}, threads[t].live
        PROVE  /\ threads[t].order \in Order /\ OrderOf(t) \in OrderRecord
               /\ threads[t].tx \in Tx /\ threads[t].auth \in Auth
               /\ RecordBound(OrderOf(t), chain)
    BY <1>0, <1>1 DEF ThreadTyped, OrderOf, TruthInv
  <1>2. CASE GotReceipt(t)
    <2> DEFINE th == [threads[t] EXCEPT !.pc = "confirm",
                        !.receipt = chain[threads[t].tx.nonce + 1]]
    <2>1. /\ th.pc = "confirm" /\ th.tx = threads[t].tx
          /\ th.auth = threads[t].auth /\ th.since = threads[t].since
          /\ th.answer = threads[t].answer
      BY <1>0 DEF ThreadTyped, ThreadRecord
    <2>2. /\ threads[t].pc = "wait" /\ threads' = [threads EXCEPT ![t] = th]
          /\ Write(t, NotPending(OrderOf(t)))
          /\ UNCHANGED <<backup, sent, chain>>
      BY <1>2 DEF GotReceipt, chainVars
    <2>3. ThreadTrue(th, sent', chain')
      BY <1>0, <2>1, <2>2 DEF ThreadTrue, ThreadBound
    <2>4. threads[t].live => RecordBound(NotPending(OrderOf(t)), chain')
      <3> SUFFICES ASSUME threads[t].live
                   PROVE  RecordBound(NotPending(OrderOf(t)), chain')
        OBVIOUS
      <3>1. /\ NotPending(OrderOf(t)).createdBlock = OrderOf(t).createdBlock
            /\ NotPending(OrderOf(t)).pendingTx = None
        BY <1>1, <2>2 DEF NotPending, OrderRecord
      <3> QED
        BY <1>1, <2>2, <3>1 DEF RecordBound
    <2>5. \A o \in Order : orders'[o] = orders[o] \/ RecordBound(orders'[o], chain')
      BY <1>0, <2>2, <2>4, WriteBound
    <2>6. Extends(sent, chain, sent', chain')
      BY <1>0, <2>2, SameChain
    <2> QED
      BY <2>2, <2>3, <2>5, <2>6, CallStaysTrue
  <1>3. CASE NoReceipt(t)
    <2> DEFINE x == threads[t].tx
               rec == [OrderOf(t) EXCEPT !.pendingTx = x,
                                         !.pendingAuth = threads[t].auth]
    <2>1. threads[t].pc = "wait" /\ x \in Tx
      BY <1>0, <1>3 DEF NoReceipt, ThreadTyped
    <2>2. threads[t].live => RecordBound(rec, chain)
      <3> SUFFICES ASSUME threads[t].live PROVE RecordBound(rec, chain)
        OBVIOUS
      <3>1. /\ rec.createdBlock = OrderOf(t).createdBlock
            /\ rec.pendingTx = x /\ rec.pendingAuth = threads[t].auth
        BY <1>1, <2>1 DEF OrderRecord
      <3>2. x.auth = threads[t].auth
        BY <1>0, <2>1 DEF ThreadTrue, ThreadBound
      <3>3. OrderOf(t).createdBlock <= x.nonce + 1
        <4>1. ThreadQuoted(threads[t], orders) /\ ThreadBound(threads[t], chain)
          BY <1>0 DEF TruthInv, QuotedInv, ThreadTrue
        <4> QED
          BY <2>1, <4>1 DEF ThreadQuoted, ThreadBound, OrderOf
      <3> QED
        BY <1>1, <2>1, <3>1, <3>2, <3>3 DEF RecordBound
    <2>3. SentFor(threads[t].order, x, sent)
      BY <1>0, <2>1 DEF ThreadBacked
    <2>4. \E b \in sent : b.tx = x
      <3>1. [order |-> threads[t].order, tx |-> x].tx = x
        OBVIOUS
      <3> QED
        BY <2>3, <3>1 DEF SentFor
    <2>5. AnswerTrue([kind |-> "settlement_pending", tx |-> x], sent, chain)
      BY <2>4 DEF AnswerTrue, Named
    <2> QED
      BY <1>3, <2>2, <2>5, EndTrue DEF NoReceipt
  <1>4. ~SkipReceipt(t)
    BY DEF SkipReceipt
  <1>5. CASE ConfirmSettled(t)
    <2> DEFINE x == threads[t].tx
               rec == [OrderOf(t) EXCEPT !.paid = TRUE, !.identity = x]
    <2>1. threads[t].pc = "confirm" /\ WorthFetching(t)
      BY <1>5 DEF ConfirmSettled
    <2>2. x \in Tx /\ MinedIn(x, chain) /\ chain[x.nonce + 1].ok
      BY <1>0, <2>1 DEF ThreadTyped, ThreadBacked, WorthFetching
    <2>3. AnswerTrue([kind |-> "settled", tx |-> x], sent, chain)
      BY <2>2 DEF AnswerTrue, Named
    <2>4. threads[t].live => RecordBound(rec, chain)
      <3> SUFFICES ASSUME threads[t].live PROVE RecordBound(rec, chain)
        OBVIOUS
      <3>1. /\ rec.createdBlock = OrderOf(t).createdBlock
            /\ rec.pendingTx = OrderOf(t).pendingTx
            /\ rec.pendingAuth = OrderOf(t).pendingAuth
        BY <1>1, <2>1 DEF OrderRecord
      <3> QED
        BY <1>1, <2>1, <3>1 DEF RecordBound
    <2> QED
      BY <1>5, <2>3, <2>4, EndTrue DEF ConfirmSettled
  <1>6. CASE ConfirmUnsettled(t)
    BY <1>6, RefusedForCause, AnswersTruly DEF ConfirmUnsettled
  <1>7. CASE ConfirmRaises(t)
    BY <1>7, AnswersSilently DEF ConfirmRaises, Named
  <1> QED
    BY <1>2, <1>3, <1>4, <1>5, <1>6, <1>7 DEF Confirmation

\* Quotes, backups, restores and reconciliation answer no pay call.
LEMMA LedgerTrue ==
    ASSUME TruthInv, Carried',
           (\E o \in Order : Quote(o)) \/ Backup \/ Restore
             \/ ReconcileFetch \/ ReconcileBook
    PROVE  TruthInv'
  <1>0. /\ sent' = sent /\ chain' = chain
        /\ orders \in [Order -> OrderRecord \cup {None}] /\ Len(chain) \in Nat
    BY DEF Quote, Backup, Restore, ReconcileFetch, ReconcileBook, chainVars,
           TruthInv, BackedInv, TypeInv, Shapes
  <1>1. ASSUME NEW o \in Order, Quote(o) PROVE TruthInv'
    <2>1. /\ orders'[o].createdBlock = Len(chain) /\ orders'[o].pendingTx = None
          /\ \A p \in Order : p # o => orders'[p] = orders[p]
      BY <1>0, <1>1 DEF Quote
    <2>2. \A p \in Order : RecordBound(orders'[p], chain')
      BY <1>0, <2>1 DEF TruthInv, RecordBound
    <2> QED
      BY <1>0, <1>1, <2>2 DEF Quote, TruthInv, Carried
  <1>2. CASE Backup
    BY <1>0, <1>2 DEF Backup, TruthInv, Carried
  <1>3. CASE Restore
    <2>1. ASSUME NEW u \in Thread PROVE ThreadTrue(threads'[u], sent', chain')
      <3>1. threads'[u] = [threads[u] EXCEPT !.live = @ /\ threads[u].pc = "idle"]
            /\ threads[u] \in ThreadRecord
        BY <1>3 DEF Restore, TruthInv, BackedInv, TypeInv, Shapes
      <3>2. /\ threads'[u].pc = threads[u].pc /\ threads'[u].tx = threads[u].tx
            /\ threads'[u].auth = threads[u].auth
            /\ threads'[u].since = threads[u].since
            /\ threads'[u].answer = threads[u].answer
        BY <3>1 DEF ThreadRecord
      <3>3. ThreadTrue(threads[u], sent, chain)
        BY DEF TruthInv
      <3> QED
        BY <1>0, <3>2, <3>3 DEF ThreadTrue, ThreadBound
    <2>2. backup \in Ledger
      BY <1>3 DEF Restore, TruthInv, BackedInv, TypeInv, Shapes
    <2> QED
      BY <1>0, <1>3, <2>1, <2>2 DEF Restore, TruthInv, Carried
  <1>4. CASE ReconcileFetch
    BY <1>0, <1>4 DEF ReconcileFetch, TruthInv, Carried
  <1>5. CASE ReconcileBook
    BY <1>0, <1>5 DEF ReconcileBook, TruthInv, Carried
  <1> QED
    BY <1>1, <1>2, <1>3, <1>4, <1>5

\* Without a reorganisation a step of the chain only extends it.
LEMMA ChainExtends ==
    ASSUME MaxReorgs = 0, TypeInv,
           Mine \/ (\E n \in 0..Len(chain), requeue \in BOOLEAN : Reorg(n, requeue))
             \/ (\E m \in EventModes : SetEventMode(m))
             \/ (\E p \in FairPrices : MoveFairPrice(p)) \/ Tick
    PROVE  Extends(sent, chain, sent', chain')
  <1>0. chain \in Seq(Entry) /\ sent' = sent
    BY DEF Mine, Reorg, SetEventMode, MoveFairPrice, Tick, chainVars, TypeInv,
           Shapes
  <1>1. CASE Mine
    <2>1. PICK e : chain' = Append(chain, e)
      BY <1>1 DEF Mine
    <2>2. Len(chain') = Len(chain) + 1
          /\ \A i \in 1..Len(chain) : chain'[i] = chain[i]
      BY <1>0, <2>1
    <2>3. Grows(sent, chain, sent', chain')
      BY <1>0, <2>2 DEF Grows, MinedIn, Tx
    <2> QED
      BY <1>0, <2>2, <2>3 DEF Extends
  <1>2. ASSUME NEW n \in 0..Len(chain), NEW requeue \in BOOLEAN,
               Reorg(n, requeue)
        PROVE  FALSE
    BY <1>2 DEF Reorg, TypeInv, Shapes
  <1>3. CASE chain' = chain
    BY <1>0, <1>3, SameChain
  <1> QED
    BY <1>1, <1>2, <1>3 DEF SetEventMode, MoveFairPrice, Tick, chainVars

\* TruthInv is inductive while the chain is not reorganised, for a server that
\* waits for receipts and, if it is idempotent, serves one call at a time.
LEMMA NextTrue ==
    ASSUME MaxReorgs = 0, TRUE \notin ConfirmWithoutWaiting, IdempotentPay => OneCaller
    PROVE  TruthInv /\ [Next]_vars => TruthInv'
  <1> SUFFICES ASSUME TruthInv, [Next]_vars PROVE TruthInv'
    OBVIOUS
  <1>1. Carried'
    <2>1. BackedInv' /\ QuotedInv'
      BY NextBacked, NextQuoted DEF TruthInv
    <2>2. IdempotentPay => NamedInv'
      BY NextNamed DEF TruthInv
    <2> QED
      BY <2>1, <2>2 DEF Carried
  <1>2. ASSUME Extends(sent, chain, sent', chain'),
               UNCHANGED <<orders, backup, threads>>
        PROVE  TruthInv'
    <2>1. \A u \in Thread : ThreadTrue(threads[u], sent', chain')
      BY <1>2, AnswerStaysTrue DEF TruthInv, BackedInv, TypeInv, Shapes
    <2>2. \A o \in Order : RecordBound(orders[o], chain')
      BY <1>2, RecordStaysBound DEF TruthInv
    <2>3. backup \in Ledger =>
            \A o \in Order : RecordBound(backup.orders[o], chain')
      BY <1>2, RecordStaysBound DEF TruthInv
    <2> QED
      BY <1>1, <1>2, <2>1, <2>2, <2>3 DEF TruthInv, Carried
  <1>3. TypeInv
    BY DEF TruthInv, BackedInv
  <1>4. CASE UNCHANGED vars
    BY <1>2, <1>3, <1>4, SameChain DEF vars, ledgerVars, chainVars
  <1>5. CASE Mine \/ (\E n \in 0..Len(chain), requeue \in BOOLEAN : Reorg(n, requeue))
               \/ (\E m \in EventModes : SetEventMode(m))
               \/ (\E p \in FairPrices : MoveFairPrice(p)) \/ Tick
    <2>1. UNCHANGED <<orders, backup, threads>>
      BY <1>5 DEF Mine, Reorg, SetEventMode, MoveFairPrice, Tick, ledgerVars
    <2> QED
      BY <1>2, <1>3, <1>5, <2>1, ChainExtends
  <1>6. CASE Next
    BY <1>1, <1>5, <1>6, PayTrue, SubmissionTrue, ConfirmationTrue, LedgerTrue
    DEF Next
  <1> QED
    BY <1>4, <1>6

\* A fresh server has answered nothing.
LEMMA InitTrue == Init => TruthInv
  <1> SUFFICES ASSUME Init PROVE TruthInv
    OBVIOUS
  <1>1. BackedInv /\ QuotedInv /\ NamedInv
    BY InitBacked, InitQuoted, InitNamed
  <1>2. ThreadTrue(Idle("none", None), sent, chain)
    BY SilentAnswer, IdleTrue DEF Named
  <1>3. \A o \in Order : RecordBound(orders[o], chain)
    BY NoneAssumption DEF Init, RecordBound
  <1>4. backup \notin Ledger
    BY NoneAssumption DEF Init
  <1> QED
    BY <1>1, <1>2, <1>3, <1>4 DEF Init, TruthInv

\* What a client concludes from an answer to pay is true of the chain, with
\* any number of overlapping calls on a server that is not idempotent and for
\* one caller on one that is, under every fault and across restores
\* (server.py:143-234, confirmer.py:87-162, sut.py:74-89).
THEOREM OutcomesAreTrue ==
    ASSUME MaxReorgs = 0, TRUE \notin ConfirmWithoutWaiting, IdempotentPay => OneCaller
    PROVE  Spec => []OutcomeIsTrue
  <1>1. TruthInv => OutcomeIsTrue
    <2> SUFFICES ASSUME TruthInv, NEW t \in Thread,
                        threads[t].answer.kind # "none",
                        NEW result, result # None,
                        result = ParsePay(PayResponse(threads[t].answer)),
                        NEW tx, tx = result.submitted_tx
                 PROVE  /\ Outcome(result) = "settled" => Executed(tx)
                        /\ Outcome(result) = "pending" => \E s \in sent : s.tx = tx
                        /\ Outcome(result) = "unsettled" /\ tx # None =>
                             Mined(tx) /\ (~Executed(tx)
                                            \/ chain[tx.nonce + 1].mode = 1)
      BY DEF OutcomeIsTrue
    <2> DEFINE answer == threads[t].answer
    <2>1. AnswerTrue(answer, sent, chain) /\ answer.kind \in AnswerKinds
      <3>1. threads[t] \in ThreadRecord
        BY DEF TruthInv, BackedInv, TypeInv, Shapes
      <3> QED
        BY <3>1 DEF TruthInv, ThreadTrue, ThreadRecord
    <2> HIDE DEF answer
    <2> DEFINE response == PayResponse(answer)
    <2>2. /\ response.submitted_tx = answer.tx
          /\ response.settled = (answer.kind \in {"settled", "idempotent"})
          /\ response.status = IF answer.kind = "server_error" THEN 500 ELSE 200
          /\ response.reason = IF answer.kind \in {"unknown_order",
                                 "quote_expired", "stale_quote",
                                 "settlement_pending"}
                               THEN answer.kind ELSE None
      BY DEF PayResponse
    <2>3. result = ParsePay(response)
      BY DEF answer
    <2> HIDE DEF response
    <2>4. /\ result.settled = response.settled
          /\ result.reason = response.reason
          /\ result.submitted_tx = response.submitted_tx
      BY <2>3 DEF ParsePay
    <2>5. None # "settlement_pending"
      BY NoneAssumption DEF AnswerKinds
    <2>6. CASE answer.kind \in {"settled", "idempotent"}
      <3>1. result.settled = TRUE
        BY <2>2, <2>4, <2>6, Zenon
      <3>2. Outcome(result) = "settled"
        BY <3>1, Zenon DEF Outcome
      <3>3. tx = answer.tx
        BY <2>2, <2>4
      <3> QED
        BY <2>1, <2>6, <3>2, <3>3 DEF AnswerTrue, MinedIn, Executed, Mined
    <2>7. CASE answer.kind = "settlement_pending"
      <3>1. ~result.settled
        BY <2>2, <2>4, <2>7, Zenon
      <3>2. tx = answer.tx /\ result.reason = "settlement_pending"
        BY <2>2, <2>4, <2>7
      <3>3. Outcome(result) = IF tx # None THEN "pending" ELSE "unsettled"
        BY <3>1, <3>2 DEF Outcome
      <3> QED
        BY <2>1, <2>7, <3>2, <3>3 DEF AnswerTrue
    <2>8. CASE answer.kind \notin {"settled", "idempotent", "settlement_pending"}
      <3>1. result.reason # "settlement_pending" /\ ~result.settled
        BY <2>2, <2>4, <2>5, <2>8
      <3>2. Outcome(result) = "unsettled" /\ tx = answer.tx
        BY <2>2, <2>4, <3>1 DEF Outcome
      <3>3. CASE answer.kind = "unsettled"
        BY <2>1, <3>2, <3>3 DEF AnswerTrue, MinedIn, Executed, Mined
      <3>4. CASE answer.kind # "unsettled"
        BY <2>1, <2>8, <3>2, <3>4 DEF AnswerTrue, Named
      <3> QED
        BY <3>3, <3>4
    <2> QED
      BY <2>6, <2>7, <2>8
  <1> QED
    BY <1>1, InitTrue, NextTrue, PTL DEF Spec

-----------------------------------------------------------------------------
(***************************************************************************)
(* An order is settled at most once and no settlement is stranded, when    *)
(* nothing the design does not handle happens.  Undisturbed lists what     *)
(* that is; each of its parts is needed: overlapping calls, a lost answer  *)
(* to a broadcast, logs that cannot be fetched, a drifted event, a restore *)
(* and a reorganisation each break one of the two.  AccountInv: every      *)
(* broadcast of an order has reverted or is held, by a booked record, by a *)
(* pending field or by the call that waits on it, and at most one has not  *)
(* reverted.                                                               *)
(***************************************************************************)

Undisturbed ==
    /\ IdempotentPay /\ OneCaller /\ TRUE \notin ConfirmWithoutWaiting
    /\ MaxReorgs = 0 /\ MaxRestores = 0
    /\ EventModes = {0}
    /\ "sendLost" \notin Faults /\ "logs" \notin Faults

Reverted(tx, c) == MinedIn(tx, c) /\ ~c[tx.nonce + 1].ok

Held(o, tx, ords, ths) ==
    \/ ords[o] # None /\ ords[o].paid /\ ords[o].identity = tx
    \/ ords[o] # None /\ ords[o].pendingTx = tx
    \/ \E t \in Thread : /\ ths[t].pc \in {"wait", "confirm"}
                         /\ ths[t].order = o /\ ths[t].tx = tx

\* Nothing was restored and no event has drifted.
Plain ==
    /\ restores = 0 /\ eventMode = 0
    /\ \A i \in 1..Len(chain) : chain[i].mode = 0
    /\ \A t \in Thread : threads[t].live

AccountInv ==
    /\ TruthInv /\ Plain
    /\ \A s \in sent : Reverted(s.tx, chain)
                         \/ Held(s.order, s.tx, orders, threads)
    /\ \A s, r \in sent : s.order = r.order /\ ~Reverted(s.tx, chain)
                            /\ ~Reverted(r.tx, chain) => s.tx = r.tx

\* Records and waiting calls go on holding what they held.
StillHolds ==
    /\ \A o \in Order : orders[o] # None =>
         /\ orders'[o] # None
         /\ orders[o].paid => /\ orders'[o].paid
                              /\ orders'[o].identity = orders[o].identity
         /\ orders'[o].pendingTx = orders[o].pendingTx
    /\ \A t \in Thread : threads[t].pc \in {"wait", "confirm"} =>
         /\ threads'[t].pc \in {"wait", "confirm"}
         /\ threads'[t].order = threads[t].order
         /\ threads'[t].tx = threads[t].tx

\* Nothing was broadcast, and what was held is held or has reverted.
LEMMA AccountKept ==
    ASSUME AccountInv, TruthInv', Plain', sent' = sent,
           Grows(sent, chain, sent', chain'),
           \A s \in sent : Held(s.order, s.tx, orders, threads) =>
             Reverted(s.tx, chain') \/ Held(s.order, s.tx, orders', threads')
    PROVE  AccountInv'
  <1>1. \A s \in sent : s.tx \in Tx
    BY DEF AccountInv, TruthInv, BackedInv, TypeInv, Shapes
  <1>2. \A s \in sent : Reverted(s.tx, chain) => Reverted(s.tx, chain')
    BY <1>1 DEF Grows, Reverted
  <1> QED
    BY <1>2 DEF AccountInv

\* A holder that goes on holding keeps the account.
LEMMA HoldersKept ==
    ASSUME AccountInv, StillHolds, NEW s \in sent,
           Held(s.order, s.tx, orders, threads)
    PROVE  Held(s.order, s.tx, orders', threads')
  <1>1. s.order \in Order
    BY DEF AccountInv, TruthInv, BackedInv, TypeInv, Shapes
  <1>2. CASE \E t \in Thread : /\ threads[t].pc \in {"wait", "confirm"}
                               /\ threads[t].order = s.order
                               /\ threads[t].tx = s.tx
    BY <1>2 DEF StillHolds, Held
  <1>3. CASE orders[s.order] # None /\ orders[s.order].paid
             /\ orders[s.order].identity = s.tx
    BY <1>1, <1>3 DEF StillHolds, Held
  <1>4. CASE orders[s.order] # None /\ orders[s.order].pendingTx = s.tx
    BY <1>1, <1>4 DEF StillHolds, Held
  <1> QED
    BY <1>2, <1>3, <1>4 DEF Held

\* A thread that waits on nothing moves on: every holder goes on holding.
LEMMA OthersHold ==
    ASSUME TypeInv, NEW t \in Thread, threads[t].pc \notin {"wait", "confirm"},
           NEW th, threads' = [threads EXCEPT ![t] = th],
           \A o \in Order : orders[o] # None =>
             /\ orders'[o] # None
             /\ orders[o].paid => /\ orders'[o].paid
                                  /\ orders'[o].identity = orders[o].identity
             /\ orders'[o].pendingTx = orders[o].pendingTx
    PROVE  StillHolds
  <1>1. threads \in [Thread -> ThreadRecord]
    BY DEF TypeInv, Shapes
  <1> QED
    BY <1>1 DEF StillHolds

\* Nothing is restored and no event drifts in a step of pay.
LEMMA PlainCalls ==
    ASSUME Plain, TypeInv, NEW t \in Thread, NEW th, th.live,
           threads' = [threads EXCEPT ![t] = th],
           UNCHANGED <<chain, eventMode, restores>>
    PROVE  Plain'
  BY DEF Plain, TypeInv, Shapes

\* An idle thread is ready for the next call.
LEMMA IdleIsLive ==
    ASSUME NEW kind, NEW tx
    PROVE  Idle(kind, tx).live
  BY DEF Idle

\* A pay call that waits on nothing answers.
LEMMA AnswerAccounted ==
    ASSUME AccountInv, TruthInv', NEW t \in Thread, NEW kind, NEW tx,
           threads[t].pc \notin {"wait", "confirm"}, Reply(t, kind, tx),
           UNCHANGED <<ledgerVars, chainVars, envVars>>
    PROVE  AccountInv'
  <1>0. /\ TypeInv /\ threads' = [threads EXCEPT ![t] = Idle(kind, tx)]
        /\ UNCHANGED <<orders, sent, chain, eventMode, restores>>
    BY DEF AccountInv, TruthInv, BackedInv, Reply, ledgerVars, chainVars, envVars
  <1>1. StillHolds
    BY <1>0, OthersHold
  <1>2. Plain'
    BY <1>0, IdleIsLive, PlainCalls DEF AccountInv
  <1> QED
    BY <1>0, <1>1, <1>2, SameEvidence, HoldersKept, AccountKept

\* The guards of pay (server.py:143-186) keep the account.
LEMMA PayAccounted ==
    ASSUME AccountInv, TruthInv', NEW t \in Thread, NEW o \in Order, Pay(t, o)
    PROVE  AccountInv'
  <1>0. /\ TypeInv /\ threads[t].pc \notin {"wait", "confirm"}
        /\ orders \in [Order -> OrderRecord \cup {None}]
    BY DEF AccountInv, TruthInv, BackedInv, TypeInv, Shapes, Pay, PayUnknown,
           PayCached, PayAwaitsPending, PayExpired, PayStale, PaySubmits,
           Available
  <1>1. CASE PayAwaitsPending(t, o)
    <2> DEFINE th == [Starts("wait", o, orders[o].pendingAuth)
                        EXCEPT !.tx = orders[o].pendingTx]
    <2>1. th.live
      BY DEF Starts, Idle
    <2>2. /\ threads' = [threads EXCEPT ![t] = th]
          /\ UNCHANGED <<orders, sent, chain, eventMode, restores>>
      BY <1>1 DEF PayAwaitsPending, ledgerVars, chainVars, envVars
    <2>3. StillHolds
      BY <1>0, <2>2, OthersHold
    <2>4. Plain'
      BY <1>0, <2>1, <2>2, PlainCalls DEF AccountInv
    <2> QED
      BY <2>2, <2>3, <2>4, SameEvidence, HoldersKept, AccountKept
  <1>2. ASSUME NEW a \in Auth, PaySubmits(t, o, a) PROVE AccountInv'
    <2> DEFINE th == Starts("submit", o, a)
    <2>1. th.live
      BY DEF Starts, Idle
    <2>2. /\ threads' = [threads EXCEPT ![t] = th]
          /\ UNCHANGED <<sent, chain, eventMode, restores>>
      BY <1>2 DEF PaySubmits, chainVars, envVars
    <2>3. orders[o] \in OrderRecord
      BY <1>0, <1>2 DEF PaySubmits, FallsThrough, Known
    <2>4. /\ orders'[o] \in OrderRecord /\ orders'[o].paid = orders[o].paid
          /\ orders'[o].identity = orders[o].identity
          /\ orders'[o].pendingTx = orders[o].pendingTx
          /\ \A p \in Order : p # o => orders'[p] = orders[p]
      BY <1>0, <1>2, <2>3 DEF PaySubmits, OrderRecord
    <2>5. StillHolds
      BY <1>0, <2>2, <2>4, NoneAssumption, OthersHold
    <2>6. Plain'
      BY <1>0, <2>1, <2>2, PlainCalls DEF AccountInv
    <2> QED
      BY <2>2, <2>5, <2>6, SameEvidence, HoldersKept, AccountKept
  <1> QED
    BY <1>0, <1>1, <1>2, AnswerAccounted
    DEF Pay, PayUnknown, PayCached, PayExpired, PayStale

\* What the one caller writes to its order, once the order is looked up.
LEMMA WriteByCaller ==
    ASSUME AccountInv, NEW t \in Thread, threads[t].pc # "idle", NEW rec,
           Write(t, rec)
    PROVE  /\ threads[t].order \in Order /\ OrderOf(t) \in OrderRecord
           /\ orders'[threads[t].order] = rec
           /\ \A o \in Order : o # threads[t].order => orders'[o] = orders[o]
  <1>1. /\ threads[t].order \in Order /\ OrderOf(t) \in OrderRecord
        /\ threads[t].live /\ orders \in [Order -> OrderRecord \cup {None}]
    BY DEF AccountInv, Plain, TruthInv, BackedInv, TypeInv, Shapes,
           ThreadTyped, OrderOf
  <1> QED
    BY <1>1 DEF Write

\* Before its broadcast the one caller finds every earlier one reverted.
LEMMA NothingOutstanding ==
    ASSUME Undisturbed, AccountInv, NEW t \in Thread, threads[t].pc = "send",
           NEW s \in sent, s.order = threads[t].order
    PROVE  Reverted(s.tx, chain)
  <1>1. /\ ThreadNamed(threads[t], orders) /\ threads[t].live
    BY DEF Undisturbed, AccountInv, Plain, TruthInv, NamedInv
  <1>2. /\ ~orders[s.order].paid /\ orders[s.order].pendingTx = None
    BY <1>1 DEF ThreadNamed
  <1>3. s.tx \in Tx
    BY DEF AccountInv, TruthInv, BackedInv, TypeInv, Shapes
  <1>4. \A u \in Thread : threads[u].pc \notin {"wait", "confirm"}
    BY DEF Undisturbed, OneCaller
  <1>5. ~Held(s.order, s.tx, orders, threads)
    BY <1>2, <1>3, <1>4, NoneAssumption DEF Held
  <1> QED
    BY <1>5 DEF AccountInv

\* _submit_settlement (server.py:310-352) keeps the account: the call that
\* broadcasts holds what it sent.
LEMMA SubmissionAccounted ==
    ASSUME Undisturbed, AccountInv, TruthInv', NEW t \in Thread, Submission(t)
    PROVE  AccountInv'
  <1>0. /\ TypeInv /\ ThreadTyped(threads[t], orders) /\ threads[t].live
        /\ sent \subseteq [order : Order, tx : Tx]
        /\ threads \in [Thread -> ThreadRecord]
    BY DEF AccountInv, Plain, TruthInv, BackedInv, TypeInv, Shapes
  <1>1. ASSUME NEW n \in Nonces, NEW gas \in GasPrices, Prepare(t, n, gas)
        PROVE  AccountInv'
    <2> DEFINE th == [threads[t] EXCEPT !.pc = "send",
                        !.tx = [nonce |-> n, auth |-> threads[t].auth,
                                gas |-> gas]]
    <2>1. th.live
      BY <1>0 DEF ThreadTyped, ThreadRecord
    <2>2. /\ threads[t].pc = "submit" /\ threads' = [threads EXCEPT ![t] = th]
          /\ UNCHANGED <<orders, sent, chain, eventMode, restores>>
      BY <1>1 DEF Prepare, ledgerVars, chainVars, envVars
    <2> HIDE DEF th
    <2>3. StillHolds
      BY <1>0, <2>2, OthersHold
    <2>4. Plain'
      BY <1>0, <2>1, <2>2, PlainCalls DEF AccountInv
    <2> QED
      BY <2>2, <2>3, <2>4, SameEvidence, HoldersKept, AccountKept
  <1>2. CASE PrepareRaises(t)
    BY <1>2, AnswerAccounted DEF PrepareRaises
  <1>3. CASE SendRejected(t)
    BY <1>3, AnswerAccounted DEF SendRejected
  <1>4. ~SendLost(t)
    BY DEF SendLost, Undisturbed
  <1>5. CASE Send(t)
    <2> DEFINE o == threads[t].order
               x == threads[t].tx
               th == [threads[t] EXCEPT !.pc = "wait"]
               rec == [OrderOf(t) EXCEPT !.submittedTx = x]
               b == [order |-> o, tx |-> x]
    <2>1. th.live /\ th.pc = "wait" /\ th.order = o /\ th.tx = x
      BY <1>0 DEF ThreadTyped, ThreadRecord
    <2>2. /\ threads[t].pc = "send" /\ threads' = [threads EXCEPT ![t] = th]
          /\ UNCHANGED <<chain, eventMode, restores>> /\ sent' = sent \cup {b}
          /\ Write(t, rec)
      BY <1>5 DEF Send, Broadcast, envVars
    <2>3. /\ OrderOf(t) \in OrderRecord /\ orders'[o] = rec
          /\ \A p \in Order : p # o => orders'[p] = orders[p]
      BY <2>2, WriteByCaller
    <2>4. /\ rec.paid = OrderOf(t).paid /\ rec.identity = OrderOf(t).identity
          /\ rec.pendingTx = OrderOf(t).pendingTx /\ rec \in OrderRecord
      <3>1. x \in Tx
        BY <1>0, <2>2 DEF ThreadTyped
      <3> QED
        BY <2>3, <3>1 DEF OrderRecord
    <2> HIDE DEF rec, th
    <2>5. StillHolds
      BY <1>0, <2>2, <2>3, <2>4, NoneAssumption, OthersHold DEF OrderOf
    <2>6. Plain'
      BY <1>0, <2>1, <2>2, PlainCalls DEF AccountInv
    <2>7. b.order = o /\ b.tx = x
      OBVIOUS
    <2> HIDE DEF b
    <2>8. Held(b.order, b.tx, orders', threads')
      BY <1>0, <2>1, <2>2, <2>7 DEF Held
    <2>9. \A s \in sent : s.order = b.order => Reverted(s.tx, chain')
      BY <2>2, <2>7, NothingOutstanding
    <2>10. \A s \in sent' : Reverted(s.tx, chain')
                              \/ Held(s.order, s.tx, orders', threads')
      BY <2>2, <2>5, <2>8, HoldersKept DEF AccountInv
    <2>11. \A s, r \in sent' : s.order = r.order /\ ~Reverted(s.tx, chain')
                                 /\ ~Reverted(r.tx, chain') => s.tx = r.tx
      BY <2>2, <2>9 DEF AccountInv
    <2> QED
      BY <2>6, <2>10, <2>11 DEF AccountInv
  <1> QED
    BY <1>1, <1>2, <1>3, <1>4, <1>5 DEF Submission

\* The one caller, waiting or confirming, ends: the others hold as before and
\* what it held is held by its order now or has reverted.
LEMMA CallerEnds ==
    ASSUME Undisturbed, AccountInv, TruthInv', NEW t \in Thread,
           threads[t].pc \in {"wait", "confirm"}, NEW kind, NEW tx,
           Reply(t, kind, tx), UNCHANGED <<chainVars, envVars>>,
           \A o \in Order : o # threads[t].order => orders'[o] = orders[o],
           \A y \in Tx : Held(threads[t].order, y, orders, threads) =>
             Reverted(y, chain) \/ Held(threads[t].order, y, orders', threads')
    PROVE  AccountInv'
  <1>0. /\ TypeInv /\ threads' = [threads EXCEPT ![t] = Idle(kind, tx)]
        /\ sent \subseteq [order : Order, tx : Tx]
        /\ UNCHANGED <<sent, chain, eventMode, restores>>
    BY DEF AccountInv, TruthInv, BackedInv, TypeInv, Shapes, Reply, chainVars,
           envVars
  <1>1. Plain'
    BY <1>0, IdleIsLive, PlainCalls DEF AccountInv
  <1>2. ASSUME NEW s \in sent, Held(s.order, s.tx, orders, threads)
        PROVE  Reverted(s.tx, chain') \/ Held(s.order, s.tx, orders', threads')
    <2>1. s.order \in Order /\ s.tx \in Tx
      BY <1>0
    <2>2. CASE s.order = threads[t].order
      BY <1>0, <1>2, <2>1, <2>2
    <2>3. CASE s.order # threads[t].order
      <3>1. \A u \in Thread : threads[u].order # s.order
        BY <2>3 DEF Undisturbed, OneCaller
      <3> QED
        BY <1>2, <2>1, <2>3, <3>1 DEF Held
    <2> QED
      BY <2>2, <2>3
  <1> QED
    BY <1>0, <1>1, <1>2, SameEvidence, AccountKept

\* _confirm (server.py:188-234) keeps the account: it notes the hash, books
\* it, or has seen it revert.
LEMMA ConfirmationAccounted ==
    ASSUME Undisturbed, AccountInv, TruthInv', NEW t \in Thread,
           Confirmation(t)
    PROVE  AccountInv'
  <1> DEFINE o == threads[t].order
             x == threads[t].tx
  <1>0. /\ TypeInv /\ ThreadTyped(threads[t], orders) /\ threads[t].live
        /\ sent \subseteq [order : Order, tx : Tx]
        /\ threads \in [Thread -> ThreadRecord]
        /\ threads[t].pc \in {"wait", "confirm"}
    BY DEF AccountInv, Plain, TruthInv, BackedInv, TypeInv, Shapes,
           Confirmation, GotReceipt, NoReceipt, SkipReceipt, ConfirmSettled,
           ConfirmUnsettled, ConfirmRaises
  <1>1. /\ o \in Order /\ x \in Tx /\ threads[t].auth \in Auth
        /\ OrderOf(t) \in OrderRecord /\ OrderOf(t) = orders[o]
        /\ ~OrderOf(t).paid /\ OrderOf(t).pendingTx \in {None, x}
    <2>1. ThreadNamed(threads[t], orders)
      BY DEF Undisturbed, AccountInv, TruthInv, NamedInv
    <2>2. o \in Order /\ OrderOf(t) \in OrderRecord /\ x \in Tx
          /\ threads[t].auth \in Auth
      BY <1>0 DEF ThreadTyped, OrderOf
    <2>3. RecordNamed(orders[o])
      BY <2>2 DEF Undisturbed, AccountInv, TruthInv, NamedInv
    <2> QED
      BY <1>0, <2>1, <2>2, <2>3 DEF ThreadNamed, RecordNamed, OrderOf
  <1>2. \A u \in Thread : u = t
    BY DEF Undisturbed, OneCaller
  <1>3. \A y \in Tx : Held(o, y, orders, threads) => y = x
    BY <1>1, <1>2, NoneAssumption DEF Held
  <1>4. CASE GotReceipt(t)
    <2> DEFINE th == [threads[t] EXCEPT !.pc = "confirm",
                        !.receipt = chain[x.nonce + 1]]
    <2>1. th.live /\ th.pc = "confirm" /\ th.order = o /\ th.tx = x
      BY <1>0 DEF ThreadTyped, ThreadRecord
    <2>2. /\ threads' = [threads EXCEPT ![t] = th]
          /\ UNCHANGED <<sent, chain, eventMode, restores>>
          /\ Write(t, NotPending(OrderOf(t)))
      BY <1>4 DEF GotReceipt, chainVars, envVars
    <2> HIDE DEF th
    <2>3. \A p \in Order : p # o => orders'[p] = orders[p]
      BY <1>0, <2>2, WriteByCaller
    <2>4. Plain'
      BY <1>0, <2>1, <2>2, PlainCalls DEF AccountInv
    <2>5. ASSUME NEW s \in sent, Held(s.order, s.tx, orders, threads)
          PROVE  Held(s.order, s.tx, orders', threads')
      <3>1. s.order \in Order /\ s.tx \in Tx
        BY <1>0
      <3>2. CASE s.order = o
        BY <1>0, <1>3, <2>1, <2>2, <2>5, <3>1, <3>2 DEF Held
      <3>3. CASE s.order # o
        BY <1>2, <2>3, <2>5, <3>1, <3>3 DEF Held
      <3> QED
        BY <3>2, <3>3
    <2> QED
      BY <2>2, <2>4, <2>5, SameEvidence, AccountKept
  <1>5. CASE NoReceipt(t)
    <2> DEFINE rec == [OrderOf(t) EXCEPT !.pendingTx = x,
                                         !.pendingAuth = threads[t].auth]
    <2>1. rec \in OrderRecord /\ rec.pendingTx = x
      BY <1>1 DEF OrderRecord
    <2>2. Write(t, rec)
      BY <1>5 DEF NoReceipt
    <2> HIDE DEF rec
    <2>3. /\ orders'[o] = rec
          /\ \A p \in Order : p # o => orders'[p] = orders[p]
      BY <1>0, <2>2, WriteByCaller
    <2>4. Held(o, x, orders', threads')
      BY <2>1, <2>3, NoneAssumption DEF Held
    <2> QED
      BY <1>0, <1>3, <1>5, <2>3, <2>4, CallerEnds DEF NoReceipt
  <1>6. CASE ConfirmSettled(t)
    <2> DEFINE rec == [OrderOf(t) EXCEPT !.paid = TRUE, !.identity = x]
    <2>1. rec \in OrderRecord /\ rec.paid /\ rec.identity = x
      BY <1>1 DEF OrderRecord
    <2>2. Write(t, rec)
      BY <1>6 DEF ConfirmSettled
    <2> HIDE DEF rec
    <2>3. /\ orders'[o] = rec
          /\ \A p \in Order : p # o => orders'[p] = orders[p]
      BY <1>0, <2>2, WriteByCaller
    <2>4. Held(o, x, orders', threads')
      BY <2>1, <2>3, NoneAssumption DEF Held
    <2> QED
      BY <1>0, <1>3, <1>6, <2>3, <2>4, CallerEnds DEF ConfirmSettled
  <1>7. CASE ConfirmUnsettled(t)
    <2>1. AnswerTrue([kind |-> "unsettled", tx |-> x], sent, chain)
      BY <1>7, RefusedForCause DEF ConfirmUnsettled, AccountInv
    <2>2. MinedIn(x, chain)
          /\ (~chain[x.nonce + 1].ok \/ chain[x.nonce + 1].mode = 1)
      BY <2>1 DEF AnswerTrue
    <2>3. chain[x.nonce + 1].mode = 0
      BY <1>0, <1>1, <2>2 DEF AccountInv, Plain, MinedIn, Tx, TypeInv, Shapes
    <2>4. Reverted(x, chain)
      BY <2>2, <2>3 DEF Reverted
    <2> QED
      BY <1>0, <1>3, <1>7, <2>4, CallerEnds DEF ConfirmUnsettled, ledgerVars
  <1>8. ~SkipReceipt(t) /\ ~ConfirmRaises(t)
    BY DEF SkipReceipt, ConfirmRaises, Undisturbed
  <1> QED
    BY <1>4, <1>5, <1>6, <1>7, <1>8 DEF Confirmation

\* Quotes and reconciliation keep the account; nothing is backed up for a
\* restore that will not come.
LEMMA LedgerAccounted ==
    ASSUME Undisturbed, AccountInv, TruthInv',
           (\E o \in Order : Quote(o)) \/ Backup \/ Restore
             \/ ReconcileFetch \/ ReconcileBook
    PROVE  AccountInv'
  <1>0. /\ TypeInv /\ restores = 0
        /\ orders \in [Order -> OrderRecord \cup {None}]
    BY DEF AccountInv, Plain, TruthInv, BackedInv, TypeInv, Shapes
  <1>1. ~Backup /\ ~Restore
    BY <1>0 DEF Backup, Restore, Undisturbed
  <1>2. UNCHANGED <<threads, sent, chain, eventMode, restores>>
    BY <1>1 DEF Quote, ReconcileFetch, ReconcileBook, chainVars, envVars
  <1>3. ASSUME NEW o \in Order, Quote(o) PROVE StillHolds
    <2>1. orders[o] = None
      BY <1>0, <1>3
      DEF Quote, AccountInv, TruthInv, QuotedInv, SentInv, OrderSent
    <2>2. \A p \in Order : p # o => orders'[p] = orders[p]
      BY <1>0, <1>3 DEF Quote
    <2> QED
      BY <1>2, <2>1, <2>2 DEF StillHolds
  <1>4. ASSUME ReconcileFetch \/ ReconcileBook PROVE StillHolds
    <2>1. UNCHANGED <<orders, threads>>
      BY <1>4 DEF ReconcileFetch, ReconcileBook
    <2> QED
      BY <2>1 DEF StillHolds
  <1>5. StillHolds
    BY <1>1, <1>3, <1>4
  <1>6. Plain'
    BY <1>2 DEF AccountInv, Plain
  <1> QED
    BY <1>2, <1>5, <1>6, SameEvidence, HoldersKept, AccountKept

\* The chain grows by undrifted transfers only.
LEMMA ChainAccounted ==
    ASSUME Undisturbed, AccountInv, TruthInv',
           Mine \/ (\E n \in 0..Len(chain), requeue \in BOOLEAN : Reorg(n, requeue))
             \/ (\E m \in EventModes : SetEventMode(m))
             \/ (\E p \in FairPrices : MoveFairPrice(p)) \/ Tick
    PROVE  AccountInv'
  <1>0. TypeInv /\ chain \in Seq(Entry)
    BY DEF AccountInv, TruthInv, BackedInv, TypeInv, Shapes
  <1>1. Extends(sent, chain, sent', chain')
    BY <1>0, ChainExtends DEF Undisturbed
  <1>2. \A m \in EventModes : ~SetEventMode(m)
    BY DEF SetEventMode, Undisturbed, AccountInv, Plain
  <1>3. \A n \in 0..Len(chain), requeue \in BOOLEAN : ~Reorg(n, requeue)
    BY <1>0 DEF Reorg, Undisturbed, TypeInv, Shapes
  <1>4. UNCHANGED <<orders, threads, sent, eventMode, restores>>
    BY <1>2, <1>3 DEF Mine, MoveFairPrice, Tick, chainVars, ledgerVars, envVars
  <1>5. \A i \in 1..Len(chain') : chain'[i].mode = 0
    <2>1. CASE Mine
      <3>1. PICK tx, ok : chain' = Append(chain, [tx |-> tx, mode |-> eventMode,
                                                  ok |-> ok])
        BY <2>1 DEF Mine
      <3>2. \A i \in 1..Len(chain') :
              \/ i \in 1..Len(chain) /\ chain'[i] = chain[i]
              \/ chain'[i] = [tx |-> tx, mode |-> eventMode, ok |-> ok]
        BY <1>0, <3>1
      <3> QED
        BY <3>2 DEF AccountInv, Plain
    <2>2. CASE chain' = chain
      BY <2>2 DEF AccountInv, Plain
    <2> QED
      BY <1>2, <1>3, <2>1, <2>2 DEF MoveFairPrice, Tick, chainVars
  <1>6. Plain'
    BY <1>4, <1>5 DEF AccountInv, Plain
  <1>7. StillHolds
    BY <1>4 DEF StillHolds
  <1> QED
    BY <1>1, <1>4, <1>6, <1>7, HoldersKept, AccountKept DEF Extends

\* AccountInv is inductive for an undisturbed server.
LEMMA NextAccounted ==
    ASSUME Undisturbed
    PROVE  AccountInv /\ [Next]_vars => AccountInv'
  <1> SUFFICES ASSUME AccountInv, [Next]_vars PROVE AccountInv'
    OBVIOUS
  <1>1. TruthInv'
    BY NextTrue DEF Undisturbed, AccountInv
  <1>2. CASE UNCHANGED vars
    <2>1. UNCHANGED <<orders, threads, sent, chain, eventMode, restores>>
      BY <1>2 DEF vars, ledgerVars, chainVars, envVars
    <2> QED
      BY <1>1, <2>1 DEF AccountInv, Plain
  <1>3. CASE Next
    BY <1>1, <1>3, PayAccounted, SubmissionAccounted, ConfirmationAccounted,
       LedgerAccounted, ChainAccounted
    DEF Next
  <1> QED
    BY <1>2, <1>3

\* Nothing has been broadcast by a fresh server.
LEMMA InitAccounted == Init => AccountInv
  <1> SUFFICES ASSUME Init PROVE AccountInv
    OBVIOUS
  <1>1. Plain
    BY IdleIsLive DEF Init, Plain
  <1> QED
    BY <1>1, InitTrue DEF Init, AccountInv

\* A settlement that moved funds has not reverted.
LEMMA MovedFunds ==
    ASSUME NEW o \in Order, NEW tx \in Settlements(o)
    PROVE  \E s \in sent : s.order = o /\ s.tx = tx /\ ~Reverted(s.tx, chain)
  BY DEF Settlements, Received, Executed, Mined, MinedIn, Reverted

\* An undisturbed idempotent server settles an order at most once: a retry
\* waits on the pending broadcast, a re-pay is answered from the record, and a
\* new broadcast is made only after the last one reverted ("A robust system
\* never settles the same order twice", server.py:149-171).
THEOREM NeverSettledTwice ==
    ASSUME Undisturbed
    PROVE  Spec => []SettledAtMostOnce
  <1>1. AccountInv => SettledAtMostOnce
    BY MovedFunds DEF AccountInv, SettledAtMostOnce
  <1> QED
    BY <1>1, InitAccounted, NextAccounted, PTL DEF Spec

\* An undisturbed idempotent server loses no settlement: one that moved funds
\* is booked, pending on its order, or being confirmed, whatever reads,
\* broadcasts and receipt polls fail (server.py:160-171, 199-233).
THEOREM NoSettlementIsStranded ==
    ASSUME Undisturbed
    PROVE  Spec => []NoStrandedSettlement
  <1>1. AccountInv => NoStrandedSettlement
    <2> SUFFICES ASSUME AccountInv, NEW o \in Order, NEW tx \in Settlements(o)
                 PROVE  \/ tx \in KnownSettlements
                        \/ Known(o) /\ orders[o].pendingTx = tx
                        \/ \E t \in Thread :
                             /\ threads[t].pc \in {"wait", "confirm"}
                             /\ threads[t].order = o /\ threads[t].tx = tx
                             /\ threads[t].live
      BY DEF NoStrandedSettlement
    <2>1. Held(o, tx, orders, threads)
      BY MovedFunds DEF AccountInv
    <2>2. CASE orders[o] # None /\ orders[o].paid /\ orders[o].identity = tx
      BY <2>2 DEF KnownSettlements, Paid, Known
    <2>3. CASE orders[o] # None /\ orders[o].pendingTx = tx
      BY <2>3 DEF Known
    <2>4. CASE \E t \in Thread : /\ threads[t].pc \in {"wait", "confirm"}
                                 /\ threads[t].order = o /\ threads[t].tx = tx
      BY <2>4 DEF AccountInv, Plain
    <2> QED
      BY <2>1, <2>2, <2>3, <2>4 DEF Held
  <1> QED
    BY <1>1, InitAccounted, NextAccounted, PTL DEF Spec
=============================================================================
