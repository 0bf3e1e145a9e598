--------------------------- MODULE PaymentLedger ----------------------------
(***************************************************************************)
(* What the merchant's ledger promises: it follows the payments received   *)
(* on the chain.  An order gets paid by a payment that was received for it *)
(* and is on the chain at that moment; a recovered record is of a payment  *)
(* a reconciliation has seen there; what is booked goes away only when a   *)
(* backup is restored, and then it all becomes what the backup held.       *)
(***************************************************************************)
CONSTANTS
    Order,
    Payment,
    None

VARIABLES
    received,   \* the payments on the chain, each with its order
    paid,       \* the payment of each order, or None
    recovered,  \* payments booked by reconciliation
    fetched,    \* payments a running reconciliation has seen
    saved       \* the backup, or None

vars == <<received, paid, recovered, fetched, saved>>

Init ==
    /\ received = {} /\ paid = [o \in Order |-> None]
    /\ recovered = {} /\ fetched = {} /\ saved = None

\* A payment is mined, or a reorganisation drops some.
ChainMoves ==
    /\ received' \subseteq [order : Order, tx : Payment]
    /\ UNCHANGED <<paid, recovered, fetched, saved>>

Book(o) ==
    /\ \E r \in received : r.order = o /\ paid' = [paid EXCEPT ![o] = r.tx]
    /\ UNCHANGED <<received, recovered, fetched, saved>>

Fetch ==
    /\ fetched' \subseteq {r.tx : r \in received}
    /\ UNCHANGED <<received, paid, recovered, saved>>

Recover ==
    /\ recovered \subseteq recovered' /\ recovered' \subseteq recovered \cup fetched
    /\ fetched' = {}
    /\ UNCHANGED <<received, paid, saved>>

Backup ==
    /\ saved' = [paid |-> paid, recovered |-> recovered]
    /\ UNCHANGED <<received, paid, recovered, fetched>>

Restore ==
    /\ saved # None
    /\ paid' = saved.paid /\ recovered' = saved.recovered
    /\ UNCHANGED <<received, fetched, saved>>

Next ==
    \/ ChainMoves
    \/ \E o \in Order : Book(o)
    \/ Fetch \/ Recover \/ Backup \/ Restore

Spec == Init /\ [][Next]_vars

=============================================================================
