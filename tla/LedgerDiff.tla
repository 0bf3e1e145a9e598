---------------------------- MODULE LedgerDiff ------------------------------
(***************************************************************************)
(* Ledger reconciliation (src/psv/reconciliation.py, find_unreconciled and *)
(* reconcile_asset_scoped): a list of Transfer logs is compared, log by    *)
(* log, with the settlements a ledger knows.  The list may hold a log      *)
(* twice, in any order, of another token or payee, removed by a            *)
(* reorganisation or not decodable at all.                                 *)
(***************************************************************************)
EXTENDS Integers, Sequences, FiniteSets

CONSTANTS
    Payees,
    Bodies,     \* block hash, payer and value of a log
    ChainId,    \* the chain the logs come from
    None        \* of a parameter: not given; of a log: not decodable

\* Addresses and hashes are numbers: the order of the result compares them.
SettlementIdentity == [chain : Nat, asset : Nat, tx : Nat, index : Nat]

OnChainCredit ==
    [identity : SettlementIdentity, block : Nat, payee : Payees,
     body : Bodies, removed : BOOLEAN]

\* What decode_transfer_log makes of the logs of a list, None of a malformed one.
Logs == {c \in OnChainCredit : c.identity.chain = ChainId} \cup {None}

VARIABLES
    pc,
    args,          \* expected asset and payee, ledger, scoped to the asset?
    seen,          \* the logs of the list so far
    observations,  \* the credits decoded so far, one for each identity
    missing        \* the list returned

vars == <<pc, args, seen, observations, missing>>

Arguments ==
    [asset : Nat \cup {None}, payee : Payees \cup {None},
     known : SUBSET SettlementIdentity, scoped : BOOLEAN]

Init ==
    /\ pc = "idle" /\ seen = {} /\ observations = {} /\ missing = <<>>
    /\ args = [asset |-> None, payee |-> None, known |-> {}, scoped |-> FALSE]

-----------------------------------------------------------------------------

Start(asset, payee, known, scoped) ==
    /\ pc = "idle" /\ pc' = "scan"
    /\ scoped => asset # None
    /\ args' = [asset |-> asset, payee |-> payee, known |-> known,
                scoped |-> scoped]
    /\ UNCHANGED <<seen, observations, missing>>

\* The asset filter of reconcile_asset_scoped; every log is decoded before it.
LeftOut(c, a) == a.scoped /\ c.identity.asset # a.asset

\* Logs of another token or to another payee than expected.
Foreign(c, a) ==
    \/ a.asset # None /\ c.identity.asset # a.asset
    \/ a.payee # None /\ c.payee # a.payee

Conflicts(c) ==
    \E o \in observations : o.identity = c.identity /\ o # c

Take(log) ==
    /\ pc = "scan" /\ seen' = seen \cup {log}
    /\ UNCHANGED <<args, missing>>

SkipLog(log) ==
    /\ Take(log)
    /\ log # None /\ LeftOut(log, args)
    /\ UNCHANGED <<pc, observations>>

RefuseLog(log) ==
    /\ Take(log)
    /\ \/ log = None
       \/ /\ log # None /\ ~LeftOut(log, args)
          /\ Foreign(log, args) \/ Conflicts(log)
    /\ pc' = "raised"
    /\ UNCHANGED observations

ObserveLog(log) ==
    /\ Take(log)
    /\ log # None /\ ~LeftOut(log, args)
    /\ ~Foreign(log, args) /\ ~Conflicts(log)
    /\ observations' =
         {o \in observations : o.identity # log.identity} \cup {log}
    /\ UNCHANGED pc

Unreconciled(a) ==
    {c \in observations : ~c.removed /\ c.identity \notin a.known}

\* The sort key: block, log index, transaction, asset.
Key(c) == <<c.block, c.identity.index, c.identity.tx, c.identity.asset>>

Before(k, l) ==
    \E i \in 1..4 : k[i] < l[i] /\ \A j \in 1..(i - 1) : k[j] = l[j]

\* sorted(): the set as a list in the order of the keys.
SortedList(s, S) ==
    /\ \A i, j \in DOMAIN s : i < j => Before(Key(s[i]), Key(s[j]))
    /\ {s[i] : i \in DOMAIN s} = S

Return ==
    /\ pc = "scan" /\ pc' = "done"
    /\ \E s \in [1..Cardinality(Unreconciled(args)) -> Unreconciled(args)] :
         SortedList(s, Unreconciled(args)) /\ missing' = s
    /\ UNCHANGED <<args, seen, observations>>

Next ==
    \/ \E asset \in Nat \cup {None}, payee \in Payees \cup {None},
          known \in SUBSET SettlementIdentity, scoped \in BOOLEAN :
         Start(asset, payee, known, scoped)
    \/ \E log \in Logs : SkipLog(log) \/ RefuseLog(log) \/ ObserveLog(log)
    \/ Return

Spec == Init /\ [][Next]_vars

-----------------------------------------------------------------------------
(* Properties *)

\* Every variable keeps its type, and no identity is observed twice
\* (reconciliation.py:177-226).
TypeOK ==
    /\ pc \in {"idle", "scan", "done", "raised"} /\ args \in Arguments
    /\ seen \subseteq Logs /\ observations \subseteq Logs \ {None}
    /\ \A o, p \in observations : o.identity = p.identity => o = p
    /\ missing \in Seq(OnChainCredit)

\* The credits a list has about the expected asset, or all of them.
InScope(list, a) == {c \in list \ {None} : ~LeftOut(c, a)}

\* What makes a list inconclusive, whatever its order.
Inconsistent(list, a) ==
    \/ None \in list
    \/ \E c \in InScope(list, a) : Foreign(c, a)
    \/ \E c, d \in InScope(list, a) : c.identity = d.identity /\ c # d

\* The comparison fails closed on the first log that makes its list
\* inconsistent, and for no other reason: not for a repeated log, not for
\* another token's logs when scoped, and in no order of the logs
\* (reconciliation.py:199-212, 229-256).
FailsClosed ==
    pc # "idle" => (pc = "raised" <=> Inconsistent(seen, args))

\* What is returned are exactly the canonical credits of the list that the
\* ledger lacks, each once, in an order that only depends on the credits: an
\* entry of another chain, token, transaction or log index hides none of them
\* (reconciliation.py:214-226).
DiffIsExact ==
    pc = "done" =>
      /\ {missing[i] : i \in DOMAIN missing} =
           {c \in InScope(seen, args) : ~c.removed /\ c.identity \notin args.known}
      /\ \A i, j \in DOMAIN missing :
           i # j => missing[i].identity # missing[j].identity
      /\ \A i, j \in DOMAIN missing :
           i < j => Before(Key(missing[i]), Key(missing[j]))

\* No two credits that are missing compare as equal, so that the order of the
\* result is not left to the order of the logs (reconciliation.py:220-226).
OrderIsTotal ==
    \A c, d \in Unreconciled(args) :
      c = d \/ Before(Key(c), Key(d)) \/ Before(Key(d), Key(c))

=============================================================================
