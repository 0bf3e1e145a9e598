-------------------------- MODULE LedgerDiffProofs --------------------------
(***************************************************************************)
(* Proofs about the ledger comparison, for lists of any length and ledgers *)
(* of any size.                                                            *)
(***************************************************************************)
EXTENDS LedgerDiff, FiniteSetTheorems, TLAPS

\* While nothing is wrong, the dictionary holds exactly the list's credits in
\* scope: every one of them has gone through the checks.
Faithful ==
    pc \in {"scan", "done"} =>
      /\ observations = InScope(seen, args)
      /\ ~Inconsistent(seen, args)

DiffInv ==
    /\ TypeOK
    /\ IsFiniteSet(observations)
    /\ pc = "idle" => seen = {} /\ observations = {}
    /\ Faithful
    /\ FailsClosed
    /\ DiffIsExact

-----------------------------------------------------------------------------
(* The sort key *)

\* The key of a credit is four numbers.
LEMMA KeyTyped ==
    ASSUME NEW c \in OnChainCredit
    PROVE  \A i \in 1..4 : Key(c)[i] \in Nat
  <1>1. c.block \in Nat /\ c.identity \in SettlementIdentity
    BY DEF OnChainCredit
  <1>2. /\ c.identity.index \in Nat /\ c.identity.tx \in Nat
        /\ c.identity.asset \in Nat
    BY <1>1 DEF SettlementIdentity
  <1>3. Key(c)[1] \in Nat /\ Key(c)[2] \in Nat /\ Key(c)[3] \in Nat
        /\ Key(c)[4] \in Nat
    BY <1>1, <1>2 DEF Key
  <1>4. \A i \in 1..4 : i = 1 \/ i = 2 \/ i = 3 \/ i = 4
    OBVIOUS
  <1> QED
    BY <1>3, <1>4

\* Two credits of one chain with the same key have the same identity.
LEMMA KeyIdentifies ==
    ASSUME NEW c \in OnChainCredit, NEW d \in OnChainCredit,
           c.identity.chain = d.identity.chain,
           \A i \in 1..4 : Key(c)[i] = Key(d)[i]
    PROVE  c.identity = d.identity
  <1>1. c.identity \in SettlementIdentity /\ d.identity \in SettlementIdentity
    BY DEF OnChainCredit
  <1>2. Key(c)[2] = Key(d)[2] /\ Key(c)[3] = Key(d)[3] /\ Key(c)[4] = Key(d)[4]
    OBVIOUS
  <1>3. /\ c.identity.index = d.identity.index /\ c.identity.tx = d.identity.tx
        /\ c.identity.asset = d.identity.asset
    BY <1>2 DEF Key
  <1> QED
    BY <1>1, <1>3 DEF SettlementIdentity

\* Keys that differ are ordered.
LEMMA KeysOrdered ==
    ASSUME NEW k, NEW l, \A i \in 1..4 : k[i] \in Nat /\ l[i] \in Nat,
           ~(\A i \in 1..4 : k[i] = l[i])
    PROVE  Before(k, l) \/ Before(l, k)
  <1>1. CASE k[1] # l[1]
    <2>1. k[1] < l[1] \/ l[1] < k[1]
      BY <1>1
    <2>2. \A j \in 1..(1 - 1) : k[j] = l[j] /\ l[j] = k[j]
      OBVIOUS
    <2> QED
      BY <2>1, <2>2 DEF Before
  <1>2. CASE k[1] = l[1] /\ k[2] # l[2]
    <2>1. k[2] < l[2] \/ l[2] < k[2]
      BY <1>2
    <2>2. \A j \in 1..(2 - 1) : k[j] = l[j] /\ l[j] = k[j]
      BY <1>2
    <2> QED
      BY <2>1, <2>2 DEF Before
  <1>3. CASE k[1] = l[1] /\ k[2] = l[2] /\ k[3] # l[3]
    <2>1. k[3] < l[3] \/ l[3] < k[3]
      BY <1>3
    <2>2. \A j \in 1..(3 - 1) : k[j] = l[j] /\ l[j] = k[j]
      BY <1>3
    <2> QED
      BY <2>1, <2>2 DEF Before
  <1>4. CASE k[1] = l[1] /\ k[2] = l[2] /\ k[3] = l[3] /\ k[4] # l[4]
    <2>1. k[4] < l[4] \/ l[4] < k[4]
      BY <1>4
    <2>2. \A j \in 1..(4 - 1) : k[j] = l[j] /\ l[j] = k[j]
      BY <1>4
    <2> QED
      BY <2>1, <2>2 DEF Before
  <1>5. CASE k[1] = l[1] /\ k[2] = l[2] /\ k[3] = l[3] /\ k[4] = l[4]
    BY <1>5
  <1> QED
    BY <1>1, <1>2, <1>3, <1>4, <1>5

\* No key comes before itself.
LEMMA KeyIrreflexive ==
    ASSUME NEW c \in OnChainCredit
    PROVE  ~Before(Key(c), Key(c))
  BY KeyTyped DEF Before

-----------------------------------------------------------------------------
(* The steps *)

\* The comparison starts with nothing seen.
LEMMA InitInv == Init => DiffInv
  <1> SUFFICES ASSUME Init PROVE DiffInv
    OBVIOUS
  <1>1. args \in Arguments
    BY DEF Init, Arguments
  <1>2. TypeOK
    BY <1>1 DEF Init, TypeOK
  <1> QED
    BY <1>2, FS_EmptySet DEF Init, DiffInv, Faithful, FailsClosed, DiffIsExact

\* A start has seen nothing, and nothing is consistent.
LEMMA StartInv ==
    ASSUME DiffInv, NEW asset \in Nat \cup {None},
           NEW payee \in Payees \cup {None},
           NEW known \in SUBSET SettlementIdentity, NEW scoped \in BOOLEAN,
           Start(asset, payee, known, scoped)
    PROVE  DiffInv'
  <1>1. args' \in Arguments
    BY DEF Start, Arguments
  <1>2. /\ pc' = "scan" /\ seen' = {} /\ observations' = {}
        /\ missing' = missing
    BY DEF Start, DiffInv
  <1>3. TypeOK'
    BY <1>1, <1>2 DEF DiffInv, TypeOK
  <1>4. InScope({}, args') = {} /\ ~Inconsistent({}, args')
    BY DEF InScope, Inconsistent
  <1>5. Faithful' /\ FailsClosed' /\ DiffIsExact'
    BY <1>2, <1>4 DEF Faithful, FailsClosed, DiffIsExact
  <1> QED
    BY <1>2, <1>3, <1>5, FS_EmptySet DEF DiffInv

\* A log of another token changes nothing but what has been seen.
LEMMA SkipInv ==
    ASSUME DiffInv, NEW log \in Logs, SkipLog(log)
    PROVE  DiffInv'
  <1>1. /\ pc = "scan" /\ pc' = "scan" /\ seen' = seen \cup {log}
        /\ observations' = observations /\ args' = args /\ missing' = missing
        /\ log # None /\ LeftOut(log, args)
    BY DEF SkipLog, Take
  <1>2. InScope(seen \cup {log}, args) = InScope(seen, args)
    BY <1>1 DEF InScope
  <1>3. ~Inconsistent(seen \cup {log}, args)
    BY <1>1, <1>2 DEF DiffInv, Faithful, Inconsistent
  <1>4. TypeOK'
    BY <1>1 DEF DiffInv, TypeOK
  <1>5. Faithful' /\ FailsClosed' /\ DiffIsExact'
    BY <1>1, <1>2, <1>3 DEF DiffInv, Faithful, FailsClosed, DiffIsExact
  <1> QED
    BY <1>1, <1>4, <1>5 DEF DiffInv

\* A refused log is a reason for the list to be inconsistent.
LEMMA RefuseInv ==
    ASSUME DiffInv, NEW log \in Logs, RefuseLog(log)
    PROVE  DiffInv'
  <1>1. /\ pc = "scan" /\ pc' = "raised" /\ seen' = seen \cup {log}
        /\ observations' = observations /\ args' = args /\ missing' = missing
    BY DEF RefuseLog, Take
  <1>2. observations = InScope(seen, args)
    BY <1>1 DEF DiffInv, Faithful
  <1>3. Inconsistent(seen \cup {log}, args)
    <2>1. CASE log = None
      BY <2>1 DEF Inconsistent
    <2>2. CASE log # None
      <3>1. log \in InScope(seen \cup {log}, args)
        BY <2>2 DEF RefuseLog, InScope
      <3>2. InScope(seen, args) \subseteq InScope(seen \cup {log}, args)
        BY DEF InScope
      <3>3. CASE Foreign(log, args)
        BY <3>1, <3>3 DEF Inconsistent
      <3>4. CASE Conflicts(log)
        <4>1. PICK o \in observations : o.identity = log.identity /\ o # log
          BY <3>4 DEF Conflicts
        <4> QED
          BY <1>2, <3>1, <3>2, <4>1 DEF Inconsistent
      <3> QED
        BY <2>2, <3>3, <3>4 DEF RefuseLog
    <2> QED
      BY <2>1, <2>2
  <1>4. TypeOK'
    BY <1>1 DEF DiffInv, TypeOK
  <1> QED
    BY <1>1, <1>3, <1>4 DEF DiffInv, Faithful, FailsClosed, DiffIsExact

\* An observed log is new or the same as the one observed before.
LEMMA ObserveInv ==
    ASSUME DiffInv, NEW log \in Logs, ObserveLog(log)
    PROVE  DiffInv'
  <1>1. /\ pc = "scan" /\ pc' = "scan" /\ seen' = seen \cup {log}
        /\ args' = args /\ missing' = missing
        /\ log # None /\ ~LeftOut(log, args)
        /\ ~Foreign(log, args) /\ ~Conflicts(log)
        /\ observations' =
             {o \in observations : o.identity # log.identity} \cup {log}
    BY DEF ObserveLog, Take
  <1>2. observations = InScope(seen, args) /\ ~Inconsistent(seen, args)
    BY <1>1 DEF DiffInv, Faithful
  <1>3. \A o \in observations : o.identity = log.identity => o = log
    BY <1>1 DEF Conflicts
  <1>4. observations' = observations \cup {log}
    BY <1>1, <1>3
  <1>5. InScope(seen \cup {log}, args) = observations \cup {log}
    BY <1>1, <1>2 DEF InScope
  <1>6. ~Inconsistent(seen \cup {log}, args)
    <2>1. None \notin seen \cup {log}
      BY <1>1, <1>2 DEF Inconsistent
    <2>2. \A c \in observations \cup {log} : ~Foreign(c, args)
      BY <1>1, <1>2 DEF Inconsistent
    <2>3. \A c, d \in observations \cup {log} :
            c.identity = d.identity => c = d
      BY <1>2, <1>3 DEF Inconsistent
    <2> QED
      BY <1>5, <2>1, <2>2, <2>3 DEF Inconsistent
  <1>7. log \in OnChainCredit
    BY <1>1 DEF Logs
  <1>8. TypeOK'
    BY <1>1, <1>3, <1>4, <1>7 DEF DiffInv, TypeOK
  <1>9. Faithful' /\ FailsClosed' /\ DiffIsExact'
    BY <1>1, <1>4, <1>5, <1>6 DEF Faithful, FailsClosed, DiffIsExact
  <1>10. IsFiniteSet(observations')
    BY <1>4, FS_AddElement DEF DiffInv
  <1> QED
    BY <1>1, <1>8, <1>9, <1>10 DEF DiffInv

\* The list returned is the set of missing credits in the order of its keys.
LEMMA ReturnInv ==
    ASSUME DiffInv, Return
    PROVE  DiffInv'
  <1>1. /\ pc = "scan" /\ pc' = "done" /\ seen' = seen /\ args' = args
        /\ observations' = observations
    BY DEF Return
  <1> DEFINE S == Unreconciled(args)
  <1>0. IsFiniteSet(S)
    BY FS_Subset DEF Unreconciled, DiffInv
  <1>2. PICK s \in [1..Cardinality(S) -> S] : SortedList(s, S) /\ missing' = s
    BY DEF Return
  <1>3. S \subseteq OnChainCredit /\ \A o, p \in S : o.identity = p.identity => o = p
    BY DEF Unreconciled, DiffInv, TypeOK, Logs
  <1>4. observations = InScope(seen, args) /\ ~Inconsistent(seen, args)
    BY <1>1 DEF DiffInv, Faithful
  <1>5. {s[i] : i \in DOMAIN s} =
          {c \in InScope(seen, args) : ~c.removed /\ c.identity \notin args.known}
    BY <1>2, <1>4 DEF SortedList, Unreconciled
  <1>6. \A i, j \in DOMAIN s : i < j => Before(Key(s[i]), Key(s[j]))
    BY <1>2 DEF SortedList
  <1> HIDE DEF S
  <1>7. \A i, j \in DOMAIN s : i # j => s[i].identity # s[j].identity
    <2> SUFFICES ASSUME NEW i \in DOMAIN s, NEW j \in DOMAIN s, i # j,
                        s[i].identity = s[j].identity
                 PROVE  FALSE
      OBVIOUS
    <2>1. s[i] \in S /\ s[j] \in S
      BY <1>2
    <2>2. s[i] = s[j] /\ s[i] \in OnChainCredit
      BY <1>3, <2>1
    <2>3. DOMAIN s = 1..Cardinality(S)
      BY <1>2
    <2>4. i \in Int /\ j \in Int
      BY <2>3
    <2>5. i < j \/ j < i
      BY <2>4
    <2> QED
      BY <1>6, <2>2, <2>5, KeyIrreflexive
  <1>8. missing' \in Seq(OnChainCredit)
    <2>1. Cardinality(S) \in Nat
      BY <1>0, FS_CardinalityType
    <2>2. s \in [1..Cardinality(S) -> OnChainCredit]
      BY <1>2, <1>3
    <2> QED
      BY <1>2, <2>1, <2>2
  <1>9. TypeOK'
    BY <1>1, <1>8 DEF DiffInv, TypeOK
  <1>10. DiffIsExact'
    BY <1>1, <1>2, <1>5, <1>6, <1>7 DEF DiffIsExact
  <1>11. Faithful' /\ FailsClosed'
    BY <1>1, <1>4 DEF Faithful, FailsClosed
  <1> QED
    BY <1>1, <1>9, <1>10, <1>11 DEF DiffInv

\* Every step keeps the invariant.
LEMMA NextInv == DiffInv /\ [Next]_vars => DiffInv'
  <1> SUFFICES ASSUME DiffInv, [Next]_vars PROVE DiffInv'
    OBVIOUS
  <1>1. CASE UNCHANGED vars
    BY <1>1 DEF vars, DiffInv, TypeOK, Faithful, FailsClosed, DiffIsExact
  <1>2. CASE Next
    BY <1>2, StartInv, SkipInv, RefuseInv, ObserveInv, ReturnInv DEF Next
  <1> QED
    BY <1>1, <1>2

-----------------------------------------------------------------------------
(* Theorems *)

\* For lists of any length, in any order: types are kept and no identity is
\* ever observed twice (reconciliation.py:177-226).
THEOREM TypeCorrect == Spec => []TypeOK
  <1>1. DiffInv => TypeOK
    BY DEF DiffInv
  <1> QED
    BY <1>1, InitInv, NextInv, PTL DEF Spec

\* For lists of any length, in any order: the comparison raises if and only if
\* what it has seen is inconsistent (reconciliation.py:199-212, 229-256).
THEOREM InconsistentListsAreRefused == Spec => []FailsClosed
  <1>1. DiffInv => FailsClosed
    BY DEF DiffInv
  <1> QED
    BY <1>1, InitInv, NextInv, PTL DEF Spec

\* For lists of any length and ledgers of any size: what is returned are
\* exactly the credits the ledger lacks, each once, sorted
\* (reconciliation.py:214-226).
THEOREM MissingCreditsAreExact == Spec => []DiffIsExact
  <1>1. DiffInv => DiffIsExact
    BY DEF DiffInv
  <1> QED
    BY <1>1, InitInv, NextInv, PTL DEF Spec

\* The order of the result never depends on the order of the logs: the sort
\* key tells any two missing credits apart (reconciliation.py:220-226).
THEOREM ResultOrderIsTotal == Spec => []OrderIsTotal
  <1>1. DiffInv => OrderIsTotal
    <2> SUFFICES ASSUME DiffInv, NEW c \in Unreconciled(args),
                        NEW d \in Unreconciled(args), c # d
                 PROVE  Before(Key(c), Key(d)) \/ Before(Key(d), Key(c))
      BY DEF OrderIsTotal
    <2>1. /\ c \in OnChainCredit /\ d \in OnChainCredit /\ c.identity # d.identity
          /\ c.identity.chain = d.identity.chain
      BY DEF Unreconciled, DiffInv, TypeOK, Logs
    <2>2. ~(\A i \in 1..4 : Key(c)[i] = Key(d)[i])
      BY <2>1, KeyIdentifies
    <2>3. \A i \in 1..4 : Key(c)[i] \in Nat /\ Key(d)[i] \in Nat
      BY <2>1, KeyTyped
    <2> QED
      BY <2>2, <2>3, KeysOrdered
  <1> QED
    BY <1>1, InitInv, NextInv, PTL DEF Spec

=============================================================================
