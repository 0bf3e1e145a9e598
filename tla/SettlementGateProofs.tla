------------------------ MODULE SettlementGateProofs ------------------------
(***************************************************************************)
(* Proofs about the finality gate: types, that a credited settlement stays *)
(* on the chain, and that the grading of the systems is true, for chains   *)
(* of any height, any number of reorganisations and any confirmations      *)
(* above their depth.                                                      *)
(***************************************************************************)
EXTENDS SettlementGate, ForkingChainProofs

\* What the gate has credited is canonical and out of reach of the next
\* reorganisation.
Secure ==
    /\ Canonical(watch["gate"].block)
    /\ Len(watch["gate"].block) + MinConfirmations <= peak + 1

GateInv == TypeOK /\ (Credited("gate") => Secure)

-----------------------------------------------------------------------------
(* Types *)

\* The types hold at the start.
LEMMA InitType == Init => TypeOK
  <1> SUFFICES ASSUME Init PROVE TypeOK
    OBVIOUS
  <1>1. ChainOK /\ peak \in Nat
    BY ChainInitType DEF Init, ChainOK
  <1>2. /\ watch \in [Systems -> Watcher]
        /\ \A s \in Systems : watch[s].pc = "receipt" /\ watch[s].head = 0
    BY DEF Init, Looking, Watcher
  <1> QED
    BY <1>1, <1>2 DEF TypeOK

\* One system moves on to a typed state of its own.
LEMMA OneMoves ==
    ASSUME TypeOK, NEW s \in Systems, NEW w \in Watcher, UNCHANGED chainVars,
           watch' = [watch EXCEPT ![s] = w],
           w.pc # "receipt" => Len(w.block) \in 1..peak,
           w.head <= peak
    PROVE  TypeOK'
  <1>1. peak' = peak /\ ChainOK'
    BY DEF TypeOK, ChainOK, chainVars
  <1>2. /\ watch' \in [Systems -> Watcher]
        /\ \A u \in Systems : watch'[u] = IF u = s THEN w ELSE watch[u]
    BY DEF TypeOK
  <1> QED
    BY <1>1, <1>2 DEF TypeOK

\* The steps of a system keep the types.
LEMMA WatchType ==
    ASSUME TypeOK, NEW s \in Systems, Watch(s)
    PROVE  TypeOK'
  <1>0. /\ ChainOK /\ chain \in Seq(Block) /\ Len(chain) \in Nat
        /\ peak \in Nat /\ Len(chain) <= peak
        /\ watch[s] \in Watcher /\ watch \in [Systems -> Watcher]
        /\ watch[s].head <= peak
        /\ watch[s].pc # "receipt" => Len(watch[s].block) \in 1..peak
    BY DEF TypeOK, ChainOK
  <1>1. ASSUME NEW n \in 1..Len(chain), ReadReceipt(s, n) PROVE TypeOK'
    <2> DEFINE pc == IF s = "sighting" THEN "credited" ELSE "head"
               w == [watch[s] EXCEPT !.block = Hash(chain, n), !.pc = pc]
    <2>1. Hash(chain, n) \in Seq(Block) /\ Len(Hash(chain, n)) = n
      BY <1>0, HashIs
    <2>2. /\ w \in Watcher /\ w.block = Hash(chain, n)
          /\ w.head = watch[s].head
      BY <1>0, <2>1 DEF Watcher
    <2>3. watch' = [watch EXCEPT ![s] = w] /\ UNCHANGED chainVars
      BY <1>0, <1>1 DEF ReadReceipt
    <2>4. Len(w.block) \in 1..peak /\ w.head <= peak
      BY <1>0, <2>1, <2>2
    <2> HIDE DEF w
    <2> QED
      BY <2>2, <2>3, <2>4, OneMoves
  <1>2. CASE ReadHead(s)
    <2>1. PICK pc \in {"canonical", "credited", "receipt"} :
            watch' = [watch EXCEPT ![s].head = Len(chain), ![s].pc = pc]
      BY <1>2 DEF ReadHead
    <2> DEFINE w == [watch[s] EXCEPT !.head = Len(chain), !.pc = pc]
    <2>2. watch' = [watch EXCEPT ![s] = w]
      BY <1>0, <2>1 DEF Watcher
    <2>3. watch[s].pc = "head" /\ UNCHANGED chainVars
      BY <1>2 DEF ReadHead
    <2>4. w \in Watcher /\ w.block = watch[s].block /\ w.head = Len(chain)
      BY <1>0 DEF Watcher
    <2>5. Len(w.block) \in 1..peak /\ w.head <= peak
      BY <1>0, <2>3, <2>4
    <2> HIDE DEF w
    <2> QED
      BY <2>2, <2>3, <2>4, <2>5, OneMoves
  <1>3. ASSUME NEW h, Assess(s, h) PROVE TypeOK'
    <2>1. PICK pc \in {"credited", "receipt"} :
            watch' = [watch EXCEPT ![s].pc = pc]
      BY <1>3 DEF Assess, Goes
    <2> DEFINE w == [watch[s] EXCEPT !.pc = pc]
    <2>2. watch' = [watch EXCEPT ![s] = w]
      BY <1>0, <2>1 DEF Watcher
    <2>3. watch[s].pc = "canonical" /\ UNCHANGED chainVars
      BY <1>3 DEF Assess
    <2>4. w \in Watcher /\ w.block = watch[s].block /\ w.head = watch[s].head
      BY <1>0 DEF Watcher
    <2> HIDE DEF w
    <2> QED
      BY <1>0, <2>2, <2>3, <2>4, OneMoves
  <1> QED
    BY <1>1, <1>2, <1>3 DEF Watch

\* Every step keeps the types.
LEMMA NextType == TypeOK /\ [Next]_vars => TypeOK'
  <1> SUFFICES ASSUME TypeOK, [Next]_vars PROVE TypeOK'
    OBVIOUS
  <1>1. CASE UNCHANGED vars
    BY <1>1 DEF vars, chainVars, TypeOK, ChainOK
  <1>2. CASE ChainMoves
    <2>1. /\ ChainOK' /\ watch' = watch /\ peak' >= peak
          /\ peak \in Nat /\ peak' \in Nat
      BY <1>2, ChainStepType DEF ChainMoves, TypeOK
    <2> QED
      BY <2>1 DEF TypeOK, Watcher
  <1> QED
    BY <1>1, <1>2, WatchType DEF Next

\* For any height of the chain and any reorganisations, a system past its
\* receipt holds a block at a height the chain has had (reorg.py:71-126).
THEOREM TypeCorrect == Spec => []TypeOK
  <1>1. Init => TypeOK
    BY InitType
  <1>2. TypeOK /\ [Next]_vars => TypeOK'
    BY NextType
  <1> QED
    BY <1>1, <1>2, PTL DEF Spec

-----------------------------------------------------------------------------
(* The gate *)

\* A final verdict is about a canonical block as deep as the policy asks.
LEMMA FinalIsSecure ==
    ASSUME TypeOK, NEW h,
           watch["gate"].pc = "canonical", Assess("gate", h),
           h \in {CanonicalHash("gate"), None},
           Credited("gate")'
    PROVE  Secure'
  <1> DEFINE w == watch["gate"]
  <1>0. /\ w \in Watcher /\ watch \in [Systems -> Watcher] /\ "gate" \in Systems
        /\ peak \in Nat /\ w.head \in Nat /\ w.head <= peak
        /\ Len(w.block) \in 1..peak /\ MinConfirmations \in Nat \ {0}
    BY GateAssumption DEF TypeOK, ChainOK, Systems, Watcher
  <1>1. AssessFinality(w.block, w.head, h, MinConfirmations).final
    BY <1>0 DEF Assess, Goes, Credited, Watcher
  <1>2. h = w.block /\ Confirmations(w.head, Len(w.block)) >= MinConfirmations
    BY <1>1 DEF AssessFinality, IsFinal
  <1>3. w.block # None
    BY <1>0, BlocksAreNotNone DEF Watcher
  <1>4. Canonical(w.block)
    BY <1>2, <1>3 DEF CanonicalHash, Canonical
  <1>5. Len(w.block) + MinConfirmations <= peak + 1
    BY <1>0, <1>2 DEF Confirmations
  <1>6. chain' = chain /\ peak' = peak /\ watch'["gate"].block = w.block
    BY <1>0 DEF Assess, Goes, chainVars, Watcher
  <1> QED
    BY <1>4, <1>5, <1>6 DEF Secure, Canonical, Reached

\* Every step keeps what is credited out of reach.
LEMMA NextSecure ==
    ASSUME MaxDepth < MinConfirmations
    PROVE  GateInv /\ [Next]_vars => GateInv'
  <1> SUFFICES ASSUME GateInv, [Next]_vars, Credited("gate")' PROVE Secure'
    BY NextType DEF GateInv
  <1>0. /\ TypeOK /\ "gate" \in Systems /\ watch \in [Systems -> Watcher]
        /\ MaxDepth \in Nat /\ MinConfirmations \in Nat
    BY GateAssumption, ChainAssumption DEF GateInv, TypeOK, Systems
  <1>1. CASE UNCHANGED vars
    BY <1>1 DEF GateInv, Credited, Secure, Canonical, Reached, vars, chainVars
  <1>2. CASE ChainMoves
    <2> DEFINE h == watch["gate"].block
    <2>1. ChainStep /\ watch' = watch /\ ChainOK
      BY <1>0, <1>2 DEF ChainMoves, TypeOK
    <2>2. /\ Canonical(h) /\ Len(h) + MinConfirmations <= peak + 1
          /\ h \in Seq(Block) /\ Len(h) \in 1..peak /\ peak \in Nat
      BY <1>0, <2>1 DEF GateInv, Secure, Credited, TypeOK, ChainOK, Watcher
    <2>3. Len(h) > 0 /\ Len(h) + MaxDepth <= peak
      BY <1>0, <2>2
    <2>4. peak' \in Nat /\ peak' >= peak
      BY <2>1, ChainStepType
    <2>5. Len(h) + MinConfirmations <= peak' + 1
      BY <1>0, <2>2, <2>4
    <2> HIDE DEF h
    <2>6. \A g \in Seq(Block) :
            Len(g) > 0 /\ Canonical(g) /\ Len(g) + MaxDepth <= peak => Canonical(g)'
      BY <2>1, DeepStays
    <2>7. /\ watch["gate"].block \in Seq(Block) /\ Len(watch["gate"].block) > 0
          /\ Canonical(watch["gate"].block)
          /\ Len(watch["gate"].block) + MaxDepth <= peak
      BY <2>2, <2>3 DEF h
    <2>8. Canonical(watch["gate"].block)'
      BY <2>1, <2>6, <2>7 DEF Canonical, Reached
    <2> QED
      BY <2>1, <2>5, <2>8 DEF Secure, h
  <1>3. ASSUME NEW s \in Systems, Watch(s), s # "gate" PROVE Secure'
    <2>1. watch'["gate"] = watch["gate"] /\ chain' = chain /\ peak' = peak
      BY <1>0, <1>3 DEF Watch, ReadReceipt, ReadHead, Assess, Goes, chainVars
    <2> QED
      BY <2>1 DEF GateInv, Credited, Secure, Canonical, Reached
  <1>4. CASE Watch("gate")
    <2>1. ~ReadHead("gate")
      BY <1>0 DEF ReadHead, Credited, Watcher
    <2>2. \A n \in 1..Len(chain) : ~ReadReceipt("gate", n)
      BY <1>0 DEF ReadReceipt, Credited, Watcher
    <2>3. PICK h \in {CanonicalHash("gate"), None} : Assess("gate", h)
      BY <1>4, <2>1, <2>2 DEF Watch
    <2>4. watch["gate"].pc = "canonical"
      BY <2>3 DEF Assess
    <2> QED
      BY <1>0, <2>3, <2>4, FinalIsSecure
  <1> QED
    BY <1>1, <1>2, <1>3, <1>4 DEF Next

\* "final is the only safe gate for crediting an order": for any number of
\* reorganisations, each reaching less deep than the confirmations asked for,
\* with or without a head that goes back, the block of a credited settlement
\* stays canonical (reorg.py:59-126).
THEOREM CreditsSurvive == Spec => []CreditSurvives
  <1>1. CASE MaxDepth < MinConfirmations
    <2>1. Init => GateInv
      <3> SUFFICES ASSUME Init PROVE GateInv
        OBVIOUS
      <3>1. TypeOK /\ ~Credited("gate")
        BY InitType DEF Init, Credited, Looking, Systems
      <3> QED
        BY <3>1 DEF GateInv
    <2>2. GateInv /\ [Next]_vars => GateInv'
      BY <1>1, NextSecure
    <2>3. GateInv => CreditSurvives
      BY DEF GateInv, Secure, CreditSurvives, Canonical, CanonicalHash
    <2> QED
      BY <2>1, <2>2, <2>3, PTL DEF Spec
  <1>2. CASE ~(MaxDepth < MinConfirmations)
    <2>1. CreditSurvives
      BY <1>2 DEF CreditSurvives
    <2> QED
      BY <2>1, PTL
  <1> QED
    BY <1>1, <1>2

-----------------------------------------------------------------------------
(***************************************************************************)
(* The grading.  On a chain where only the settlement and the token's      *)
(* admin act, the balances at the head show exactly what the settlement    *)
(* block credited: Banked says so of every block of the chain, which is    *)
(* what a reorganisation, that cuts the chain anywhere, needs.  Any other  *)
(* transfer between the two reads breaks it: the oracle compares balances, *)
(* as run_differential is given them.                                      *)
(***************************************************************************)

Quiet == Kinds \subseteq {"settle"} \cup AdminActs

\* What block b did on top of p: the settlement, or nothing.
Settles(p, b) ==
    /\ "settle" \notin b.txs => b.settle # "success"
    /\ b.settle = "success" =>
         /\ ~p.used /\ b.used /\ b.credited \in 1..Amount
         /\ b.bal["payer"] = p.bal["payer"] - Amount
         /\ b.bal["payee"] = p.bal["payee"] + b.credited
    /\ b.settle # "success" => b.used = p.used /\ b.bal = p.bal

\* What the chain has done up to block j.
Banked(c, j) ==
    /\ ~c[j].used => /\ \A i \in 1..j : c[i].settle # "success"
                     /\ c[j].bal["payer"] = c[1].bal["payer"]
                     /\ c[j].bal["payee"] = c[1].bal["payee"]
    /\ c[j].used => \E i \in 1..j : c[i].settle = "success"
    /\ \A i \in 1..j : c[i].settle = "success" =>
         /\ c[j].used /\ c[i].credited \in 1..Amount
         /\ c[j].bal["payer"] = c[1].bal["payer"] - Amount
         /\ c[j].bal["payee"] = c[1].bal["payee"] + c[i].credited

BankInv == TypeOK /\ \A j \in 1..Len(chain) : Banked(chain, j)

\* An empty block does nothing.
LEMMA ChildSettlesNothing ==
    ASSUME NEW b \in Block
    PROVE  /\ Child(b).settle = "absent" /\ Child(b).used = b.used
           /\ Child(b).bal = b.bal /\ Child(b).txs = {} /\ Settles(b, Child(b))
  <1>1. /\ Child(b).settle = "absent" /\ Child(b).used = b.used
        /\ Child(b).bal = b.bal /\ Child(b).txs = {}
    BY DEF Child, Block
  <1> QED
    BY <1>1 DEF Settles

\* A transaction that is not in the block yet settles or does nothing.
LEMMA ExecuteSettles ==
    ASSUME Quiet, NEW p \in Block, NEW b \in Block, Settles(p, b),
           NEW k \in Kinds, k \notin b.txs
    PROVE  Settles(p, Execute(b, k))
  <1> DEFINE c == Execute(b, k)
  <1> SUFFICES Settles(p, c)
    OBVIOUS
  <1>1. CASE k \in AdminActs
    <2>1. /\ c.txs = b.txs \cup {k} /\ c.bal = b.bal /\ c.used = b.used
          /\ c.credited = b.credited /\ c.settle = b.settle
      BY <1>1 DEF Execute, AdminAct, Block
    <2> QED
      BY <1>1, <2>1 DEF Settles, AdminActs
  <1>2. CASE k = "settle" /\ ~Succeeds(b, k)
    <2>1. /\ c.txs = b.txs \cup {k} /\ c.bal = b.bal /\ c.used = b.used
          /\ c.settle = "reverted"
      BY <1>2 DEF Execute, AdminActs, Transfer, Block
    <2> QED
      BY <1>2, <2>1 DEF Settles
  <1>3. CASE k = "settle" /\ Succeeds(b, k)
    <2>0. /\ b.bal \in [Accounts -> Int] /\ Net(b, k) \in 1..Amount
          /\ Value(k) = Amount /\ Amount \in Nat
      BY <1>3, ChainAssumption DEF Block, Net, Value, Authorized
    <2>1. /\ c.txs = b.txs \cup {k} /\ c.bal = Move(b.bal, k, Net(b, k))
          /\ c.used = TRUE /\ c.settle = "success" /\ c.credited = Net(b, k)
      BY <1>3 DEF Execute, AdminActs, Transfer, Block, Authorized
    <2> HIDE DEF c
    <2>2. b.bal = p.bal /\ b.used = p.used /\ ~b.used
      BY <1>3 DEF Settles, Succeeds, Authorized
    <2>3. /\ c.bal["payer"] = p.bal["payer"] - Amount
          /\ c.bal["payee"] = p.bal["payee"] + c.credited
      BY <1>3, <2>0, <2>1, <2>2 DEF Move, Transfers, Accounts
    <2> QED
      BY <1>3, <2>0, <2>1, <2>2, <2>3 DEF Settles
  <1> QED
    BY <1>1, <1>2, <1>3 DEF Quiet

\* So does every block that can follow a chain.
LEMMA NextBlocksSettle ==
    ASSUME Quiet, NEW c \in Seq(Block), Len(c) > 0, NEW b \in NextBlocks(c)
    PROVE  Settles(c[Len(c)], b)
  <1> DEFINE p     == c[Len(c)]
             empty == Child(p)
             fresh == Kinds \ MinedIn(c)
             one   == {Execute(empty, k) : k \in fresh}
  <1>1. p \in Block
    OBVIOUS
  <1>2. empty \in Block /\ empty.txs = {} /\ Settles(p, empty)
    BY <1>1, ChildTyped, ChildSettlesNothing
  <1>3. b \in {empty} \cup one
            \cup UNION {{Execute(d, k) : k \in fresh \ d.txs} : d \in one}
    BY DEF NextBlocks
  <1> HIDE DEF empty, p
  <1>4. \A d \in one : d \in Block /\ Settles(p, d)
    BY <1>1, <1>2, ExecuteTyped, ExecuteSettles
  <1>5. \A d \in one : \A k \in fresh \ d.txs : Settles(p, Execute(d, k))
    BY <1>1, <1>4, ExecuteSettles
  <1> HIDE DEF one, fresh
  <1>6. Settles(p, b)
    BY <1>2, <1>3, <1>4, <1>5
  <1> QED
    BY <1>6 DEF p

\* A chain that leaves c after block n, with one block b that may settle at
\* height m and otherwise empty blocks, shows what c did and what b did.
LEMMA BranchBanked ==
    ASSUME NEW c \in Seq(Block), NEW d \in Seq(Block), NEW n \in 1..Len(c),
           NEW m \in Nat, n < m, NEW i \in (n + 1)..Len(d), NEW b \in Block,
           Banked(c, n), Settles(c[n], b),
           \A k \in 1..n : d[k] = c[k],
           \A k \in (n + 1)..i : k = m => d[k] = b,
           \A k \in (n + 1)..i : k # m => d[k].settle # "success",
           i < m => d[i].used = c[n].used /\ d[i].bal = c[n].bal,
           i >= m => d[i].used = b.used /\ d[i].bal = b.bal
    PROVE  Banked(d, i)
  <1>0. /\ n \in Nat /\ i \in Nat /\ 1 \in 1..n /\ d[1] = c[1]
        /\ c[n] \in Block /\ c[1] \in Block
        /\ \A k \in 1..i : k \in 1..n \/ k \in (n + 1)..i
    OBVIOUS
  <1>1. CASE i < m \/ b.settle # "success"
    <2>1. d[i].used = c[n].used /\ d[i].bal = c[n].bal
      BY <1>0, <1>1 DEF Settles
    <2>2. \A k \in (n + 1)..i : d[k].settle # "success"
      BY <1>0, <1>1
    <2>3. \A k \in 1..i : d[k].settle = "success" => k \in 1..n /\ c[k] = d[k]
      BY <1>0, <2>2
    <2>4. \A k \in 1..n : k \in 1..i
      BY <1>0
    <2> QED
      BY <1>0, <2>1, <2>3, <2>4 DEF Banked
  <1>2. CASE i >= m /\ b.settle = "success"
    <2>1. /\ ~c[n].used /\ b.used /\ b.credited \in 1..Amount
          /\ d[i].used /\ d[i].bal["payer"] = c[n].bal["payer"] - Amount
          /\ d[i].bal["payee"] = c[n].bal["payee"] + b.credited
      BY <1>2 DEF Settles
    <2>2. /\ \A k \in 1..n : c[k].settle # "success"
          /\ c[n].bal["payer"] = c[1].bal["payer"]
          /\ c[n].bal["payee"] = c[1].bal["payee"]
      BY <2>1 DEF Banked
    <2>3. \A k \in 1..i : d[k].settle = "success" => d[k] = b
      BY <1>0, <2>2
    <2>4. m \in (n + 1)..i /\ m \in 1..i
      BY <1>0, <1>2
    <2>5. d[m] = b
      BY <2>4
    <2> QED
      BY <1>0, <1>2, <2>1, <2>2, <2>3, <2>4, <2>5 DEF Banked
  <1> QED
    BY <1>0, <1>1, <1>2

\* A step of the chain keeps every block's account.
LEMMA ChainBanked ==
    ASSUME Quiet, ChainOK, \A j \in 1..Len(chain) : Banked(chain, j), ChainStep
    PROVE  \A j \in 1..Len(chain') : Banked(chain', j)
  <1>0. chain \in Seq(Block) /\ Len(chain) \in Nat \ {0}
    BY DEF ChainOK
  <1>1. ASSUME NEW n \in 1..Len(chain), NEW j \in 1..n,
               \A i \in 1..n : chain'[i] = chain[i]
        PROVE  Banked(chain', j)
    <2>1. \A i \in 1..j : chain'[i] = chain[i]
      BY <1>0, <1>1
    <2>2. Banked(chain, j) /\ 1 \in 1..j /\ j \in 1..j
      BY <1>0
    <2> QED
      BY <2>1, <2>2 DEF Banked
  <1>2. CASE MineBlock
    <2> DEFINE n == Len(chain)
    <2>1. PICK b \in NextBlocks(chain) : chain' = Append(chain, b)
      BY <1>2 DEF MineBlock
    <2>2. Settles(chain[n], b) /\ b \in Block
      BY <1>0, NextBlocksSettle, NextBlocksTyped
    <2>3. /\ chain' \in Seq(Block) /\ Len(chain') = n + 1 /\ chain'[n + 1] = b
          /\ \A i \in 1..n : chain'[i] = chain[i]
      BY <1>0, <2>1, <2>2
    <2>4. Banked(chain', n + 1)
      <3> DEFINE m == n + 1
      <3>1. /\ n \in 1..Len(chain) /\ m \in Nat /\ n < m
            /\ m \in (n + 1)..Len(chain') /\ Banked(chain, n)
            /\ \A k \in (n + 1)..m : k = m
        BY <1>0, <2>3
      <3>2. chain'[m] = b
        BY <2>3
      <3> HIDE DEF n, m
      <3>3. /\ \A k \in (n + 1)..m : k = m => chain'[k] = b
            /\ \A k \in (n + 1)..m : k # m => chain'[k].settle # "success"
            /\ m < m => chain'[m].used = chain[n].used /\ chain'[m].bal = chain[n].bal
            /\ m >= m => chain'[m].used = b.used /\ chain'[m].bal = b.bal
        BY <3>1, <3>2
      <3>4. /\ chain \in Seq(Block) /\ chain' \in Seq(Block)
            /\ b \in Block /\ Settles(chain[n], b)
            /\ \A k \in 1..n : chain'[k] = chain[k]
        BY <1>0, <2>2, <2>3, Zenon
      <3>5. Banked(chain', m)
        BY <3>1, <3>3, <3>4, BranchBanked, Zenon
      <3> QED
        BY <3>5 DEF m
    <2> QED
      BY <1>0, <1>1, <2>3, <2>4
  <1>3. ASSUME NEW n \in 1..Len(chain), NEW m \in 1..Len(chain), Fork(n, m)
        PROVE  \A j \in 1..Len(chain') : Banked(chain', j)
    <2>1. PICK b \in NextBlocks(Hash(chain, n)) : chain' = Branch(n, m, b)
      BY <1>3 DEF Fork
    <2>2. /\ Hash(chain, n) \in Seq(Block) /\ Len(Hash(chain, n)) = n
          /\ Hash(chain, n)[n] = chain[n]
      BY <1>0, HashIs
    <2>0. n < m
      BY <1>3 DEF Fork
    <2>3. b \in Block /\ Settles(chain[n], b) /\ chain[n] \in Block
      BY <1>0, <2>2, NextBlocksTyped, NextBlocksSettle
    <2>4. /\ Child(chain[n]).settle = "absent"
          /\ Child(chain[n]).used = chain[n].used
          /\ Child(chain[n]).bal = chain[n].bal
          /\ Child(b).settle = "absent" /\ Child(b).used = b.used
          /\ Child(b).bal = b.bal
      BY <2>3, ChildSettlesNothing
    <2>5. /\ chain' \in Seq(Block) /\ Len(chain') = Len(chain)
          /\ \A i \in 1..n : chain'[i] = chain[i]
      BY <1>3, ForkReplaces
    <2>6. \A i \in 1..Len(chain) : chain'[i] =
            IF i <= n THEN chain[i]
            ELSE IF i < m THEN Child(chain[n])
            ELSE IF i = m THEN b ELSE Child(b)
      BY <1>0, <2>1 DEF Branch
    <2>7. ASSUME NEW i \in (n + 1)..Len(chain) PROVE Banked(chain', i)
      <3>1. \A k \in (n + 1)..i : k \in 1..Len(chain) /\ ~(k <= n)
        BY <1>0
      <3>2. \A k \in (n + 1)..i : k = m => chain'[k] = b
        BY <2>0, <2>6, <3>1
      <3>3. \A k \in (n + 1)..i : k # m => chain'[k].settle # "success"
        BY <2>4, <2>6, <3>1
      <3>4. i \in 1..Len(chain) /\ ~(i <= n) /\ m \in Nat
        BY <1>0
      <3>5. i < m => chain'[i].used = chain[n].used /\ chain'[i].bal = chain[n].bal
        BY <2>4, <2>6, <3>4
      <3>6. i >= m => chain'[i].used = b.used /\ chain'[i].bal = b.bal
        BY <2>4, <2>6, <3>4
      <3>7. /\ i \in (n + 1)..Len(chain') /\ m \in Nat /\ n < m
            /\ Banked(chain, n)
        BY <1>0, <2>0, <2>5, <3>4
      <3> QED
        BY <1>0, <2>3, <2>5, <3>2, <3>3, <3>5, <3>6, <3>7, BranchBanked, Zenon
    <2> QED
      BY <1>0, <1>1, <2>5, <2>7
  <1>4. ASSUME NEW n \in 1..Len(chain), Drop(n)
        PROVE  \A j \in 1..Len(chain') : Banked(chain', j)
    BY <1>1, <1>4, DropCuts
  <1> QED
    BY <1>2, <1>3, <1>4 DEF ChainStep

\* BankInv is inductive where only the settlement and the admin act.
LEMMA NextBanked ==
    ASSUME Quiet
    PROVE  BankInv /\ [Next]_vars => BankInv'
  <1> SUFFICES ASSUME BankInv, [Next]_vars PROVE BankInv'
    OBVIOUS
  <1>1. TypeOK'
    BY NextType DEF BankInv
  <1>2. CASE ChainMoves
    <2>1. ChainStep
      BY <1>2 DEF ChainMoves
    <2> QED
      BY <1>1, <2>1, ChainBanked DEF BankInv, TypeOK
  <1>3. CASE chain' = chain
    BY <1>1, <1>3 DEF BankInv, Banked
  <1>4. ASSUME NEW s \in Systems, Watch(s) PROVE chain' = chain
    BY <1>4 DEF Watch, ReadReceipt, ReadHead, Assess, chainVars
  <1> QED
    BY <1>2, <1>3, <1>4 DEF Next, vars, chainVars

\* The anchor block has settled nothing.
LEMMA InitBanked == Init => BankInv
  <1> SUFFICES ASSUME Init PROVE BankInv
    OBVIOUS
  <1>1. Len(chain) = 1 /\ chain[1] = Genesis
    BY DEF Init, ChainInit
  <1>2. Genesis.settle = "absent" /\ Genesis.used = FALSE
    BY DEF Genesis
  <1>3. Banked(chain, 1)
    BY <1>1, <1>2 DEF Banked
  <1> QED
    BY <1>1, <1>3, InitType DEF BankInv

\* The truth at the head is what the canonical settlement credited.
LEMMA HeadIsTrue ==
    ASSUME BankInv
    PROVE  /\ Received \in Nat
           /\ FundsMoved(HeadTruth) <=> Received > 0
           /\ Received > 0 => HeadTruth.payee_delta = Received
  <1> DEFINE n  == Len(chain)
             at == {i \in DOMAIN chain : chain[i].settle = "success"}
  <1>0. /\ chain \in Seq(Block) /\ n \in 1..n /\ DOMAIN chain = 1..n
        /\ Banked(chain, n)
    BY DEF BankInv, TypeOK, ChainOK
  <1>1. chain[1] \in Block /\ chain[n] \in Block /\ Amount \in Nat \ {0}
    BY <1>0, ChainAssumption
  <1>2. /\ chain[1].bal["payer"] \in Int /\ chain[1].bal["payee"] \in Int
        /\ chain[n].used \in BOOLEAN
    BY <1>1 DEF Block, Accounts
  <1>3. /\ HeadTruth.nonce_consumed = chain[n].used
        /\ HeadTruth.payer_delta = chain[n].bal["payer"] - chain[1].bal["payer"]
        /\ HeadTruth.payee_delta = chain[n].bal["payee"] - chain[1].bal["payee"]
    BY DEF HeadTruth, TruthFromBalances
  <1>4. CASE at = {}
    <2>1. Received = 0
      BY <1>4 DEF Received
    <2>2. ~chain[n].used
      BY <1>0, <1>4 DEF Banked
    <2> QED
      BY <1>3, <2>1, <2>2 DEF FundsMoved
  <1>5. CASE at # {}
    <2>1. PICK i \in at : Received = chain[i].credited
      BY <1>5 DEF Received
    <2>2. /\ chain[n].used /\ chain[i].credited \in 1..Amount
          /\ chain[n].bal["payer"] = chain[1].bal["payer"] - Amount
          /\ chain[n].bal["payee"] = chain[1].bal["payee"] + chain[i].credited
      BY <1>0, <2>1 DEF Banked
    <2>3. HeadTruth.payer_delta < 0 /\ HeadTruth.payee_delta = chain[i].credited
      BY <1>1, <1>2, <1>3, <2>2
    <2> QED
      BY <1>1, <1>3, <2>1, <2>2, <2>3 DEF FundsMoved
  <1> QED
    BY <1>4, <1>5

\* The grading names exactly the systems whose belief loses money, on every
\* branch a reorganisation makes canonical: phantom and short credits of those
\* that booked, lost settlements of those that did not, and for a metered
\* payment more than the cap (differential.py:36-64, divergence.py:58-200).
THEOREM GradingIsTrue ==
    ASSUME Quiet
    PROVE  Spec => []GradesAreTrue
  <1>1. BankInv => GradesAreTrue
    <2> SUFFICES ASSUME BankInv PROVE GradesAreTrue
      OBVIOUS
    <2> DEFINE fails(s) == IF Credited(s) THEN Received = 0 \/ Short
                           ELSE Received > 0
    <2>0. /\ Received \in Nat /\ AuthorizedMax \in Nat
          /\ Required # None => Required \in Nat
          /\ FundsMoved(HeadTruth) <=> Received > 0
          /\ Received > 0 => HeadTruth.payee_delta = Received
      BY HeadIsTrue, GateAssumption
    <2>1. ASSUME NEW s \in Systems
          PROVE  /\ Beliefs[s] = Credited(s)
                 /\ IsFailure(DetectPaymentDivergence(HeadTruth, Beliefs[s],
                                                      Required)) <=> fails(s)
                 /\ IsFailure(Metered(s)) <=>
                      IF Credited(s) THEN Received \notin 1..AuthorizedMax
                      ELSE Received > 0
      <3>1. Beliefs[s] = Credited(s)
        BY DEF Beliefs, Credited
      <3>2. CASE Credited(s)
        BY <2>0, <3>1, <3>2 DEF IsFailure, DetectPaymentDivergence, Belief,
           Metered, DetectMeteredDivergence, Short
      <3>3. CASE ~Credited(s)
        BY <2>0, <3>1, <3>3 DEF IsFailure, DetectPaymentDivergence, Belief,
           Metered, DetectMeteredDivergence
      <3> QED
        BY <3>1, <3>2, <3>3
    <2>2. DOMAIN Beliefs = Systems
      BY DEF Beliefs
    <2>3. Grades.failing = {s \in Systems : fails(s)}
      BY <2>1, <2>2 DEF Grades, RunDifferential
    <2>4. Grades.disagree => \E s, t \in Systems : Credited(s) /\ ~Credited(t)
      BY <2>1, <2>2 DEF Grades, RunDifferential, Credited
    <2>5. Grades.disagree => Grades.failing # {}
      BY <2>0, <2>3, <2>4
    <2> QED
      BY <2>1, <2>3, <2>5 DEF GradesAreTrue
  <1> QED
    BY <1>1, InitBanked, NextBanked, PTL DEF Spec

=============================================================================
