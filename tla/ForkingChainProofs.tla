------------------------- MODULE ForkingChainProofs -------------------------
(***************************************************************************)
(* Lemmas about the chain every observer shares: its types, its hashes,    *)
(* and what becomes of a block hash that an observer holds.                *)
(***************************************************************************)
EXTENDS ForkingChain, SequenceTheorems, TLAPS

-----------------------------------------------------------------------------
(* Blocks and hashes *)

\* A block whose fields are replaced by well typed ones is a block.
LEMMA BlockWith ==
    ASSUME NEW b \in Block, NEW bal \in [Accounts -> Int], NEW used \in BOOLEAN,
           NEW txs \in SUBSET Kinds, NEW logs \in SUBSET Kinds,
           NEW settle \in {"absent", "reverted", "success"}, NEW credited \in Int
    PROVE  /\ [b EXCEPT !.bal = bal, !.used = used, !.txs = txs, !.logs = logs,
                        !.settle = settle, !.credited = credited] \in Block
           /\ [b EXCEPT !.txs = txs, !.settle = settle] \in Block
           /\ [b EXCEPT !.txs = txs, !.logs = logs, !.settle = settle,
                        !.credited = credited] \in Block
  BY DEF Block

\* Executing a token transfer on top of a block gives a block.
LEMMA TransferTyped ==
    ASSUME NEW b \in Block, NEW k \in Kinds, k \in DOMAIN Transfers
    PROVE  Transfer(b, k) \in Block
  <1> DEFINE used     == IF k \in Authorized THEN TRUE ELSE b.used
             success  == IF k = "settle" THEN "success" ELSE b.settle
             reverted == IF k = "settle" THEN "reverted" ELSE b.settle
             credited == IF k = "settle" THEN Net(b, k) ELSE b.credited
             bal      == Move(b.bal, k, Net(b, k))
             txs      == b.txs \cup {k}
             logs     == b.logs \cup {k}
  <1>1. Transfers[k][1] \in Accounts /\ Transfers[k][2] \in Accounts
    BY DEF Transfers, Accounts
  <1>2. Value(k) \in Int /\ Net(b, k) \in Int
    BY ChainAssumption DEF Value, Net
  <1>3. b.bal \in [Accounts -> Int]
    BY DEF Block
  <1>4. bal \in [Accounts -> Int]
    BY <1>1, <1>2, <1>3 DEF Move
  <1>5. used \in BOOLEAN
    BY Zenon DEF Block
  <1>6. /\ txs \in SUBSET Kinds /\ logs \in SUBSET Kinds
        /\ success \in {"absent", "reverted", "success"}
        /\ reverted \in {"absent", "reverted", "success"}
        /\ credited \in Int
    BY <1>2 DEF Block
  <1>7. Transfer(b, k) =
          IF Succeeds(b, k)
          THEN [b EXCEPT !.bal = bal, !.used = used, !.txs = txs, !.logs = logs,
                         !.settle = success, !.credited = credited]
          ELSE [b EXCEPT !.txs = txs, !.settle = reverted]
    BY Zenon DEF Transfer
  <1> HIDE DEF used, success, reverted, credited, bal, txs, logs
  <1>8. [b EXCEPT !.bal = bal, !.used = used, !.txs = txs, !.logs = logs,
                  !.settle = success, !.credited = credited] \in Block
    BY <1>4, <1>5, <1>6, BlockWith, ZenonT(60)
  <1>9. [b EXCEPT !.txs = txs, !.settle = reverted] \in Block
    BY <1>4, <1>5, <1>6, BlockWith, Zenon
  <1> QED
    BY <1>7, <1>8, <1>9, Zenon

\* Executing any transaction on top of a block gives a block.
LEMMA ExecuteTyped ==
    ASSUME NEW b \in Block, NEW k \in Kinds
    PROVE  Execute(b, k) \in Block
  <1>1. CASE k \in AdminActs
    <2> DEFINE txs      == b.txs \cup {k}
               fee      == b.fee \/ k = "fee"
               code     == b.code /\ k # "redeploy"
               slot     == (b.slot \/ k = "rollback") /\ k # "upgrade"
               implCode == b.implCode /\ k # "patch"
    <2>1. Execute(b, k) = [b EXCEPT !.txs = txs, !.fee = fee, !.code = code,
                                    !.slot = slot, !.implCode = implCode]
      BY <1>1, Zenon DEF Execute, AdminAct
    <2>2. txs \in SUBSET Kinds
      BY DEF Block
    <2>3. {fee, code, slot, implCode} \subseteq BOOLEAN
      BY Zenon
    <2> HIDE DEF txs, fee, code, slot, implCode
    <2> QED
      BY <2>1, <2>2, <2>3 DEF Block
  <1>2. CASE k \notin AdminActs
    BY <1>2, TransferTyped, KindsAssumption DEF Execute
  <1> QED
    BY <1>1, <1>2

\* An empty block on top of a block is a block.
LEMMA ChildTyped ==
    ASSUME NEW b \in Block
    PROVE  Child(b) \in Block
  <1>1. /\ b.bal \in [Accounts -> Int] /\ b.used \in BOOLEAN
        /\ {} \in SUBSET Kinds /\ 0 \in Int
        /\ "absent" \in {"absent", "reverted", "success"}
    BY DEF Block
  <1> QED
    BY <1>1, BlockWith DEF Child

\* Whatever can follow a chain is a block.
LEMMA NextBlocksTyped ==
    ASSUME NEW c \in Seq(Block), Len(c) > 0
    PROVE  NextBlocks(c) \subseteq Block
  <1>1. c[Len(c)] \in Block
    OBVIOUS
  <1>2. Child(c[Len(c)]) \in Block
    BY <1>1, ChildTyped
  <1>3. \A b \in Block, k \in Kinds : Execute(b, k) \in Block
    BY ExecuteTyped
  <1> QED
    BY <1>2, <1>3 DEF NextBlocks

\* A hash is a sequence of blocks that agrees with its chain.
LEMMA HashIs ==
    ASSUME NEW c \in Seq(Block), NEW n \in 1..Len(c)
    PROVE  /\ Hash(c, n) \in Seq(Block)
           /\ Len(Hash(c, n)) = n
           /\ \A i \in 1..n : Hash(c, n)[i] = c[i]
  BY DEF Hash

\* Chains that agree up to n have the same hash there.
LEMMA SameHash ==
    ASSUME NEW c \in Seq(Block), NEW d \in Seq(Block), NEW n \in 1..Len(c),
           n <= Len(d), \A i \in 1..n : c[i] = d[i]
    PROVE  Hash(c, n) = Hash(d, n)
  <1>1. n \in 1..Len(d)
    OBVIOUS
  <1>2. Len(Hash(c, n)) = n /\ Len(Hash(d, n)) = n
    BY <1>1, HashIs
  <1>3. \A i \in 1..n : Hash(c, n)[i] = Hash(d, n)[i]
    BY <1>1, HashIs
  <1>4. Hash(c, n) \in Seq(Block) /\ Hash(d, n) \in Seq(Block)
    BY <1>1, HashIs
  <1> QED
    BY <1>2, <1>3, <1>4, SeqEqual

-----------------------------------------------------------------------------
(* Steps *)

\* A mined block extends the chain and leaves the rest of it alone.
LEMMA MineGrows ==
    ASSUME ChainOK, MineBlock
    PROVE  /\ chain' \in Seq(Block) /\ Len(chain') = Len(chain) + 1
           /\ \A i \in 1..Len(chain) : chain'[i] = chain[i]
           /\ Len(chain) \in Nat \ {0}
  <1>1. chain \in Seq(Block) /\ Len(chain) \in Nat \ {0}
    BY DEF ChainOK
  <1>2. PICK b \in NextBlocks(chain) : chain' = Append(chain, b)
    BY DEF MineBlock
  <1>3. b \in Block
    BY <1>1, <1>2, NextBlocksTyped
  <1> QED
    BY <1>1, <1>2, <1>3

\* A reorganisation replaces the blocks after n by as many.
LEMMA ForkReplaces ==
    ASSUME ChainOK, NEW n \in 1..Len(chain), NEW m \in 1..Len(chain), Fork(n, m)
    PROVE  /\ chain' \in Seq(Block) /\ Len(chain') = Len(chain)
           /\ \A i \in 1..n : chain'[i] = chain[i]
           /\ Len(chain) \in Nat \ {0}
           /\ \A k \in (n + 1)..Len(chain) : Hash(chain', k) # Hash(chain, k)
           /\ Flips \/ \A k \in (n + 1)..Len(chain) :
                          Hash(chain', k) \notin abandoned
  <1>1. chain \in Seq(Block) /\ Len(chain) \in Nat \ {0}
    BY DEF ChainOK
  <1>2. Hash(chain, n) \in Seq(Block) /\ Len(Hash(chain, n)) > 0
    BY <1>1, HashIs
  <1>3. PICK b \in NextBlocks(Hash(chain, n)) :
          /\ chain' = Branch(n, m, b)
          /\ \A k \in (n + 1)..Len(chain) :
               Hash(Branch(n, m, b), k) # Hash(chain, k)
          /\ Flips \/ \A k \in (n + 1)..Len(chain) :
                         Hash(Branch(n, m, b), k) \notin abandoned
    BY DEF Fork
  <1>4. b \in Block
    BY <1>2, <1>3, NextBlocksTyped
  <1>5. Child(b) \in Block /\ Child(chain[n]) \in Block
    BY <1>1, <1>4, ChildTyped
  <1>6. chain' = [i \in 1..Len(chain) |->
                    IF i <= n THEN chain[i]
                    ELSE IF i < m THEN Child(chain[n])
                    ELSE IF i = m THEN b ELSE Child(b)]
    BY <1>3 DEF Branch
  <1>7. \A i \in 1..Len(chain) : chain'[i] \in Block
    BY <1>1, <1>4, <1>5, <1>6
  <1>8. chain' \in Seq(Block) /\ Len(chain') = Len(chain)
    BY <1>1, <1>6, <1>7
  <1> QED
    BY <1>1, <1>3, <1>6, <1>8

\* A reorganisation whose new blocks are still to come leaves the first n.
LEMMA DropCuts ==
    ASSUME ChainOK, NEW n \in 1..Len(chain), Drop(n)
    PROVE  /\ chain' \in Seq(Block) /\ Len(chain') = n /\ n < Len(chain)
           /\ \A i \in 1..n : chain'[i] = chain[i]
           /\ Len(chain) \in Nat \ {0}
  <1>1. chain \in Seq(Block) /\ Len(chain) \in Nat \ {0}
    BY DEF ChainOK
  <1>2. chain' = Hash(chain, n) /\ n < Len(chain)
    BY DEF Drop, Cut
  <1> QED
    BY <1>1, <1>2, HashIs

\* The first block is a block.
LEMMA GenesisTyped == Genesis \in Block /\ Genesis.txs = {}
  <1>1. [a \in Accounts |-> IF a = "third" THEN 2 * Side ELSE Funds]
          \in [Accounts -> Int]
    BY ChainAssumption
  <1> QED
    BY <1>1 DEF Genesis, Block

\* The chain starts well typed.
LEMMA ChainInitType == ChainInit => ChainOK /\ chain[1].txs = {} /\ abandoned = {}
  BY GenesisTyped DEF ChainInit, ChainOK

\* A step of the chain keeps the types and the anchor block, and the peak does
\* not go down.
LEMMA ChainStepType ==
    ASSUME ChainOK, ChainStep
    PROVE  /\ ChainOK' /\ chain'[1] = chain[1]
           /\ peak \in Nat /\ peak' \in Nat /\ peak' >= peak
           /\ Len(chain) \in 1..peak /\ Len(chain') \in 1..peak'
  <1>0. /\ chain \in Seq(Block) /\ abandoned \subseteq Seq(Block)
        /\ reorgs \in Nat /\ peak \in Nat /\ Len(chain) \in Nat \ {0}
        /\ Len(chain) <= peak
    BY DEF ChainOK
  <1>1. CASE MineBlock
    <2>1. /\ chain' \in Seq(Block) /\ Len(chain') = Len(chain) + 1
          /\ chain'[1] = chain[1]
      BY <1>0, <1>1, MineGrows
    <2>2. /\ peak' = IF Len(chain') > peak THEN Len(chain') ELSE peak
          /\ abandoned' = abandoned /\ reorgs' = reorgs
      BY <1>1 DEF MineBlock
    <2>3. peak' \in Nat /\ peak' >= peak /\ Len(chain') <= peak'
      BY <1>0, <2>1, <2>2
    <2> QED
      BY <1>0, <2>1, <2>2, <2>3 DEF ChainOK
  <1>2. ASSUME NEW n \in 1..Len(chain), Cut(n), chain' \in Seq(Block),
               Len(chain') \in 1..Len(chain), chain'[1] = chain[1]
        PROVE  /\ ChainOK' /\ peak' = peak
    <2>1. \A k \in (n + 1)..Len(chain) : Hash(chain, k) \in Seq(Block)
      BY <1>0, HashIs
    <2>2. abandoned' \subseteq Seq(Block) /\ reorgs' \in Nat /\ peak' = peak
      BY <1>0, <1>2, <2>1 DEF Cut
    <2>3. chain' # <<>> /\ Len(chain') <= peak
      BY <1>0, <1>2
    <2> QED
      BY <1>0, <1>2, <2>2, <2>3 DEF ChainOK
  <1>3. ASSUME NEW n \in 1..Len(chain), Drop(n)
        PROVE  /\ ChainOK' /\ peak' = peak /\ Len(chain') \in 1..Len(chain)
               /\ chain'[1] = chain[1]
    <2>1. /\ chain' \in Seq(Block) /\ Len(chain') \in 1..Len(chain)
          /\ chain'[1] = chain[1] /\ Cut(n)
      BY <1>0, <1>3, DropCuts DEF Drop
    <2> QED
      BY <1>2, <2>1
  <1>4. ASSUME NEW n \in 1..Len(chain), NEW m \in 1..Len(chain), Fork(n, m)
        PROVE  /\ ChainOK' /\ peak' = peak /\ Len(chain') \in 1..Len(chain)
               /\ chain'[1] = chain[1]
    <2>1. /\ chain' \in Seq(Block) /\ Len(chain') \in 1..Len(chain)
          /\ chain'[1] = chain[1] /\ Cut(n)
      BY <1>0, <1>4, ForkReplaces DEF Fork
    <2> QED
      BY <1>2, <2>1
  <1>5. CASE ~MineBlock
    <2>1. /\ ChainOK' /\ peak' = peak /\ Len(chain') \in 1..Len(chain)
          /\ chain'[1] = chain[1]
      BY <1>3, <1>4, <1>5 DEF ChainStep
    <2> QED
      BY <1>0, <2>1
  <1> QED
    BY <1>1, <1>5

\* A canonical block below the reach of reorganisations stays canonical.
LEMMA DeepStays ==
    ASSUME ChainOK, ChainStep, NEW h \in Seq(Block), Len(h) > 0, Canonical(h),
           Len(h) + MaxDepth <= peak
    PROVE  Canonical(h)'
  <1> DEFINE i == Len(h)
  <1>0. /\ chain \in Seq(Block) /\ Len(chain) \in Nat \ {0} /\ peak \in Nat
        /\ i \in 1..Len(chain) /\ Hash(chain, i) = h /\ MaxDepth \in Nat
    BY ChainAssumption DEF ChainOK, Canonical, Reached
  <1>1. chain' \in Seq(Block)
    BY ChainStepType DEF ChainOK
  <1>2. i <= Len(chain') /\ \A j \in 1..i : chain'[j] = chain[j]
    <2>1. CASE MineBlock
      BY <1>0, <2>1, MineGrows
    <2>2. ASSUME NEW n \in 1..Len(chain), Cut(n)
          PROVE  i <= n
      BY <1>0, <2>2 DEF Cut
    <2>3. ASSUME NEW n \in 1..Len(chain), Drop(n)
          PROVE  i <= Len(chain') /\ \A j \in 1..i : chain'[j] = chain[j]
      <3>1. i <= n
        BY <2>2, <2>3 DEF Drop
      <3> QED
        BY <1>0, <2>3, <3>1, DropCuts
    <2>4. ASSUME NEW n \in 1..Len(chain), NEW m \in 1..Len(chain), Fork(n, m)
          PROVE  i <= Len(chain') /\ \A j \in 1..i : chain'[j] = chain[j]
      <3>1. i <= n
        BY <2>2, <2>4 DEF Fork
      <3> QED
        BY <1>0, <2>4, <3>1, ForkReplaces
    <2> QED
      BY <2>1, <2>3, <2>4 DEF ChainStep
  <1>3. Hash(chain', i) = Hash(chain, i)
    BY <1>0, <1>1, <1>2, SameHash
  <1> QED
    BY <1>0, <1>2, <1>3 DEF Canonical, Reached

\* Hashes of canonical blocks have not been abandoned.
Fresh == \A k \in 1..Len(chain) : Hash(chain, k) \notin abandoned

\* The block with this hash is canonical or abandoned for good.
Tracked(h) == Canonical(h) \/ h \in abandoned

\* The chain is cut after block n and goes on, or not, with blocks that were
\* never abandoned.
LEMMA CutFresh ==
    ASSUME ~Flips, ChainOK, Fresh, NEW n \in 1..Len(chain), Cut(n),
           chain' \in Seq(Block), Len(chain') \in n..Len(chain),
           \A i \in 1..n : chain'[i] = chain[i],
           \A k \in (n + 1)..Len(chain') :
             Hash(chain', k) # Hash(chain, k) /\ Hash(chain', k) \notin abandoned
    PROVE  /\ Fresh' /\ abandoned \subseteq abandoned'
           /\ \A h \in Seq(Block) : Len(h) > 0 /\ Tracked(h) => Tracked(h)'
  <1>1. chain \in Seq(Block) /\ Len(chain) \in Nat \ {0}
    BY DEF ChainOK
  <1> DEFINE dropped == {Hash(chain, k) : k \in (n + 1)..Len(chain)}
  <1>2. abandoned' = abandoned \cup dropped
    BY DEF Cut
  <1>3. \A k \in 1..n : Hash(chain', k) = Hash(chain, k)
    BY <1>1, SameHash
  <1>4. /\ \A k \in 1..Len(chain) : Len(Hash(chain, k)) = k
        /\ \A k \in 1..Len(chain') : Len(Hash(chain', k)) = k
    BY <1>1, HashIs
  <1>5. \A k \in 1..Len(chain') : Hash(chain', k) \notin abandoned'
    <2> TAKE k \in 1..Len(chain')
    <2>1. CASE k \in 1..n
      <3>1. Hash(chain', k) \notin abandoned
        BY <1>1, <1>3, <2>1 DEF Fresh
      <3>2. Hash(chain', k) \notin dropped
        BY <1>1, <1>4, <2>1
      <3> QED
        BY <1>2, <3>1, <3>2
    <2>2. CASE k \in (n + 1)..Len(chain')
      <3>1. Hash(chain', k) \notin dropped
        BY <1>1, <1>4, <2>2
      <3> QED
        BY <1>2, <2>2, <3>1
    <2> QED
      BY <1>1, <2>1, <2>2
  <1>6. ASSUME NEW h \in Seq(Block), Len(h) > 0, Tracked(h)
        PROVE  Tracked(h)'
    <2>1. CASE h \in abandoned
      BY <1>2, <2>1 DEF Tracked
    <2>2. CASE h \notin abandoned /\ Len(h) <= n
      <3>1. Len(h) \in 1..n /\ Hash(chain, Len(h)) = h
        BY <1>6, <2>2 DEF Tracked, Canonical
      <3>2. Hash(chain', Len(h)) = h /\ Len(h) <= Len(chain')
        BY <1>1, <1>3, <3>1
      <3> QED
        BY <3>2 DEF Tracked, Canonical, Reached
    <2>3. CASE h \notin abandoned /\ ~(Len(h) <= n)
      <3>1. Len(h) \in (n + 1)..Len(chain) /\ Hash(chain, Len(h)) = h
        BY <1>1, <1>6, <2>3 DEF Tracked, Canonical, Reached
      <3> QED
        BY <1>2, <3>1 DEF Tracked
    <2> QED
      BY <2>1, <2>2, <2>3
  <1> QED
    BY <1>2, <1>5, <1>6 DEF Fresh

\* If no block comes back, a step of the chain leaves every hash canonical or
\* abandons it.
LEMMA ChainStepFresh ==
    ASSUME ~Flips, ChainOK, Fresh, ChainStep
    PROVE  /\ Fresh' /\ abandoned \subseteq abandoned'
           /\ \A h \in Seq(Block) : Len(h) > 0 /\ Tracked(h) => Tracked(h)'
  <1>1. CASE MineBlock
    <2>1. /\ chain \in Seq(Block) /\ chain' \in Seq(Block)
          /\ Len(chain') = Len(chain) + 1 /\ Len(chain) \in Nat \ {0}
          /\ \A i \in 1..Len(chain) : chain'[i] = chain[i]
      BY <1>1, MineGrows DEF ChainOK
    <2>2. abandoned' = abandoned /\ chain' \notin abandoned
      BY <1>1 DEF MineBlock
    <2>3. \A k \in 1..Len(chain) : Hash(chain', k) = Hash(chain, k)
      BY <2>1, SameHash
    <2>4. Hash(chain', Len(chain')) = chain'
      <3>1. /\ Hash(chain', Len(chain')) \in Seq(Block)
            /\ Len(Hash(chain', Len(chain'))) = Len(chain')
            /\ \A i \in 1..Len(chain') : Hash(chain', Len(chain'))[i] = chain'[i]
        BY <2>1, HashIs
      <3> QED
        BY <2>1, <3>1, SeqEqual
    <2>5. Fresh'
      <3> SUFFICES ASSUME NEW k \in 1..Len(chain')
                   PROVE  Hash(chain', k) \notin abandoned
        BY <2>2 DEF Fresh
      <3>1. CASE k \in 1..Len(chain)
        BY <2>3, <3>1 DEF Fresh
      <3>2. CASE k = Len(chain')
        BY <2>2, <2>4, <3>2
      <3> QED
        BY <2>1, <3>1, <3>2
    <2>6. ASSUME NEW h \in Seq(Block), Len(h) > 0, Tracked(h)
          PROVE  Tracked(h)'
      <3>1. CASE Canonical(h)
        <4>1. Len(h) \in 1..Len(chain) /\ Hash(chain, Len(h)) = h
          BY <2>1, <2>6, <3>1 DEF Canonical, Reached
        <4>2. Len(h) <= Len(chain') /\ Hash(chain', Len(h)) = h
          BY <2>1, <2>3, <4>1
        <4> QED
          BY <4>2 DEF Tracked, Canonical, Reached
      <3>2. CASE h \in abandoned
        BY <2>2, <3>2 DEF Tracked
      <3> QED
        BY <2>6, <3>1, <3>2 DEF Tracked
    <2> QED
      BY <2>2, <2>5, <2>6
  <1>2. ASSUME NEW n \in 1..Len(chain), NEW m \in 1..Len(chain), Fork(n, m)
        PROVE  /\ Fresh' /\ abandoned \subseteq abandoned'
               /\ \A h \in Seq(Block) : Len(h) > 0 /\ Tracked(h) => Tracked(h)'
    <2>1. /\ chain' \in Seq(Block)
          /\ Len(chain') = Len(chain) /\ Len(chain) \in Nat \ {0}
          /\ \A i \in 1..n : chain'[i] = chain[i]
          /\ \A k \in (n + 1)..Len(chain) :
               Hash(chain', k) # Hash(chain, k) /\ Hash(chain', k) \notin abandoned
          /\ Cut(n)
      BY <1>2, ForkReplaces DEF Fork
    <2> QED
      BY <2>1, CutFresh
  <1>3. ASSUME NEW n \in 1..Len(chain), Drop(n)
        PROVE  /\ Fresh' /\ abandoned \subseteq abandoned'
               /\ \A h \in Seq(Block) : Len(h) > 0 /\ Tracked(h) => Tracked(h)'
    <2>1. /\ chain' \in Seq(Block) /\ Len(chain') = n
          /\ Len(chain) \in Nat \ {0} /\ Cut(n)
          /\ \A i \in 1..n : chain'[i] = chain[i]
      BY <1>3, DropCuts DEF Drop
    <2> QED
      BY <2>1, CutFresh
  <1> QED
    BY <1>1, <1>2, <1>3 DEF ChainStep

-----------------------------------------------------------------------------
(* What a block did to the payee *)

\* On top of p, block b credits the payee what its settlement did, unless it
\* logs another transfer to or from the payee.
Attributed(p, b) ==
    /\ "settle" \notin b.txs => b.credited = 0
    /\ b.logs \cap {"gift", "replay", "sweep"} = {} =>
         b.bal["payee"] = p.bal["payee"] + b.credited

ChainAttributed(c) == \A i \in 2..Len(c) : Attributed(c[i - 1], c[i])

\* An empty block moves nothing, and has its parent's balances.
LEMMA ChildMovesNothing ==
    ASSUME NEW b \in Block, NEW p, p.bal = b.bal
    PROVE  /\ Child(b).bal = b.bal /\ Child(b).txs = {}
           /\ Attributed(p, Child(b))
  <1>1. /\ Child(b).bal = b.bal /\ Child(b).txs = {} /\ Child(b).credited = 0
        /\ b.bal["payee"] \in Int
    BY DEF Child, Block, Accounts
  <1> QED
    BY <1>1 DEF Attributed

\* A token transfer keeps the payee's change attributed.
LEMMA TransferAttributed ==
    ASSUME NEW p, p.bal["payee"] \in Int, NEW b \in Block, Attributed(p, b),
           NEW k \in DOMAIN Transfers, k \notin b.txs
    PROVE  Attributed(p, Transfer(b, k))
  <1> DEFINE c == Transfer(b, k)
  <1> SUFFICES Attributed(p, c)
    OBVIOUS
  <1>0. /\ b.bal \in [Accounts -> Int] /\ Net(b, k) \in Int /\ Value(k) \in Int
    BY ChainAssumption DEF Block, Net, Value
  <1>1. CASE ~Succeeds(b, k)
    <2>1. /\ c.txs = b.txs \cup {k} /\ c.logs = b.logs /\ c.bal = b.bal
          /\ c.credited = b.credited
      BY <1>1 DEF Transfer, Block
    <2> QED
      BY <2>1 DEF Attributed
  <1>2. CASE Succeeds(b, k)
    <2>1. /\ c.txs = b.txs \cup {k} /\ c.logs = b.logs \cup {k}
          /\ c.bal = Move(b.bal, k, Net(b, k))
          /\ c.credited = IF k = "settle" THEN Net(b, k) ELSE b.credited
      BY <1>2 DEF Transfer, Block
    <2> HIDE DEF c
    <2>2. CASE k = "settle"
      <3>1. c.bal["payee"] = b.bal["payee"] + Net(b, k)
        BY <1>0, <2>1, <2>2 DEF Move, Transfers, Accounts
      <3>2. /\ b.credited = 0 /\ b.bal["payee"] \in Int
            /\ c.credited = Net(b, k) /\ "settle" \in c.txs
        BY <1>0, <2>1, <2>2 DEF Attributed, Accounts
      <3>3. c.logs \cap {"gift", "replay", "sweep"} = {} =>
              b.bal["payee"] = p.bal["payee"] + 0
        BY <2>1, <3>2 DEF Attributed
      <3>4. c.logs \cap {"gift", "replay", "sweep"} = {} =>
              c.bal["payee"] = p.bal["payee"] + c.credited
        BY <1>0, <3>1, <3>2, <3>3
      <3> QED
        BY <3>2, <3>4 DEF Attributed
    <2>3. CASE k \in {"gift", "replay", "sweep"}
      BY <2>1, <2>3 DEF Attributed
    <2>4. CASE k \in {"spend", "topUp"}
      <3>1. c.bal["payee"] = b.bal["payee"]
        BY <1>0, <2>1, <2>4 DEF Move, Transfers, Accounts
      <3> QED
        BY <2>1, <2>4, <3>1 DEF Attributed
    <2>5. k \in {"settle", "gift", "replay", "sweep", "spend", "topUp"}
      BY DEF Transfers
    <2> QED
      BY <2>2, <2>3, <2>4, <2>5
  <1> QED
    BY <1>1, <1>2

\* Any transaction that is not in the block yet keeps it.
LEMMA ExecuteAttributed ==
    ASSUME NEW p, p.bal["payee"] \in Int, NEW b \in Block, Attributed(p, b),
           NEW k \in Kinds, k \notin b.txs
    PROVE  Attributed(p, Execute(b, k))
  <1>1. CASE k \in AdminActs
    <2>1. /\ Execute(b, k).txs = b.txs \cup {k} /\ Execute(b, k).logs = b.logs
          /\ Execute(b, k).bal = b.bal /\ Execute(b, k).credited = b.credited
      BY <1>1 DEF Execute, AdminAct, Block
    <2> QED
      BY <1>1, <2>1 DEF Attributed, AdminActs
  <1>2. CASE k \notin AdminActs
    BY <1>2, TransferAttributed, KindsAssumption DEF Execute
  <1> QED
    BY <1>1, <1>2

\* Whatever can follow a chain attributes what it credits.
LEMMA NextBlocksAttributed ==
    ASSUME NEW c \in Seq(Block), Len(c) > 0, NEW b \in NextBlocks(c), NEW p,
           p.bal = c[Len(c)].bal
    PROVE  Attributed(p, b)
  <1> DEFINE empty == Child(c[Len(c)])
             fresh == Kinds \ MinedIn(c)
             one   == {Execute(empty, k) : k \in fresh}
  <1>1. c[Len(c)] \in Block
    OBVIOUS
  <1>0. p.bal["payee"] \in Int
    BY <1>1 DEF Block, Accounts
  <1>2. empty \in Block /\ empty.txs = {} /\ Attributed(p, empty)
    BY <1>1, ChildTyped, ChildMovesNothing
  <1> HIDE DEF empty
  <1>3. \A d \in one : d \in Block /\ Attributed(p, d)
    BY <1>0, <1>2, ExecuteTyped, ExecuteAttributed
  <1>4. \A d \in one : \A k \in fresh \ d.txs : Attributed(p, Execute(d, k))
    BY <1>0, <1>3, ExecuteAttributed
  <1>5. b \in {empty} \cup one \cup UNION {{Execute(d, k) : k \in fresh \ d.txs} : d \in one}
    BY DEF NextBlocks, empty
  <1> HIDE DEF one, fresh
  <1> QED
    BY <1>2, <1>3, <1>4, <1>5

\* Every block of the chain does, on every branch.
LEMMA ChainStepAttributed ==
    ASSUME ChainOK, ChainAttributed(chain), ChainStep
    PROVE  ChainAttributed(chain')
  <1>0. chain \in Seq(Block) /\ Len(chain) \in Nat \ {0}
    BY DEF ChainOK
  <1>1. CASE MineBlock
    <2>1. PICK b \in NextBlocks(chain) : chain' = Append(chain, b)
      BY <1>1 DEF MineBlock
    <2>2. Attributed(chain[Len(chain)], b)
      BY <1>0, NextBlocksAttributed
    <2>3. /\ Len(chain') = Len(chain) + 1 /\ chain'[Len(chain) + 1] = b
          /\ \A i \in 1..Len(chain) : chain'[i] = chain[i]
      BY <1>0, <2>1
    <2>4. ASSUME NEW i \in 2..Len(chain')
          PROVE  Attributed(chain'[i - 1], chain'[i])
      <3>1. CASE i = Len(chain) + 1
        BY <1>0, <2>2, <2>3, <3>1
      <3>2. CASE i \in 2..Len(chain)
        BY <1>0, <2>3, <3>2 DEF ChainAttributed
      <3> QED
        BY <1>0, <2>3, <3>1, <3>2
    <2> QED
      BY <2>4 DEF ChainAttributed
  <1>2. ASSUME NEW n \in 1..Len(chain), NEW m \in 1..Len(chain), Fork(n, m)
        PROVE  ChainAttributed(chain')
    <2>1. PICK b \in NextBlocks(Hash(chain, n)) : chain' = Branch(n, m, b)
      BY <1>2 DEF Fork
    <2>2. /\ Hash(chain, n) \in Seq(Block) /\ Len(Hash(chain, n)) = n
          /\ Hash(chain, n)[n] = chain[n]
      BY <1>0, HashIs
    <2>3. b \in Block /\ chain[n] \in Block
      BY <1>0, <2>2, NextBlocksTyped
    <2>4. \A p : p.bal = chain[n].bal =>
                   Attributed(p, b) /\ Attributed(p, Child(chain[n]))
      BY <2>2, <2>3, NextBlocksAttributed, ChildMovesNothing
    <2>5. \A p : p.bal = b.bal => Attributed(p, Child(b))
      BY <2>3, ChildMovesNothing
    <2>6. Child(chain[n]).bal = chain[n].bal /\ Child(b).bal = b.bal
      BY <2>3, ChildMovesNothing
    <2>7. n < m
      BY <1>2 DEF Fork
    <2>8. /\ Len(chain') = Len(chain)
          /\ \A i \in 1..Len(chain) : chain'[i] =
               IF i <= n THEN chain[i]
               ELSE IF i < m THEN Child(chain[n])
               ELSE IF i = m THEN b ELSE Child(b)
      BY <1>0, <2>1 DEF Branch
    <2>9. ASSUME NEW i \in 2..Len(chain)
          PROVE  Attributed(chain'[i - 1], chain'[i])
      <3>1. i - 1 \in 1..Len(chain) /\ i \in 1..Len(chain)
        BY <1>0
      <3>2. CASE i <= n
        BY <2>8, <3>1, <3>2 DEF ChainAttributed
      <3>3. CASE i > n /\ i <= m
        <4>1. chain'[i - 1].bal = chain[n].bal
          BY <2>6, <2>8, <3>1, <3>3
        <4>2. chain'[i] = b \/ chain'[i] = Child(chain[n])
          BY <2>8, <3>1, <3>3
        <4> QED
          BY <2>4, <4>1, <4>2
      <3>4. CASE i > m
        <4>1. chain'[i - 1].bal = b.bal /\ chain'[i] = Child(b)
          BY <2>6, <2>7, <2>8, <3>1, <3>4
        <4> QED
          BY <2>5, <4>1
      <3> QED
        BY <3>1, <3>2, <3>3, <3>4
    <2> QED
      BY <2>8, <2>9 DEF ChainAttributed
  <1>3. ASSUME NEW n \in 1..Len(chain), Drop(n)
        PROVE  ChainAttributed(chain')
    <2>1. /\ Len(chain') = n /\ n < Len(chain)
          /\ \A i \in 1..n : chain'[i] = chain[i]
      BY <1>3, DropCuts
    <2>2. \A i \in 2..n : /\ i \in 1..n /\ i - 1 \in 1..n /\ i \in 2..Len(chain)
      BY <1>0, <2>1
    <2> QED
      BY <2>1, <2>2 DEF ChainAttributed
  <1> QED
    BY <1>1, <1>2, <1>3 DEF ChainStep

\* ... and the hash of a block of the chain shows the same.
LEMMA HashAttributed ==
    ASSUME NEW c \in Seq(Block), NEW n \in 1..Len(c), ChainAttributed(c)
    PROVE  ChainAttributed(Hash(c, n))
  <1>1. /\ Len(Hash(c, n)) = n /\ Len(c) \in Nat
        /\ \A i \in 1..n : Hash(c, n)[i] = c[i]
    BY HashIs
  <1>2. \A i \in 2..n : i \in 1..n /\ i - 1 \in 1..n /\ i \in 2..Len(c)
    BY <1>1
  <1> QED
    BY <1>1, <1>2 DEF ChainAttributed

=============================================================================
