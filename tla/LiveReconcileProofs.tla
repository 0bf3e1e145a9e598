------------------------ MODULE LiveReconcileProofs -------------------------
(***************************************************************************)
(* Theorems about LiveReconcile, for chains of any height, any number of   *)
(* reorganisations and every rail.                                         *)
(***************************************************************************)
EXTENDS LiveReconcile, ForkingChainProofs

-----------------------------------------------------------------------------
(* The inductive invariant *)

\* The observer is past its receipt and has a settlement in hand.
Holding == obs.pc \notin {"start", "finality", "receipt", "inconclusive"}

ReadsMatch ==
    \A name \in ReadNames :
      reads[name] # None => reads[name] = Answer(name, obs.settlement, Number)

\* The head the finality tag named, as far as it is still to be compared.
HeadSeen ==
    obs.pc = "receipt" =>
      obs.finality <= peak - TagLag \/ obs.finality = 1

\* The settlement in hand lies as deep below the peak as the policy asks.
DeepEnough ==
    Holding => peak - TagLag - Number + 1 >= MinConfirmations

TypeInv == TypeOK /\ chain[1].txs = {} /\ HeadSeen /\ DeepEnough

\* The settlement in hand is canonical or abandoned for good; as long as it is
\* not abandoned, and for ever once the verdict is out, what was read is what
\* it says.
SnapInv ==
    /\ TypeInv /\ Fresh
    /\ Holding => Tracked(obs.settlement)
    /\ Holding /\ (obs.pc = "done" \/ obs.settlement \notin abandoned)
         => ReadsMatch
    /\ obs.pc \in {"start", "finality", "receipt", "canonical"} =>
         \A name \in ReadNames : reads[name] = None

\* A step of the chain, which keeps its anchor and its peak, keeps the types.
LEMMA ChainType ==
    ASSUME TypeInv, ChainMoves
    PROVE  TypeInv'
  <1>1. /\ ChainOK' /\ chain'[1] = chain[1]
        /\ peak \in Nat /\ peak' \in Nat /\ peak' >= peak
    BY ChainStepType DEF ChainMoves, TypeInv, TypeOK
  <1>2. UNCHANGED <<obs, reads>>
    BY DEF ChainMoves
  <1>3. TypeOK'
    BY <1>1, <1>2 DEF TypeInv, TypeOK, Number, Receipt
  <1>4. /\ TagLag \in Nat /\ MinConfirmations \in Nat
        /\ Number \in Nat /\ obs.finality \in Nat
    <2>1. obs.settlement \in Seq(Block) /\ obs.finality \in Nat
      BY DEF TypeInv, TypeOK, Observation
    <2> QED
      BY <2>1, LiveAssumption DEF Number
  <1>5. Number' = Number /\ (Holding' <=> Holding)
    BY <1>2 DEF Number, Holding
  <1>6. HeadSeen'
    BY <1>1, <1>2, <1>4 DEF TypeInv, HeadSeen
  <1>7. DeepEnough'
    <2>1. Holding => peak - TagLag - Number + 1 >= MinConfirmations
      BY DEF TypeInv, DeepEnough
    <2>2. \A p, q, n, t, m \in Nat :
            q >= p /\ p - t - n + 1 >= m => q - t - n + 1 >= m
      OBVIOUS
    <2>3. Holding => peak' - TagLag - Number + 1 >= MinConfirmations
      BY <1>1, <1>4, <2>1, <2>2
    <2> QED
      BY <1>5, <2>3 DEF DeepEnough
  <1> QED
    BY <1>1, <1>3, <1>6, <1>7 DEF TypeInv

\* The verdict is one of the detector's.
LEMMA VerdictTyped ==
    ASSUME NEW truth, NEW believes \in BOOLEAN, NEW required
    PROVE  DetectPaymentDivergence(truth, believes, required) \in Verdicts
  BY DEF DetectPaymentDivergence, Belief, Verdicts, FundsMoved

\* The steps of an observation keep the types.
LEMMA ObserveType ==
    ASSUME TypeInv, Observe
    PROVE  TypeInv'
  <1>0. /\ chain \in Seq(Block) /\ Len(chain) \in Nat \ {0}
        /\ peak \in Nat /\ Len(chain) <= peak
        /\ obs \in Observation /\ obs.settlement \in Seq(Block)
        /\ Number \in Nat /\ TagLag \in Nat /\ MinConfirmations \in Nat \ {0}
    BY LiveAssumption DEF TypeInv, TypeOK, ChainOK, Observation, Number
  <1>1. UNCHANGED chainVars
    BY DEF Observe, Start, ReadFinality, ReadReceipt, RecheckReceipt,
           CheckCanonical, Read, RecheckBlock, RpcFails
  <1>2. reads' = [name \in ReadNames |-> reads'[name]]
    <2>1. CASE UNCHANGED reads
      BY <2>1 DEF TypeInv, TypeOK
    <2>2. ASSUME NEW name \in ReadNames, Read(name)
          PROVE  reads' = [r \in ReadNames |-> reads'[r]]
      BY <2>2 DEF Read, TypeInv, TypeOK
    <2> QED
      BY <2>1, <2>2 DEF Observe, Start, ReadFinality, ReadReceipt,
           RecheckReceipt, CheckCanonical, RecheckBlock, RpcFails
  <1>3. SUFFICES /\ obs' \in Observation /\ HeadSeen' /\ DeepEnough'
                 /\ Holding' => Number' > 1 /\ "settle" \in Receipt'.txs
    BY <1>0, <1>1, <1>2 DEF TypeInv, TypeOK, ChainOK, chainVars, Holding
  <1>4. ASSUME obs' = Inconclusive
        PROVE  /\ obs' \in Observation /\ obs'.pc = "inconclusive"
               /\ HeadSeen' /\ DeepEnough' /\ ~Holding'
    <2>1. Idle \in Observation
      BY DEF Idle, Observation, Stages
    <2>2. obs' \in Observation /\ obs'.pc = "inconclusive"
      BY <1>4, <2>1 DEF Inconclusive, Observation, Stages
    <2> QED
      BY <2>2 DEF HeadSeen, DeepEnough, Holding
  <1>5. ASSUME NEW pc \in Stages, Holding, pc # "receipt",
               obs' = [obs EXCEPT !.pc = pc]
        PROVE  /\ obs' \in Observation /\ HeadSeen' /\ DeepEnough'
               /\ Holding' => Number' > 1 /\ "settle" \in Receipt'.txs
    <2>1. obs' \in Observation /\ obs'.settlement = obs.settlement /\ obs'.pc = pc
      BY <1>0, <1>5 DEF Observation
    <2> QED
      BY <1>1, <1>5, <2>1
         DEF TypeInv, TypeOK, HeadSeen, DeepEnough, Holding, Number, Receipt,
             chainVars
  <1>6. CASE \E usable, exact \in BOOLEAN, i \in DOMAIN chain : Start(usable, exact, i)
    <2>1. PICK usable, exact \in BOOLEAN, i \in DOMAIN chain : Start(usable, exact, i)
      BY <1>6
    <2>2. CASE ~usable
      BY <1>4, <2>1, <2>2 DEF Start
    <2>3. CASE usable
      <3>1. chain[i] \in Block
        BY <1>0
      <3>2. chain[i].bal["payer"] \in Int /\ chain[i].bal["payee"] \in Int
        BY <3>1 DEF Block, Accounts
      <3>3. obs' \in Observation /\ obs'.pc = "finality"
        BY <1>0, <2>1, <2>3, <3>2 DEF Start, Observation, Stages
      <3> QED
        BY <3>3 DEF HeadSeen, DeepEnough, Holding
    <2> QED
      BY <2>2, <2>3
  <1>7. CASE ReadFinality
    <2> DEFINE head == TagBlock(Len(chain), TagLag)
    <2>1. head \in Nat /\ (head <= peak - TagLag \/ head = 1)
      BY <1>0 DEF TagBlock
    <2>2. /\ obs' \in Observation /\ obs'.pc = "receipt"
          /\ obs'.finality = head
      BY <1>0, <1>7, <2>1 DEF ReadFinality, Observation, Stages
    <2> QED
      BY <1>1, <2>1, <2>2 DEF HeadSeen, DeepEnough, Holding, chainVars
  <1>8. ASSUME NEW n \in 1..Len(chain), ReadReceipt(n)
        PROVE  /\ obs' \in Observation /\ HeadSeen' /\ DeepEnough'
               /\ Holding' => Number' > 1 /\ "settle" \in Receipt'.txs
    <2>1. CASE Confirmations(obs.finality, n) < MinConfirmations
      BY <1>4, <1>8, <2>1 DEF ReadReceipt
    <2>2. CASE ~(Confirmations(obs.finality, n) < MinConfirmations)
      <3>1. /\ Hash(chain, n) \in Seq(Block) /\ Len(Hash(chain, n)) = n
            /\ Hash(chain, n)[n] = chain[n]
        BY <1>0, HashIs
      <3>2. /\ obs' \in Observation /\ obs'.pc = "canonical"
            /\ obs'.settlement = Hash(chain, n)
        BY <1>0, <1>8, <2>2, <3>1 DEF ReadReceipt, Observation, Stages
      <3>3. n # 1 /\ "settle" \in chain[n].txs
        BY <1>8 DEF ReadReceipt, SettledAt, TypeInv
      <3>4. Number' = n /\ Receipt' = chain[n]
        BY <3>1, <3>2 DEF Number, Receipt
      <3>5. obs.finality \in Nat /\ obs.finality - n + 1 >= MinConfirmations
        BY <1>0, <2>2 DEF Confirmations, Observation
      <3>6. obs.finality <= peak - TagLag
        BY <1>0, <1>8, <3>3, <3>5 DEF ReadReceipt, TypeInv, HeadSeen
      <3>7. DeepEnough'
        BY <1>0, <1>1, <3>4, <3>5, <3>6 DEF DeepEnough, chainVars
      <3> QED
        BY <3>2, <3>3, <3>4, <3>7 DEF HeadSeen
    <2> QED
      BY <2>1, <2>2
  <1>9. ASSUME NEW n \in 1..Len(chain), RecheckReceipt(n)
        PROVE  /\ obs' \in Observation /\ HeadSeen' /\ DeepEnough'
               /\ Holding' => Number' > 1 /\ "settle" \in Receipt'.txs
    BY <1>4, <1>5, <1>9 DEF RecheckReceipt, Holding, Stages
  <1>10. CASE CheckCanonical
    BY <1>4, <1>5, <1>10 DEF CheckCanonical, Holding, Stages, ReadNames
  <1>11. ASSUME NEW name \in ReadNames, Read(name)
         PROVE  /\ obs' \in Observation /\ HeadSeen' /\ DeepEnough'
                /\ Holding' => Number' > 1 /\ "settle" \in Receipt'.txs
    <2>1. Following(name) \in Stages \ {"receipt"}
      BY DEF Following, Stages, ReadNames
    <2>2. Holding
      BY <1>11 DEF Read, Holding, ReadNames
    <2> QED
      BY <1>4, <1>5, <1>11, <2>1, <2>2 DEF Read
  <1>12. ASSUME NEW believes \in BOOLEAN, RecheckBlock(believes)
         PROVE  /\ obs' \in Observation /\ HeadSeen' /\ DeepEnough'
                /\ Holding' => Number' > 1 /\ "settle" \in Receipt'.txs
    <2>1. CASE ~StillCanonical
      BY <1>4, <1>12, <2>1 DEF RecheckBlock
    <2>2. CASE StillCanonical
      <3> DEFINE verdict == DetectPaymentDivergence(Truth(reads), believes,
                                                    Required)
      <3>1. verdict \in Verdicts
        BY VerdictTyped
      <3>2. obs' = [obs EXCEPT !.pc = "done", !.believes = believes,
                               !.verdict = verdict]
        BY <1>12, <2>2 DEF RecheckBlock
      <3> HIDE DEF verdict
      <3>3. /\ obs' \in Observation /\ obs'.settlement = obs.settlement
            /\ obs'.pc = "done"
        BY <1>0, <3>1, <3>2 DEF Observation, Stages
      <3> QED
        BY <1>1, <1>12, <3>3
           DEF RecheckBlock, TypeInv, TypeOK, HeadSeen, DeepEnough, Holding,
               Number, Receipt, chainVars
    <2> QED
      BY <2>1, <2>2
  <1>13. CASE RpcFails
    BY <1>4, <1>13 DEF RpcFails
  <1> QED
    BY <1>6, <1>7, <1>8, <1>9, <1>10, <1>11, <1>12, <1>13 DEF Observe

\* A fresh observer over the anchor block is well typed.
LEMMA InitType == Init => TypeInv
  <1> SUFFICES ASSUME Init PROVE TypeInv
    OBVIOUS
  <1>1. ChainOK /\ chain[1].txs = {}
    BY ChainInitType DEF Init
  <1>4. obs \in Observation /\ obs.pc = "start"
    BY DEF Init, Idle, Observation, Stages
  <1>5. TypeOK
    BY <1>1, <1>4 DEF Init, TypeOK
  <1> QED
    BY <1>1, <1>4, <1>5 DEF TypeInv, HeadSeen, DeepEnough, Holding

\* TypeInv is inductive.
LEMMA NextType == TypeInv /\ [Next]_vars => TypeInv'
  <1> SUFFICES ASSUME TypeInv, [Next]_vars PROVE TypeInv'
    OBVIOUS
  <1>1. CASE Next
    BY <1>1, ChainType, ObserveType DEF Next
  <1>2. CASE UNCHANGED vars
    BY <1>2 DEF vars, chainVars, TypeInv, TypeOK, ChainOK, HeadSeen, DeepEnough, Holding,
                Number, Receipt
  <1> QED
    BY <1>1, <1>2

\* Every variable keeps its type, and an observation past its receipt holds a
\* settlement with a parent block (rails.py:848-983).
THEOREM TypeCorrect == Spec => []TypeOK
  <1>1. TypeInv => TypeOK
    BY DEF TypeInv
  <1> QED
    BY <1>1, InitType, NextType, PTL DEF Spec

-----------------------------------------------------------------------------
(* Final verdicts *)

\* A verdict that is out is about a canonical block.
FinalInv ==
    TypeInv /\ (obs.pc = "done" => Canonical(obs.settlement))

\* Only the last comparison lets a verdict out.
LEMMA VerdictStep ==
    ASSUME TypeInv, Observe, obs'.pc = "done"
    PROVE  /\ obs.pc = "recheckBlock" /\ Canonical(obs.settlement)
           /\ obs'.settlement = obs.settlement /\ UNCHANGED chainVars
  <1>0. obs \in Observation
    BY DEF TypeInv, TypeOK
  <1>1. \A name \in ReadNames : Following(name) # "done"
    BY DEF Following, ReadNames
  <1>2. obs' # Inconclusive
    BY <1>0 DEF Inconclusive, Idle, Observation
  <1>3. ASSUME NEW pc, obs' = [obs EXCEPT !.pc = pc]
        PROVE  pc = "done"
    BY <1>0, <1>3 DEF Observation
  <1>4. \A usable, exact \in BOOLEAN, i \in DOMAIN chain : ~Start(usable, exact, i)
    BY <1>0, <1>2 DEF Start, Observation
  <1>5. ~ReadFinality
    BY <1>0 DEF ReadFinality, Observation
  <1>6. \A n \in 1..Len(chain) : ~ReadReceipt(n)
    BY <1>0, <1>2 DEF ReadReceipt, Observation
  <1>7. \A n \in 1..Len(chain) : ~RecheckReceipt(n)
    BY <1>2, <1>3 DEF RecheckReceipt
  <1>8. ~CheckCanonical /\ ~RpcFails
    BY <1>2, <1>3 DEF CheckCanonical, RpcFails
  <1>9. \A name \in ReadNames : ~Read(name)
    BY <1>1, <1>2, <1>3 DEF Read
  <1>10. PICK believes \in BOOLEAN : RecheckBlock(believes)
    BY <1>4, <1>5, <1>6, <1>7, <1>8, <1>9 DEF Observe
  <1> QED
    BY <1>0, <1>2, <1>10 DEF RecheckBlock, StillCanonical, Observation

\* FinalInv is inductive if reorganisations do not reach as deep as the policy
\* asks.
LEMMA NextFinal ==
    ASSUME MaxDepth < MinConfirmations + TagLag
    PROVE  FinalInv /\ [Next]_vars => FinalInv'
  <1> SUFFICES ASSUME FinalInv, [Next]_vars, obs'.pc = "done"
               PROVE  Canonical(obs.settlement)'
    BY NextType DEF FinalInv
  <1>1. CASE UNCHANGED vars
    BY <1>1 DEF FinalInv, Canonical, Reached, vars, chainVars
  <1>2. CASE ChainMoves
    <2>1. ChainStep /\ obs' = obs /\ ChainOK
      BY <1>2 DEF ChainMoves, FinalInv, TypeInv, TypeOK
    <2>2. Canonical(obs.settlement)
      BY <2>1 DEF FinalInv
    <2>3. /\ obs.settlement \in Seq(Block) /\ Len(obs.settlement) > 0
          /\ Len(obs.settlement) + MaxDepth <= peak
      <3>1. obs.settlement \in Seq(Block) /\ Holding /\ peak \in Nat
        BY <2>1 DEF FinalInv, TypeInv, TypeOK, ChainOK, Observation, Holding
      <3>2. Number \in Nat /\ Number > 1
        BY <3>1 DEF FinalInv, TypeInv, TypeOK, Holding, Number
      <3>3. peak - TagLag - Number + 1 >= MinConfirmations
        BY <3>1 DEF FinalInv, TypeInv, DeepEnough
      <3>4. MaxDepth \in Nat /\ TagLag \in Nat /\ MinConfirmations \in Nat
        BY ChainAssumption, LiveAssumption
      <3>5. Number > 0 /\ Number + MaxDepth <= peak
        BY <3>1, <3>2, <3>3, <3>4
      <3> QED
        BY <3>1, <3>5 DEF Number
    <2>4. \A h \in Seq(Block) : Len(h) > 0 /\ Canonical(h) /\ Len(h) + MaxDepth <= peak
                                  => Canonical(h)'
      BY <2>1, DeepStays
    <2> QED
      BY <2>1, <2>2, <2>3, <2>4 DEF Canonical, Reached
  <1>3. CASE Observe
    <2>1. /\ Canonical(obs.settlement) /\ obs'.settlement = obs.settlement
          /\ chain' = chain
      BY <1>3, VerdictStep DEF FinalInv, chainVars
    <2> QED
      BY <2>1 DEF Canonical, Reached
  <1> QED
    BY <1>1, <1>2, <1>3 DEF Next

\* The block a verdict names stays canonical for ever if no reorganisation
\* reaches as deep below the highest head as the finality policy asks, for any
\* policy, any tag, any number of reorganisations and with blocks that come
\* back (rails.py:878-891, 972-981).
THEOREM VerdictsAreFinal == Spec => []VerdictIsFinal
  <1>1. CASE MaxDepth < MinConfirmations + TagLag
    <2>1. Init => FinalInv
      <3>1. Init => obs.pc # "done"
        BY DEF Init, Idle
      <3> QED
        BY <3>1, InitType DEF FinalInv
    <2>2. FinalInv => VerdictIsFinal
      BY DEF FinalInv, VerdictIsFinal
    <2>3. FinalInv /\ [Next]_vars => FinalInv'
      BY <1>1, NextFinal
    <2> QED
      BY <2>1, <2>2, <2>3, PTL DEF Spec
  <1>2. CASE ~(MaxDepth < MinConfirmations + TagLag)
    <2>1. VerdictIsFinal
      BY <1>2 DEF VerdictIsFinal
    <2> QED
      BY <2>1, PTL
  <1> QED
    BY <1>1, <1>2

-----------------------------------------------------------------------------
(* One snapshot *)

\* Pinned reads of two chains that share the block and its parent agree.
LEMMA AnswerSame ==
    ASSUME NEW c \in Seq(Block), NEW n \in 2..Len(c), NEW name \in ReadNames
    PROVE  Answer(name, Hash(c, n), n) = Answer(name, c, n)
  <1>1. n \in 1..Len(c) /\ n \in 1..n /\ n - 1 \in 1..n
    OBVIOUS
  <1>2. Hash(c, n)[n] = c[n] /\ Hash(c, n)[n - 1] = c[n - 1]
    BY <1>1, HashIs
  <1> QED
    BY <1>2 DEF Answer

\* A fresh observer has read nothing and nothing is abandoned.
LEMMA InitSnap == Init => SnapInv
  <1> SUFFICES ASSUME Init PROVE SnapInv
    OBVIOUS
  <1>1. obs.pc = "start" /\ abandoned = {}
    BY DEF Init, ChainInit, Idle
  <1>2. \A name \in ReadNames : reads[name] = None
    BY DEF Init
  <1> QED
    BY <1>1, <1>2, InitType DEF SnapInv, Fresh, Holding

\* A step of the chain abandons the block in hand or leaves it canonical.
LEMMA ChainSnap ==
    ASSUME ~Flips, SnapInv, TypeInv', ChainMoves
    PROVE  SnapInv'
  <1>1. UNCHANGED <<obs, reads>>
    BY DEF ChainMoves
  <1>2. Holding => obs.settlement \in Seq(Block) /\ Len(obs.settlement) > 0
    BY DEF SnapInv, TypeInv, TypeOK, Holding, Number, Observation
  <1>3. /\ Fresh' /\ abandoned \subseteq abandoned'
        /\ Holding => Tracked(obs.settlement)'
    <2>1. /\ Fresh' /\ abandoned \subseteq abandoned'
          /\ \A h \in Seq(Block) : Len(h) > 0 /\ Tracked(h) => Tracked(h)'
      BY ChainStepFresh DEF SnapInv, TypeInv, TypeOK, ChainMoves
    <2>2. Holding => Tracked(obs.settlement)
      BY DEF SnapInv
    <2>3. Tracked(obs.settlement)' <=> (\/ /\ Len(obs.settlement) <= Len(chain')
                                            /\ Hash(chain', Len(obs.settlement))
                                                 = obs.settlement
                                         \/ obs.settlement \in abandoned')
      BY <1>1 DEF Tracked, Canonical, Reached
    <2> QED
      BY <1>1, <1>2, <2>1, <2>2, <2>3 DEF Tracked, Canonical, Reached
  <1>4. Holding' <=> Holding
    BY <1>1 DEF Holding
  <1>5. ReadsMatch' <=> ReadsMatch
    BY <1>1 DEF ReadsMatch, Number, Answer
  <1> QED
    BY <1>1, <1>3, <1>4, <1>5 DEF SnapInv

\* A step of the observer reads the block in hand as long as that block is
\* canonical, and emits a verdict only if it still is.
LEMMA ObserveSnap ==
    ASSUME SnapInv, TypeInv', Observe
    PROVE  SnapInv'
  <1>0. /\ chain \in Seq(Block) /\ obs \in Observation
        /\ Holding => Number > 1 /\ Number \in Nat
        /\ reads = [name \in ReadNames |-> reads[name]]
    BY DEF SnapInv, TypeInv, TypeOK, ChainOK, DeepEnough, Holding, Number,
           Observation
  <1>1. UNCHANGED chainVars
    BY DEF Observe, Start, ReadFinality, ReadReceipt, RecheckReceipt,
           CheckCanonical, Read, RecheckBlock, RpcFails
  <1>2. Fresh'
    BY <1>1 DEF SnapInv, Fresh, chainVars
  <1>3. SUFFICES
          /\ Holding' => \/ Canonical(obs'.settlement)
                         \/ obs'.settlement \in abandoned
          /\ Holding' /\ (obs'.pc = "done" \/ obs'.settlement \notin abandoned)
               => ReadsMatch'
          /\ obs'.pc \in {"start", "finality", "receipt", "canonical"} =>
               \A name \in ReadNames : reads'[name] = None
    BY <1>1, <1>2 DEF SnapInv, Tracked, Canonical, Reached, Number, chainVars
  <1>4. ASSUME obs' = Inconclusive
        PROVE  obs'.pc = "inconclusive" /\ ~Holding'
    BY <1>0, <1>4 DEF Inconclusive, Idle, Observation, Holding
  <1>5. ASSUME NEW pc, obs' = [obs EXCEPT !.pc = pc], Holding, reads' = reads,
               pc \notin {"start", "finality", "receipt", "canonical", "done"}
        PROVE  /\ Holding' => \/ Canonical(obs'.settlement)
                              \/ obs'.settlement \in abandoned
               /\ obs'.settlement \notin abandoned => ReadsMatch'
               /\ obs'.pc = pc
    <2>1. /\ obs'.settlement = obs.settlement /\ obs'.exact = obs.exact
          /\ obs'.pc = pc
      BY <1>0, <1>5 DEF Observation
    <2>2. Number' = Number
      BY <2>1 DEF Number
    <2>3. ReadsMatch' <=> ReadsMatch
      BY <1>5, <2>1, <2>2 DEF ReadsMatch, Answer
    <2> QED
      BY <1>5, <2>1, <2>2, <2>3 DEF SnapInv, Tracked, Number
  <1>6. CASE \E usable, exact \in BOOLEAN, i \in DOMAIN chain : Start(usable, exact, i)
    <2>1. reads' = reads /\ obs.pc = "start"
      BY <1>6 DEF Start
    <2>2. obs'.pc \in {"inconclusive", "finality"}
      BY <1>0, <1>4, <1>6 DEF Start, Observation
    <2> QED
      BY <2>1, <2>2 DEF SnapInv, Holding
  <1>7. CASE ReadFinality
    <2>1. reads' = reads /\ obs.pc = "finality" /\ obs'.pc = "receipt"
      BY <1>0, <1>7 DEF ReadFinality, Observation
    <2> QED
      BY <2>1 DEF SnapInv, Holding
  <1>8. ASSUME NEW n \in 1..Len(chain), ReadReceipt(n)
        PROVE  /\ Holding' => \/ Canonical(obs'.settlement)
                              \/ obs'.settlement \in abandoned
               /\ \A name \in ReadNames : reads'[name] = None
               /\ obs'.pc \in {"inconclusive", "canonical"}
    <2>1. \A name \in ReadNames : reads'[name] = None
      BY <1>8 DEF ReadReceipt, SnapInv
    <2>2. CASE obs' = Inconclusive
      BY <1>4, <2>1, <2>2
    <2>3. CASE obs' # Inconclusive
      <3>1. obs'.settlement = Hash(chain, n) /\ obs'.pc = "canonical"
        BY <1>0, <1>8, <2>3 DEF ReadReceipt, Observation
      <3>2. Number' = n
        BY <1>0, <3>1, HashIs DEF Number
      <3> QED
        BY <2>1, <3>1, <3>2 DEF Canonical, Reached, Number
    <2> QED
      BY <2>2, <2>3
  <1>9. ASSUME NEW n \in 1..Len(chain), RecheckReceipt(n), obs' # Inconclusive
        PROVE  /\ obs' = [obs EXCEPT !.pc = "recheckBlock"]
               /\ Holding /\ reads' = reads
    BY <1>9 DEF RecheckReceipt, Holding
  <1>10. ASSUME CheckCanonical, obs' # Inconclusive
         PROVE  /\ obs' = [obs EXCEPT !.pc = "code"]
                /\ Holding /\ reads' = reads
    BY <1>10 DEF CheckCanonical, Holding
  <1>11. ASSUME NEW name \in ReadNames, Read(name), obs' # Inconclusive
         PROVE  /\ Holding' => \/ Canonical(obs'.settlement)
                               \/ obs'.settlement \in abandoned
                /\ obs'.settlement \notin abandoned => ReadsMatch'
                /\ obs'.pc \notin {"start", "finality", "receipt", "canonical",
                                   "done"}
    <2>1. Holding
      BY <1>11 DEF Read, Holding, ReadNames
    <2>2. Following(name) \notin {"start", "finality", "receipt", "canonical",
                                  "done"}
      BY DEF Following, ReadNames
    <2>3. /\ obs'.settlement = obs.settlement /\ obs'.exact = obs.exact
          /\ obs'.pc = Following(name)
      BY <1>0, <1>11 DEF Read, Observation
    <2>4. Number' = Number
      BY <2>3 DEF Number
    <2>5. ASSUME obs.settlement \notin abandoned
          PROVE  ReadsMatch'
      <3>1. /\ Hash(chain, Number) = obs.settlement /\ ReadsMatch
            /\ Number \in 2..Len(chain)
        BY <1>0, <2>1, <2>5 DEF SnapInv, Tracked, Canonical, Reached, Number
      <3>2. Answer(name, obs.settlement, Number) = Answer(name, chain, Number)
        BY <1>0, <2>1, <3>1, AnswerSame
      <3>3. \A r \in ReadNames :
              reads'[r] = IF r = name THEN Answer(name, chain, Number) ELSE reads[r]
        BY <1>0, <1>11 DEF Read
      <3>4. \A r \in ReadNames :
              reads'[r] # None => reads'[r] = Answer(r, obs.settlement, Number)
        BY <3>1, <3>2, <3>3 DEF ReadsMatch
      <3>5. \A r \in ReadNames : Answer(r, obs.settlement, Number)' =
                                 Answer(r, obs.settlement, Number)
        BY <2>3, <2>4 DEF Answer
      <3> QED
        BY <2>3, <2>4, <3>4, <3>5 DEF ReadsMatch
    <2> QED
      BY <2>1, <2>2, <2>3, <2>4, <2>5 DEF SnapInv, Tracked, Number
  <1>12. ASSUME NEW believes \in BOOLEAN, RecheckBlock(believes),
                obs' # Inconclusive
         PROVE  /\ Canonical(obs'.settlement)
                /\ ReadsMatch' /\ obs'.pc = "done"
    <2>1. /\ StillCanonical /\ Holding /\ reads' = reads
      BY <1>12 DEF RecheckBlock, Holding
    <2>2. /\ obs'.settlement = obs.settlement /\ obs'.exact = obs.exact
          /\ obs'.pc = "done"
      BY <1>0, <1>12 DEF RecheckBlock, Observation
    <2>3. Number' = Number
      BY <2>2 DEF Number
    <2>4. Canonical(obs.settlement) /\ obs.settlement \notin abandoned
      BY <1>0, <2>1 DEF StillCanonical, Canonical, Reached, Number, SnapInv, Fresh
    <2>5. ReadsMatch
      BY <2>1, <2>4 DEF SnapInv
    <2>6. ReadsMatch' <=> ReadsMatch
      BY <2>1, <2>2, <2>3 DEF ReadsMatch, Answer
    <2> QED
      BY <2>2, <2>3, <2>4, <2>5, <2>6
  <1>13. CASE obs' = Inconclusive
    BY <1>4, <1>13
  <1>14. CASE obs' # Inconclusive
    <2>1. CASE \E n \in 1..Len(chain) : ReadReceipt(n)
      <3>1. PICK n \in 1..Len(chain) : ReadReceipt(n)
        BY <2>1
      <3>2. (\A name \in ReadNames : reads'[name] = None) => ReadsMatch'
        BY DEF ReadsMatch
      <3> QED
        BY <1>8, <3>1, <3>2
    <2>2. CASE \E n \in 1..Len(chain) : RecheckReceipt(n)
      <3>1. /\ obs' = [obs EXCEPT !.pc = "recheckBlock"]
            /\ Holding /\ reads' = reads
        BY <1>9, <1>14, <2>2
      <3> QED
        BY <1>5, <3>1
    <2>3. CASE CheckCanonical
      <3>1. obs' = [obs EXCEPT !.pc = "code"] /\ Holding /\ reads' = reads
        BY <1>10, <1>14, <2>3
      <3> QED
        BY <1>5, <3>1
    <2>4. CASE \E name \in ReadNames : Read(name)
      BY <1>11, <1>14, <2>4
    <2>5. CASE \E believes \in BOOLEAN : RecheckBlock(believes)
      BY <1>12, <1>14, <2>5
    <2>6. ~RpcFails
      BY <1>14 DEF RpcFails
    <2> QED
      BY <1>6, <1>7, <2>1, <2>2, <2>3, <2>4, <2>5, <2>6 DEF Observe
  <1> QED
    BY <1>13, <1>14

\* SnapInv is inductive if no abandoned block becomes canonical again.
LEMMA NextSnap ==
    ASSUME ~Flips
    PROVE  SnapInv /\ [Next]_vars => SnapInv'
  <1> SUFFICES ASSUME SnapInv, [Next]_vars PROVE SnapInv'
    OBVIOUS
  <1>1. TypeInv'
    BY NextType DEF SnapInv
  <1>2. CASE Next
    BY <1>1, <1>2, ChainSnap, ObserveSnap DEF Next
  <1>3. CASE UNCHANGED vars
    BY <1>1, <1>3 DEF vars, chainVars, SnapInv, Fresh, Tracked, Canonical,
                      Reached, Holding, Number, ReadsMatch, Answer
  <1> QED
    BY <1>2, <1>3

\* If no abandoned block becomes canonical again, all the evidence of a verdict
\* is from the one block whose hash it carries, for any number of blocks,
\* reorganisations and transactions (rails.py:893-981).
THEOREM EvidenceIsOneSnapshot ==
    ASSUME ~Flips
    PROVE  Spec => []OneSnapshot
  <1>1. SnapInv => OneSnapshot
    BY DEF SnapInv, OneSnapshot, ReadsMatch, Holding
  <1>2. Init => SnapInv
    BY InitSnap
  <1>3. SnapInv /\ [Next]_vars => SnapInv'
    BY NextSnap
  <1> QED
    BY <1>1, <1>2, <1>3, PTL DEF Spec

-----------------------------------------------------------------------------
(***************************************************************************)
(* Reviewed code and true verdicts.  The reads are made in a fixed order   *)
(* and each is checked as it is made, so the stage an observation is in    *)
(* says which reads were taken and which checks they passed.  TrueInv:     *)
(* those values are the settlement block's as long as it is not abandoned, *)
(* and the settlement block credits the payee what it says it does.        *)
(***************************************************************************)

Rank(stage) ==
    CASE stage = "code"        -> 1
      [] stage = "slot"        -> 2
      [] stage = "implCode"    -> 3
      [] stage = "payerParent" -> 4
      [] stage = "payeeParent" -> 5
      [] stage = "payerAfter"  -> 6
      [] stage = "payeeAfter"  -> 7
      [] stage = "nonce"       -> 8
      [] stage = "inbound"     -> 9
      [] stage = "outbound"    -> 10
      [] stage \in {"recheckReceipt", "recheckBlock", "done"} -> 11
      [] OTHER                 -> 0

\* The reads this rail and this receipt call for.
Due(name) ==
    /\ name \in {"slot", "implCode"} => Proxy
    /\ name \in {"inbound", "outbound"} => Receipt.settle = "success"

Passed(name, stage) == Due(name) /\ Rank(name) < Rank(stage)

\* What was read is what the block in hand says.
Matched ==
    \A name \in ReadNames : Passed(name, obs.pc) =>
                              reads[name] = Answer(name, obs.settlement, Number)

\* The checks a taken read has passed.
Vetted(stage, r) ==
    /\ Passed("code", stage) => ~CodeDrift(r)
    /\ Passed("slot", stage) => ~SlotDrift(r)
    /\ Passed("implCode", stage) => ~ImplementationDrift(r)
    /\ Passed("outbound", stage) => ~Race(r) /\ ~Unattributable(r)

TrueInv ==
    /\ SnapInv /\ ChainAttributed(chain)
    /\ Holding => ChainAttributed(obs.settlement) /\ Vetted(obs.pc, reads)
    /\ Holding /\ (obs.pc = "done" \/ obs.settlement \notin abandoned) => Matched
    /\ obs.pc = "done" =>
         obs.verdict = DetectPaymentDivergence(Truth(reads), obs.believes, Required)

\* The order of the stages.
LEMMA Ranks ==
    /\ Rank("code") = 1 /\ Rank("slot") = 2 /\ Rank("implCode") = 3
    /\ Rank("payerParent") = 4 /\ Rank("payeeParent") = 5
    /\ Rank("payerAfter") = 6 /\ Rank("payeeAfter") = 7 /\ Rank("nonce") = 8
    /\ Rank("inbound") = 9 /\ Rank("outbound") = 10
    /\ Rank("recheckReceipt") = 11
  BY DEF Rank

\* The stage after a read comes later, and what it skips is not due.
LEMMA FollowingRank ==
    ASSUME NEW name \in ReadNames, NEW other \in ReadNames, Due(other),
           Rank(name) < Rank(other)
    PROVE  Rank(Following(name)) <= Rank(other)
  <1>1. CASE name = "code"
    <2>1. Following(name) = IF Proxy THEN "slot" ELSE "payerParent"
      BY <1>1 DEF Following
    <2> QED
      BY <1>1, <2>1, Ranks DEF Due, ReadNames
  <1>2. CASE name = "nonce"
    <2>1. Following(name) = IF Receipt.settle = "success" THEN "inbound"
                            ELSE "recheckReceipt"
      BY <1>2 DEF Following
    <2> QED
      BY <1>2, <2>1, Ranks DEF Due, ReadNames
  <1>3. CASE name \in {"slot", "implCode", "payerParent"}
    <2>1. Following(name) = IF name = "slot" THEN "implCode"
                            ELSE IF name = "implCode" THEN "payerParent"
                            ELSE "payeeParent"
      BY <1>3 DEF Following
    <2> QED
      BY <1>3, <2>1, Ranks DEF ReadNames
  <1>4. CASE name \in {"payeeParent", "payerAfter", "payeeAfter"}
    <2>1. Following(name) = IF name = "payeeParent" THEN "payerAfter"
                            ELSE IF name = "payerAfter" THEN "payeeAfter"
                            ELSE "nonce"
      BY <1>4 DEF Following
    <2> QED
      BY <1>4, <2>1, Ranks DEF ReadNames
  <1>5. CASE name \in {"inbound", "outbound"}
    <2>1. Following(name) = IF name = "inbound" THEN "outbound"
                            ELSE "recheckReceipt"
      BY <1>5 DEF Following
    <2> QED
      BY <1>5, <2>1, Ranks DEF ReadNames
  <1> QED
    BY <1>1, <1>2, <1>3, <1>4, <1>5 DEF ReadNames

\* A read is passed once it is taken, and no other read is.
LEMMA OneMorePassed ==
    ASSUME NEW name \in ReadNames, NEW other \in ReadNames,
           Passed(other, Following(name))
    PROVE  other = name \/ Passed(other, name)
  <1>1. \A n \in ReadNames : Rank(n) \in Nat
    BY Ranks DEF ReadNames
  <1>2. Rank(Following(name)) \in Nat
    <2>1. Following(name) \in ReadNames \cup {"recheckReceipt"}
      BY DEF Following, ReadNames
    <2> QED
      BY <1>1, <2>1, Ranks
  <1>3. ~(Rank(name) < Rank(other))
    BY <1>1, <1>2, FollowingRank DEF Passed
  <1>4. Rank(name) = Rank(other) => name = other
    BY Ranks DEF ReadNames
  <1> QED
    BY <1>1, <1>3, <1>4 DEF Passed

\* Before the first read none is passed, after the last one no other is.
LEMMA PassedAtEnds ==
    ASSUME NEW name \in ReadNames, NEW stage, NEW last,
           stage \in {"recheckReceipt", "recheckBlock", "done"},
           last \in {"recheckReceipt", "recheckBlock", "done"}
    PROVE  /\ ~Passed(name, "canonical") /\ ~Passed(name, "code")
           /\ Passed(name, stage) <=> Passed(name, last)
  BY DEF Passed, Rank, ReadNames

\* The checks a read has passed do not look at later reads.
LEMMA VettedOnce ==
    ASSUME NEW name \in ReadNames, NEW r, r = [n \in ReadNames |-> r[n]], NEW v,
           NEW s, s = [r EXCEPT ![name] = v], Vetted(name, r), ~Refused(name, s)
    PROVE  Vetted(Following(name), s)
  <1>1. \A n \in ReadNames : n # name => s[n] = r[n]
    OBVIOUS
  <1>2. Passed("code", Following(name)) => ~CodeDrift(s)
    <2>1. CASE name = "code"
      BY <2>1 DEF Refused
    <2>2. CASE name # "code"
      BY <1>1, <2>2, OneMorePassed DEF Vetted, CodeDrift, ReadNames
    <2> QED
      BY <2>1, <2>2
  <1>3. Passed("slot", Following(name)) => ~SlotDrift(s)
    <2>1. CASE name = "slot"
      BY <2>1 DEF Refused
    <2>2. CASE name # "slot"
      BY <1>1, <2>2, OneMorePassed DEF Vetted, SlotDrift, ReadNames
    <2> QED
      BY <2>1, <2>2
  <1>4. Passed("implCode", Following(name)) => ~ImplementationDrift(s)
    <2>1. CASE name = "implCode"
      BY <2>1 DEF Refused
    <2>2. CASE name # "implCode"
      BY <1>1, <2>2, OneMorePassed DEF Vetted, ImplementationDrift, ReadNames
    <2> QED
      BY <2>1, <2>2
  <1>5. Passed("outbound", Following(name)) => ~Race(s) /\ ~Unattributable(s)
    <2>1. CASE name = "outbound"
      BY <2>1 DEF Refused
    <2>2. CASE name # "outbound"
      <3>1. ~Passed("outbound", name)
        BY DEF Passed, Rank, ReadNames
      <3> QED
        BY <2>2, <3>1, OneMorePassed DEF ReadNames
    <2> QED
      BY <2>1, <2>2
  <1> QED
    BY <1>2, <1>3, <1>4, <1>5 DEF Vetted

\* A fresh observer has the anchor block to look at and nothing in hand.
LEMMA InitTrue == Init => TrueInv
  <1> SUFFICES ASSUME Init PROVE TrueInv
    OBVIOUS
  <1>1. obs.pc = "start"
    BY DEF Init, Idle
  <1>2. Len(chain) = 1
    BY DEF Init, ChainInit
  <1>3. ChainAttributed(chain)
    BY <1>2 DEF ChainAttributed
  <1> QED
    BY <1>1, <1>3, InitSnap DEF TrueInv, Holding

\* An observer that did nothing knows what it knew.
LEMMA SameObserver ==
    ASSUME UNCHANGED <<obs, reads>>
    PROVE  /\ Holding' <=> Holding
           /\ Matched' <=> Matched
           /\ Vetted(obs.pc, reads)' <=> Vetted(obs.pc, reads)
           /\ Truth(reads)' = Truth(reads)
           /\ ChainAttributed(obs.settlement)' <=> ChainAttributed(obs.settlement)
  <1>1. Number' = Number /\ Receipt' = Receipt
    BY DEF Number, Receipt
  <1>2. \A name, stage : Passed(name, stage)' <=> Passed(name, stage)
    BY <1>1 DEF Passed, Due
  <1> QED
    BY <1>1, <1>2 DEF Holding, Matched, Vetted, Truth, Answer, CodeDrift,
       SlotDrift, ImplementationDrift, Race, Unattributable, ChainAttributed

\* A step of the chain leaves what the observer holds alone.
LEMMA ChainTrue ==
    ASSUME TrueInv, SnapInv', ChainMoves, abandoned \subseteq abandoned'
    PROVE  TrueInv'
  <1>1. UNCHANGED <<obs, reads>>
    BY DEF ChainMoves
  <1>2. ChainAttributed(chain)'
    BY ChainStepAttributed DEF ChainMoves, TrueInv, SnapInv, TypeInv, TypeOK
  <1> QED
    BY <1>1, <1>2, SameObserver DEF TrueInv

\* With the same settlement in hand every block number, receipt and answer is
\* the same.
LEMMA SameHand ==
    ASSUME obs'.settlement = obs.settlement, obs'.exact = obs.exact
    PROVE  /\ Number' = Number /\ Receipt' = Receipt
           /\ \A name, stage : Passed(name, stage)' <=> Passed(name, stage)
           /\ \A name \in ReadNames : Answer(name, obs.settlement, Number)' =
                                      Answer(name, obs.settlement, Number)
  <1>1. Number' = Number /\ Receipt' = Receipt
    BY DEF Number, Receipt
  <1> QED
    BY <1>1 DEF Passed, Due, Answer

\* The observer goes on with the block it holds and reads nothing.
LEMMA GoesOn ==
    ASSUME TrueInv, SnapInv', Holding, NEW stage, obs.pc # "done",
           obs'.settlement = obs.settlement, obs'.exact = obs.exact,
           obs'.pc = stage, UNCHANGED <<chainVars, reads>>,
           \A name \in ReadNames : Passed(name, stage) <=> Passed(name, obs.pc),
           stage = "done" =>
             /\ obs.settlement \notin abandoned
             /\ obs'.verdict = DetectPaymentDivergence(Truth(reads),
                                                       obs'.believes, Required)
    PROVE  TrueInv'
  <1>1. /\ Number' = Number /\ Receipt' = Receipt /\ chain' = chain
        /\ abandoned' = abandoned /\ reads' = reads
        /\ \A name, s : Passed(name, s)' <=> Passed(name, s)
        /\ \A name \in ReadNames : Answer(name, obs.settlement, Number)' =
                                   Answer(name, obs.settlement, Number)
    BY SameHand DEF chainVars
  <1>2. ChainAttributed(chain)' /\ ChainAttributed(obs.settlement)'
    BY <1>1 DEF TrueInv, ChainAttributed
  <1>3. Vetted(obs.pc, reads)'
    BY <1>1 DEF TrueInv, Vetted, ReadNames, CodeDrift, SlotDrift,
                ImplementationDrift, Race, Unattributable
  <1>4. Matched => Matched'
    BY <1>1 DEF Matched
  <1>5. Truth(reads)' = Truth(reads)
    BY <1>1 DEF Truth
  <1>6. Holding' /\ (obs'.pc = "done" \/ obs'.settlement \notin abandoned') => Matched'
    BY <1>1, <1>4 DEF TrueInv
  <1> QED
    BY <1>2, <1>3, <1>5, <1>6 DEF TrueInv

\* A step of the observer keeps what it knows true.
LEMMA ObserveTrue ==
    ASSUME TrueInv, SnapInv', Observe
    PROVE  TrueInv'
  <1>0. /\ chain \in Seq(Block) /\ obs \in Observation
        /\ Holding => Number > 1 /\ Number \in Nat
        /\ reads = [name \in ReadNames |-> reads[name]]
    BY DEF TrueInv, SnapInv, TypeInv, TypeOK, ChainOK, DeepEnough, Holding,
           Number, Observation
  <1>1. UNCHANGED chainVars /\ chain' = chain /\ abandoned' = abandoned
    BY DEF Observe, Start, ReadFinality, ReadReceipt, RecheckReceipt,
           CheckCanonical, Read, RecheckBlock, RpcFails, chainVars
  <1>2. ChainAttributed(chain)'
    BY <1>1 DEF TrueInv, ChainAttributed
  <1>3. CASE obs'.pc \in {"start", "finality", "receipt", "inconclusive"}
    BY <1>2, <1>3 DEF TrueInv, Holding
  <1>4. CASE obs' = Inconclusive
    <2>1. obs'.pc = "inconclusive"
      BY <1>4 DEF Inconclusive, Idle
    <2> QED
      BY <1>3, <2>1
  <1>5. CASE \E usable, exact \in BOOLEAN, i \in DOMAIN chain : Start(usable, exact, i)
    <2>1. obs' = Inconclusive \/ obs'.pc = "finality"
      BY <1>0, <1>5 DEF Start, Observation
    <2> QED
      BY <1>3, <1>4, <2>1
  <1>6. CASE ReadFinality
    <2>1. obs'.pc = "receipt"
      BY <1>0, <1>6 DEF ReadFinality, Observation
    <2> QED
      BY <1>3, <2>1
  <1>7. ASSUME NEW n \in 1..Len(chain), ReadReceipt(n), obs' # Inconclusive
        PROVE  TrueInv'
    <2>1. obs'.settlement = Hash(chain, n) /\ obs'.pc = "canonical"
      BY <1>0, <1>7 DEF ReadReceipt, Observation
    <2>2. ChainAttributed(obs.settlement)'
      <3>1. ChainAttributed(Hash(chain, n))
        BY <1>0, HashAttributed DEF TrueInv
      <3> QED
        BY <2>1, <3>1 DEF ChainAttributed
    <2>3. \A name \in ReadNames : ~Passed(name, obs.pc)'
      BY <2>1, Ranks DEF Passed, Rank, ReadNames
    <2>4. Vetted(obs.pc, reads)' /\ Matched'
      BY <2>3 DEF Vetted, Matched, ReadNames
    <2> QED
      BY <1>2, <2>1, <2>2, <2>4 DEF TrueInv
  <1>8. ASSUME NEW n \in 1..Len(chain), RecheckReceipt(n), obs' # Inconclusive
        PROVE  TrueInv'
    <2>1. /\ obs' = [obs EXCEPT !.pc = "recheckBlock"]
          /\ obs.pc = "recheckReceipt" /\ reads' = reads
      BY <1>8 DEF RecheckReceipt
    <2>2. /\ obs'.settlement = obs.settlement /\ obs'.exact = obs.exact
          /\ obs'.pc = "recheckBlock" /\ Holding
      BY <1>0, <2>1 DEF Observation, Holding
    <2>3. \A name \in ReadNames :
            Passed(name, "recheckBlock") <=> Passed(name, obs.pc)
      BY <2>1, PassedAtEnds
    <2> QED
      BY <1>1, <2>1, <2>2, <2>3, GoesOn
  <1>9. ASSUME CheckCanonical, obs' # Inconclusive PROVE TrueInv'
    <2>1. /\ obs' = [obs EXCEPT !.pc = "code"]
          /\ obs.pc = "canonical" /\ reads' = reads
      BY <1>9 DEF CheckCanonical
    <2>2. /\ obs'.settlement = obs.settlement /\ obs'.exact = obs.exact
          /\ obs'.pc = "code" /\ Holding
      BY <1>0, <2>1 DEF Observation, Holding
    <2>3. \A name \in ReadNames : Passed(name, "code") <=> Passed(name, obs.pc)
      BY <2>1, PassedAtEnds
    <2> QED
      BY <1>1, <2>1, <2>2, <2>3, GoesOn
  <1>10. ASSUME NEW name \in ReadNames, Read(name), obs' # Inconclusive
         PROVE  TrueInv'
    <2> DEFINE v == Answer(name, chain, Number)
    <2>1. /\ obs.pc = name /\ reads' = [reads EXCEPT ![name] = v]
          /\ ~Refused(name, reads')
          /\ obs' = [obs EXCEPT !.pc = Following(name)]
      BY <1>10 DEF Read
    <2>2. Holding /\ obs.pc # "done"
      BY <2>1 DEF Holding, ReadNames
    <2>3. /\ obs'.settlement = obs.settlement /\ obs'.exact = obs.exact
          /\ obs'.pc = Following(name)
      BY <1>0, <2>1 DEF Observation
    <2>4. Following(name) # "done"
      BY DEF Following, ReadNames
    <2>5. /\ Number' = Number /\ Receipt' = Receipt
          /\ \A k, s : Passed(k, s)' <=> Passed(k, s)
          /\ \A k \in ReadNames : Answer(k, obs.settlement, Number)' =
                                  Answer(k, obs.settlement, Number)
      BY <2>3, SameHand
    <2>6. ChainAttributed(obs.settlement)'
      BY <2>2, <2>3 DEF TrueInv, ChainAttributed
    <2> HIDE DEF v
    <2>7. Vetted(obs.pc, reads)'
      <3>1. Vetted(Following(name), reads')
        BY <1>0, <2>1, <2>2, VettedOnce DEF TrueInv
      <3> QED
        BY <2>3, <2>5, <3>1 DEF Vetted, CodeDrift, SlotDrift,
           ImplementationDrift, Race, Unattributable
    <2>8. ASSUME obs.settlement \notin abandoned PROVE Matched'
      <3>1. /\ Hash(chain, Number) = obs.settlement /\ Matched
            /\ Number \in 2..Len(chain)
        BY <1>0, <2>2, <2>8
           DEF TrueInv, SnapInv, Tracked, Canonical, Reached, Number
      <3>2. Answer(name, obs.settlement, Number) = v
        BY <1>0, <2>2, <3>1, AnswerSame DEF v
      <3>3. ASSUME NEW k \in ReadNames, Passed(k, Following(name))
            PROVE  reads'[k] = Answer(k, obs.settlement, Number)
        <4>1. CASE k = name
          BY <1>0, <2>1, <3>2, <4>1
        <4>2. CASE k # name
          <5>1. Passed(k, obs.pc)
            BY <2>1, <3>3, <4>2, OneMorePassed
          <5> QED
            BY <1>0, <2>1, <3>1, <4>2, <5>1 DEF Matched
        <4> QED
          BY <4>1, <4>2
      <3> QED
        BY <2>3, <2>5, <3>3 DEF Matched
    <2> QED
      BY <1>1, <1>2, <2>3, <2>4, <2>6, <2>7, <2>8 DEF TrueInv
  <1>11. ASSUME NEW believes \in BOOLEAN, RecheckBlock(believes),
                obs' # Inconclusive
         PROVE  TrueInv'
    <2> DEFINE verdict == DetectPaymentDivergence(Truth(reads), believes,
                                                  Required)
    <2>1. /\ StillCanonical /\ obs.pc = "recheckBlock" /\ reads' = reads
          /\ obs' = [obs EXCEPT !.pc = "done", !.believes = believes,
                                !.verdict = verdict]
      BY <1>11 DEF RecheckBlock
    <2> HIDE DEF verdict
    <2>2. /\ obs'.settlement = obs.settlement /\ obs'.exact = obs.exact
          /\ obs'.pc = "done" /\ Holding /\ obs'.believes = believes
          /\ obs'.verdict = verdict
      BY <1>0, <2>1 DEF Observation, Holding
    <2>3. obs.settlement \notin abandoned
      BY <1>0, <2>1, <2>2 DEF StillCanonical, Canonical, Reached, Number, TrueInv,
                              SnapInv, Fresh
    <2>4. \A name \in ReadNames : Passed(name, "done") <=> Passed(name, obs.pc)
      BY <2>1, PassedAtEnds
    <2> QED
      BY <1>1, <2>1, <2>2, <2>3, <2>4, GoesOn DEF verdict
  <1>12. CASE RpcFails
    BY <1>4, <1>12 DEF RpcFails
  <1> QED
    BY <1>4, <1>5, <1>6, <1>7, <1>8, <1>9, <1>10, <1>11, <1>12 DEF Observe

\* TrueInv is inductive if no abandoned block becomes canonical again.
LEMMA NextTrue ==
    ASSUME ~Flips
    PROVE  TrueInv /\ [Next]_vars => TrueInv'
  <1> SUFFICES ASSUME TrueInv, [Next]_vars PROVE TrueInv'
    OBVIOUS
  <1>1. SnapInv'
    BY NextSnap DEF TrueInv
  <1>2. CASE ChainMoves
    <2>1. abandoned \subseteq abandoned'
      BY <1>2, ChainStepFresh DEF ChainMoves, TrueInv, SnapInv, TypeInv, TypeOK
    <2> QED
      BY <1>1, <1>2, <2>1, ChainTrue
  <1>3. CASE UNCHANGED vars
    <2>1. UNCHANGED <<obs, reads>> /\ chain' = chain /\ abandoned' = abandoned
      BY <1>3 DEF vars, chainVars
    <2>2. ChainAttributed(chain)' <=> ChainAttributed(chain)
      BY <2>1 DEF ChainAttributed
    <2> QED
      BY <1>1, <2>1, <2>2, SameObserver DEF TrueInv
  <1> QED
    BY <1>1, <1>2, <1>3, ObserveTrue DEF Next

\* What a verdict rests on: every read that was due, at the settlement's block.
LEMMA EvidenceIs ==
    ASSUME TrueInv, obs.pc = "done", NEW name \in ReadNames, Due(name)
    PROVE  /\ reads[name] = Answer(name, obs.settlement, Number)
           /\ Passed(name, "done")
  <1>1. Rank("done") = 11
    BY DEF Rank
  <1>2. Passed(name, "done")
    BY <1>1, Ranks DEF Passed, ReadNames
  <1> QED
    BY <1>2 DEF TrueInv, Matched, Holding

\* No verdict rests on a token whose code, proxy slot or implementation is not
\* the attested one, on whichever side of a fork the upgrade was
\* (rails.py:669-694, 898-904).
THEOREM VerdictsAreOnReviewedCode ==
    ASSUME ~Flips
    PROVE  Spec => []OnlyReviewedCode
  <1>1. TrueInv => OnlyReviewedCode
    <2> SUFFICES ASSUME TrueInv, obs.pc = "done", Pinned
                 PROVE  Receipt.code /\ (Proxy => Receipt.slot /\ Receipt.implCode)
      BY DEF OnlyReviewedCode
    <2>1. Vetted("done", reads)
      BY DEF TrueInv, Holding
    <2>2. Receipt.code
      <3>1. reads["code"] = Receipt.code /\ Passed("code", "done")
        BY EvidenceIs DEF Due, ReadNames, Answer, Receipt
      <3> QED
        BY <2>1, <3>1 DEF Vetted, CodeDrift
    <2>3. ASSUME Proxy PROVE Receipt.slot /\ Receipt.implCode
      <3>1. reads["slot"] = Receipt.slot /\ Passed("slot", "done")
        BY <2>3, EvidenceIs DEF Due, ReadNames, Answer, Receipt
      <3>2. reads["implCode"] = Receipt.implCode /\ Passed("implCode", "done")
        BY <2>3, EvidenceIs DEF Due, ReadNames, Answer, Receipt
      <3> QED
        BY <2>1, <3>1, <3>2 DEF Vetted, SlotDrift, ImplementationDrift
    <2> QED
      BY <2>2, <2>3
  <1> QED
    BY <1>1, InitTrue, NextTrue, PTL DEF Spec

\* The verdict is the right one for what this very transaction moved, whatever
\* else was in its block, before it or after it, except that the payee may not
\* spend in that block: _ensure_no_same_block_race looks at transfers to the
\* payee and from the payer only (rails.py:802-830, 917-983).
THEOREM VerdictsAreTrue ==
    ASSUME ~Flips, "sweep" \notin Kinds
    PROVE  Spec => []VerdictIsTrue
  <1>1. TrueInv => VerdictIsTrue
    <2> SUFFICES ASSUME TrueInv, obs.pc = "done"
                 PROVE  Truth(reads) = GroundTruth
      BY DEF VerdictIsTrue, TrueInv
    <2>1. CASE Receipt.settle # "success"
      BY <2>1 DEF Truth, GroundTruth
    <2>2. CASE Receipt.settle = "success"
      <3> DEFINE c == obs.settlement
                 n == Number
      <3>1. /\ c \in Seq(Block) /\ n = Len(c) /\ n \in Nat /\ n > 1
        BY DEF TrueInv, SnapInv, TypeInv, TypeOK, Observation, Number
      <3>2. Attributed(c[n - 1], c[n]) /\ Receipt = c[n] /\ c[n] \in Block
        BY <3>1 DEF TrueInv, Holding, ChainAttributed, Receipt, Number
      <3>3. /\ reads["payerParent"] = c[n - 1].bal["payer"]
            /\ reads["payeeParent"] = c[n - 1].bal["payee"]
            /\ reads["payerAfter"] = c[n].bal["payer"]
            /\ reads["payeeAfter"] = c[n].bal["payee"]
        BY EvidenceIs DEF Due, ReadNames, Answer
      <3>4. /\ reads["inbound"] = {k \in c[n].logs : Transfers[k][2] = "payee"}
            /\ Passed("outbound", "done")
        BY <2>2, EvidenceIs DEF Due, ReadNames, Answer
      <3>5. ~Race(reads) /\ ~Unattributable(reads)
        BY <3>4 DEF TrueInv, Holding, Vetted
      <3>6. c[n].logs \cap {"gift", "replay", "sweep"} = {}
        <4>1. "sweep" \notin c[n].logs
          BY <3>2 DEF Block
        <4>2. Transfers["gift"][2] = "payee" /\ Transfers["replay"][2] = "payee"
          BY DEF Transfers
        <4>3. \A k \in reads["inbound"] : k = "settle"
          BY <3>5 DEF Race
        <4> QED
          BY <3>4, <4>1, <4>2, <4>3
      <3>7. c[n].bal["payee"] = c[n - 1].bal["payee"] + c[n].credited
        BY <3>2, <3>6 DEF Attributed
      <3>8. c[n - 1].bal["payee"] \in Int /\ c[n].credited \in Int
        <4>1. c[n - 1] \in Block
          BY <3>1
        <4> QED
          BY <3>2, <4>1 DEF Block, Accounts
      <3>9. reads["payeeAfter"] - reads["payeeParent"] = Receipt.credited
        BY <3>2, <3>3, <3>7, <3>8
      <3>10. reads["payerAfter"] - reads["payerParent"] = -Amount
        BY <3>5 DEF Unattributable
      <3> QED
        BY <2>2, <3>9, <3>10 DEF Truth, TruthFromBalances, GroundTruth
    <2> QED
      BY <2>1, <2>2
  <1> QED
    BY <1>1, InitTrue, NextTrue, PTL DEF Spec

=============================================================================
