-------------------------- MODULE RailDriftProofs ---------------------------
(***************************************************************************)
(* Proofs about capture and drift check: types for every chain, and, if no *)
(* abandoned block becomes canonical again, the truth of what the capture  *)
(* prints and the check reports.                                           *)
(***************************************************************************)
EXTENDS RailDrift, ForkingChainProofs

-----------------------------------------------------------------------------
(* Types *)

\* What a capture has got to.
PinnedCap == cap.pc \notin {"idle", "block"} /\ cap.exit \notin {2, 3}
CapCoded == PinnedCap /\ cap.pc # "code"
CapSlotted == cap.pc = "implCode" \/ (cap.exit \in {0, 1} /\ cap.proxy)
CapImplemented == cap.exit \in {0, 1} /\ cap.proxy

\* The values a capture has read by then are there.
CapTyped ==
    /\ cap.exit # None => cap.pc = "exit"
    /\ cap.pc = "exit" => cap.exit \in 0..3
    /\ cap.pc \in {"idle", "block"} => cap.domain = None
    /\ cap.exit = 0 => cap.domain # None
    /\ CapCoded => cap.code \in BOOLEAN
    /\ CapSlotted => cap.slot \in BOOLEAN
    /\ CapImplemented => cap.implCode \in BOOLEAN

TypeInv == TypeOK /\ CapTyped

\* The types hold at the start.
LEMMA InitType == Init => TypeInv
  <1> SUFFICES ASSUME Init PROVE TypeInv
    OBVIOUS
  <1>1. ChainOK
    BY ChainInitType DEF Init
  <1>2. drift \in Observers
    BY DEF Init, NoCheck, Observers, Stages
  <1>3. /\ cap \in Capture /\ cap.pc = "idle" /\ cap.exit = None
        /\ cap.domain = None
    BY DEF Init, NoCapture, Capture, CaptureStages, ExitCodes
  <1>4. TypeOK
    BY <1>1, <1>2, <1>3 DEF TypeOK, Init, NoCheck
  <1> QED
    BY <1>3, <1>4, NoneAssumption DEF TypeInv, CapTyped, CapCoded, CapSlotted,
                                      CapImplemented, PinnedCap

\* A step of the chain keeps them: its greatest height never goes down.
LEMMA ChainType ==
    ASSUME TypeInv, ChainMoves
    PROVE  TypeInv'
  <1>1. ChainOK' /\ peak' >= peak /\ peak \in Nat /\ peak' \in Nat
    BY ChainStepType DEF TypeInv, TypeOK, ChainMoves
  <1>2. drift' = drift /\ cap' = cap
    BY DEF ChainMoves
  <1>3. TypeOK'
    BY <1>1, <1>2 DEF TypeInv, TypeOK, Number
  <1> QED
    BY <1>2, <1>3 DEF TypeInv, CapTyped, CapCoded, CapSlotted, CapImplemented,
                      PinnedCap

\* The tag names a block of the chain.
LEMMA TagOnChain ==
    ASSUME ChainOK
    PROVE  TagBlock(Len(chain), TagLag) \in 1..Len(chain)
  BY CaptureAssumption DEF TagBlock, ChainOK

\* The parts of a block that are read are Booleans.
LEMMA BlockParts ==
    ASSUME NEW b \in Block, NEW reviewed \in BOOLEAN
    PROVE  /\ b.code \in BOOLEAN /\ b.slot \in BOOLEAN /\ b.implCode \in BOOLEAN
           /\ ImplementationCode(b, reviewed) \in BOOLEAN
           /\ Identity(b) \in Implementation
  <1>1. b.code \in BOOLEAN /\ b.slot \in BOOLEAN /\ b.implCode \in BOOLEAN
    BY Zenon DEF Block
  <1>2. ASSUME NEW r \in BOOLEAN PROVE ImplementationCode(b, r) \in BOOLEAN
    <2>1. CASE r
      BY <1>1, <2>1, Zenon DEF ImplementationCode
    <2>2. CASE ~r
      BY <2>2, Zenon DEF ImplementationCode
    <2> QED
      BY <2>1, <2>2
  <1>3. Identity(b) \in Implementation
    BY <1>1, <1>2, Zenon DEF Identity, Implementation
  <1> QED
    BY <1>1, <1>2, <1>3

\* A solved domain is the separator's.
LEMMA SolvedTyped ==
    ASSUME NEW separator, NEW name
    PROVE  SolveDomain(separator, name) \in {separator, None}
  BY Zenon DEF SolveDomain

\* What a step of the capture has read, and where it goes.
LEMMA CaptureReads ==
    ASSUME TypeInv, CaptureStep
    PROVE  \/ /\ cap.pc = "idle"
              /\ \E proxy \in BOOLEAN :
                   cap' = [cap EXCEPT !.pc = "block", !.proxy = proxy]
           \/ CaptureBlock
           \/ /\ cap.pc = "code" /\ Reached(cap.block)
              /\ cap' = [cap EXCEPT !.pc = "labels", !.code = Pinned.code]
           \/ /\ cap.pc = "labels"
              /\ \E name \in {Names[s] : s \in BOOLEAN} \cup {None} :
                   cap' = [cap EXCEPT !.pc = "separator", !.name = name]
           \/ \E d \in TryCall(Domains) :
                /\ cap.pc = "separator"
                /\ \/ cap.proxy /\ cap' = [cap EXCEPT !.domain = d, !.pc = "slot"]
                   \/ /\ ~cap.proxy
                      /\ cap' = [cap EXCEPT !.domain = d, !.pc = "exit",
                                   !.exit = IF d # None THEN 0 ELSE 1]
           \/ /\ cap.pc = "slot" /\ Reached(cap.block)
              /\ cap' = [cap EXCEPT !.pc = "implCode", !.slot = Pinned.slot]
           \/ /\ cap.pc = "implCode" /\ Reached(cap.block)
              /\ cap' = [cap EXCEPT
                           !.implCode = ImplementationCode(Pinned, cap.slot),
                           !.pc = "exit",
                           !.exit = IF cap.domain # None THEN 0 ELSE 1]
           \/ \E code \in {2, 3} :
                cap' = [NoCapture EXCEPT !.pc = "exit", !.exit = code]
  <1>0. cap \in Capture
    BY DEF TypeInv, TypeOK
  <1>1. ASSUME NEW d, CaptureSeparator(d)
        PROVE  \E e \in TryCall(Domains) :
                 /\ cap.pc = "separator"
                 /\ \/ cap.proxy /\ cap' = [cap EXCEPT !.domain = e, !.pc = "slot"]
                    \/ /\ ~cap.proxy
                       /\ cap' = [cap EXCEPT !.domain = e, !.pc = "exit",
                                    !.exit = IF e # None THEN 0 ELSE 1]
    <2> DEFINE e == SolveDomain(d, cap.name)
    <2>1. d \in TryCall(Domains) /\ None \in TryCall(Domains)
      BY <1>1 DEF CaptureSeparator, TryCall
    <2>2. e \in TryCall(Domains)
      BY <2>1, SolvedTyped
    <2>3. /\ cap.pc = "separator"
          /\ cap' = IF cap.proxy
                    THEN [[cap EXCEPT !.domain = e] EXCEPT !.pc = "slot"]
                    ELSE Exit([cap EXCEPT !.domain = e])
      BY <1>1 DEF CaptureSeparator
    <2> HIDE DEF e
    <2>4. /\ cap.proxy => cap' = [cap EXCEPT !.domain = e, !.pc = "slot"]
          /\ ~cap.proxy => cap' = [cap EXCEPT !.domain = e, !.pc = "exit",
                                     !.exit = IF e # None THEN 0 ELSE 1]
      BY <1>0, <2>3 DEF Exit, Capture
    <2> QED
      BY <2>2, <2>3, <2>4
  <1>2. CASE CaptureImplementation
    <2>1. /\ cap.pc = "implCode" /\ Reached(cap.block)
          /\ cap' = Exit([cap EXCEPT !.implCode = ImplementationCode(Pinned, cap.slot)])
      BY <1>2 DEF CaptureImplementation
    <2>2. cap' = [cap EXCEPT
                    !.implCode = ImplementationCode(Pinned, cap.slot),
                    !.pc = "exit",
                    !.exit = IF cap.domain # None THEN 0 ELSE 1]
      BY <1>0, <2>1 DEF Exit, Capture
    <2> QED
      BY <2>1, <2>2
  <1> QED
    BY <1>1, <1>2 DEF CaptureStep, CaptureChainId, CaptureCode, CaptureLabels,
                      CaptureSlot, CaptureFails

\* A capture that fails has read nothing.
LEMMA FailedTyped ==
    ASSUME NEW code \in {2, 3},
           cap' = [NoCapture EXCEPT !.pc = "exit", !.exit = code]
    PROVE  cap' \in Capture /\ CapTyped' /\ ~PinnedCap'
  <1>1. NoCapture \in Capture /\ code \in ExitCodes
    BY DEF NoCapture, Capture, CaptureStages, ExitCodes
  <1>2. cap' \in Capture
    BY <1>1 DEF Capture, CaptureStages
  <1>3. cap'.pc = "exit" /\ cap'.exit \in {2, 3}
    BY <1>1 DEF Capture
  <1> QED
    BY <1>2, <1>3 DEF CapTyped, CapCoded, CapSlotted, CapImplemented, PinnedCap

\* A step of the capture keeps them: each value is there once it was read.
LEMMA CaptureType ==
    ASSUME TypeInv, Calibrate
    PROVE  TypeInv'
  <1>0. /\ ChainOK /\ cap \in Capture /\ chain \in Seq(Block)
        /\ Len(chain) \in Nat \ {0} /\ drift.pc = "idle" /\ drift \in Observers
        /\ CapTyped /\ peak \in Nat /\ Len(chain) <= peak
    BY DEF TypeInv, TypeOK, ChainOK, Calibrate
  <1>1. chain' = chain /\ peak' = peak /\ drift' = drift /\ ChainOK'
    BY <1>0 DEF Calibrate, chainVars, ChainOK
  <1>2. ASSUME cap' \in Capture, CapTyped',
               PinnedCap' => Len(cap'.block) \in 1..peak
        PROVE  TypeInv'
    BY <1>0, <1>1, <1>2 DEF TypeInv, TypeOK, PinnedCap
  <1>3. CASE PinnedCap /\ cap.pc # "exit"
    <2>1. Len(cap.block) \in 1..peak /\ cap.exit = None
      BY <1>0, <1>3 DEF TypeInv, TypeOK, PinnedCap, CapTyped
    <2>2. Reached(cap.block) =>
            /\ Pinned.code \in BOOLEAN /\ Pinned.slot \in BOOLEAN
            /\ \A r \in BOOLEAN : ImplementationCode(Pinned, r) \in BOOLEAN
      <3>1. Reached(cap.block) => Pinned \in Block
        BY <1>0, <2>1 DEF Pinned, Reached
      <3> QED
        BY <3>1, BlockParts
    <2>3. CASE /\ cap.pc = "code" /\ Reached(cap.block)
               /\ cap' = [cap EXCEPT !.pc = "labels", !.code = Pinned.code]
      <3>1. /\ cap' \in Capture /\ cap'.pc = "labels" /\ cap'.code = Pinned.code
            /\ cap'.block = cap.block /\ cap'.exit = None
        BY <1>0, <2>1, <2>2, <2>3 DEF Capture, CaptureStages
      <3>2. CapTyped'
        BY <2>2, <2>3, <3>1, NoneAssumption
           DEF CapTyped, CapCoded, CapSlotted, CapImplemented
      <3> QED
        BY <1>2, <2>1, <3>1, <3>2
    <2>4. ASSUME NEW name \in {Names[s] : s \in BOOLEAN} \cup {None}, cap.pc = "labels",
                 cap' = [cap EXCEPT !.pc = "separator", !.name = name]
          PROVE  TypeInv'
      <3>1. /\ cap' \in Capture /\ cap'.pc = "separator" /\ cap'.code = cap.code
            /\ cap'.block = cap.block /\ cap'.exit = None
        BY <1>0, <2>1, <2>4 DEF Capture, CaptureStages
      <3>2. cap.code \in BOOLEAN
        BY <1>0, <1>3, <2>4 DEF CapTyped, CapCoded
      <3>3. CapTyped'
        BY <3>1, <3>2, NoneAssumption
           DEF CapTyped, CapCoded, CapSlotted, CapImplemented
      <3> QED
        BY <1>2, <2>1, <3>1, <3>3
    <2>5. ASSUME NEW d \in TryCall(Domains), cap.pc = "separator",
                 \/ cap.proxy /\ cap' = [cap EXCEPT !.domain = d, !.pc = "slot"]
                 \/ /\ ~cap.proxy
                    /\ cap' = [cap EXCEPT !.domain = d, !.pc = "exit",
                                 !.exit = IF d # None THEN 0 ELSE 1]
          PROVE  TypeInv'
      <3>1. d \in {Domains[s] : s \in BOOLEAN} \cup {None}
        BY <2>2, <2>5 DEF TryCall
      <3>2. cap.code \in BOOLEAN
        BY <1>0, <1>3, <2>5 DEF CapTyped, CapCoded
      <3>3. CASE cap.proxy
        <4>1. /\ cap' \in Capture /\ cap'.pc = "slot" /\ cap'.code = cap.code
              /\ cap'.block = cap.block /\ cap'.exit = None
          BY <1>0, <2>1, <2>5, <3>1, <3>3 DEF Capture, CaptureStages
        <4>2. CapTyped'
          BY <3>2, <4>1, NoneAssumption
             DEF CapTyped, CapCoded, CapSlotted, CapImplemented
        <4> QED
          BY <1>2, <2>1, <4>1, <4>2
      <3>4. CASE ~cap.proxy
        <4>1. /\ cap' \in Capture /\ cap'.pc = "exit" /\ cap'.code = cap.code
              /\ cap'.block = cap.block /\ cap'.exit \in {0, 1}
              /\ cap'.proxy = cap.proxy
              /\ cap'.exit = 0 => cap'.domain # None
          <5> DEFINE e == IF d # None THEN 0 ELSE 1
          <5>1. e \in {0, 1} /\ (e = 0 => d # None) /\ e \in ExitCodes
            BY DEF ExitCodes
          <5>2. cap' = [cap EXCEPT !.domain = d, !.pc = "exit", !.exit = e]
            BY <2>5, <3>4
          <5> HIDE DEF e
          <5> QED
            BY <1>0, <3>1, <5>1, <5>2 DEF Capture, CaptureStages
        <4>2. ~cap'.proxy
          BY <3>4, <4>1, Zenon
        <4>3. CapTyped'
          BY <3>2, <4>1, <4>2, NoneAssumption
             DEF CapTyped, CapCoded, CapSlotted, CapImplemented
        <4> QED
          BY <1>2, <2>1, <4>1, <4>3
      <3> QED
        BY <3>3, <3>4
    <2>6. CASE /\ cap.pc = "slot" /\ Reached(cap.block)
               /\ cap' = [cap EXCEPT !.pc = "implCode", !.slot = Pinned.slot]
      <3>1. /\ cap' \in Capture /\ cap'.pc = "implCode" /\ cap'.code = cap.code
            /\ cap'.block = cap.block /\ cap'.exit = None /\ cap'.slot = Pinned.slot
        BY <1>0, <2>1, <2>2, <2>6 DEF Capture, CaptureStages
      <3>2. cap.code \in BOOLEAN
        BY <1>0, <1>3, <2>6 DEF CapTyped, CapCoded
      <3>3. CapTyped'
        BY <2>2, <2>6, <3>1, <3>2, NoneAssumption
           DEF CapTyped, CapCoded, CapSlotted, CapImplemented
      <3> QED
        BY <1>2, <2>1, <3>1, <3>3
    <2>7. CASE /\ cap.pc = "implCode" /\ Reached(cap.block)
               /\ cap' = [cap EXCEPT
                            !.implCode = ImplementationCode(Pinned, cap.slot),
                            !.pc = "exit",
                            !.exit = IF cap.domain # None THEN 0 ELSE 1]
      <3> DEFINE code == ImplementationCode(Pinned, cap.slot)
      <3>1. cap.code \in BOOLEAN /\ cap.slot \in BOOLEAN
        BY <1>0, <1>3, <2>7 DEF CapTyped, CapCoded, CapSlotted
      <3>2. code \in BOOLEAN
        BY <2>2, <2>7, <3>1
      <3> DEFINE e == IF cap.domain # None THEN 0 ELSE 1
      <3>3. /\ cap' = [cap EXCEPT !.implCode = code, !.pc = "exit", !.exit = e]
            /\ e \in {0, 1} /\ (e = 0 => cap.domain # None) /\ e \in ExitCodes
        BY <2>7 DEF ExitCodes
      <3> HIDE DEF code, e
      <3>4. /\ cap' \in Capture /\ cap'.pc = "exit" /\ cap'.code = cap.code
            /\ cap'.block = cap.block /\ cap'.exit \in {0, 1}
            /\ cap'.slot = cap.slot /\ cap'.implCode = code
            /\ cap'.exit = 0 => cap'.domain # None
        BY <1>0, <2>1, <3>2, <3>3 DEF Capture, CaptureStages
      <3>5. CapTyped'
        BY <3>1, <3>2, <3>4, NoneAssumption
           DEF CapTyped, CapCoded, CapSlotted, CapImplemented
      <3> QED
        BY <1>2, <2>1, <3>4, <3>5
    <2>8. CASE \E code \in {2, 3} :
                 cap' = [NoCapture EXCEPT !.pc = "exit", !.exit = code]
      BY <1>2, <2>8, FailedTyped
    <2> QED
      BY <1>3, <2>3, <2>4, <2>5, <2>6, <2>7, <2>8, CaptureReads
         DEF Calibrate, CaptureBlock, PinnedCap
  <1>4. CASE ~(PinnedCap /\ cap.pc # "exit")
    <2>1. cap.pc \in {"idle", "block", "exit"}
      BY <1>0, <1>4, NoneAssumption DEF PinnedCap, CapTyped
    <2>2. CASE cap.pc = "exit"
      BY <2>2 DEF Calibrate, CaptureStep, CaptureChainId, CaptureBlock,
                  CaptureCode, CaptureLabels, CaptureSeparator, CaptureSlot,
                  CaptureImplementation, CaptureFails
    <2>3. ASSUME NEW proxy \in BOOLEAN, cap.pc = "idle",
                 cap' = [cap EXCEPT !.pc = "block", !.proxy = proxy]
          PROVE  TypeInv'
      <3>1. /\ cap' \in Capture /\ cap'.pc = "block" /\ cap'.exit = cap.exit
            /\ cap'.domain = cap.domain
        BY <1>0, <2>3 DEF Capture, CaptureStages
      <3>2. CapTyped' /\ ~PinnedCap'
        BY <1>0, <2>3, <3>1, NoneAssumption
           DEF CapTyped, CapCoded, CapSlotted, CapImplemented, PinnedCap
      <3> QED
        BY <1>2, <3>1, <3>2
    <2>4. CASE CaptureBlock
      <3> DEFINE h == Hash(chain, TagBlock(Len(chain), TagLag))
      <3>1. h \in Seq(Block) /\ Len(h) \in 1..peak
        BY <1>0, TagOnChain, HashIs
      <3>2. cap' = [cap EXCEPT !.pc = "code", !.block = h]
        BY <2>4 DEF CaptureBlock
      <3> HIDE DEF h
      <3>3. /\ cap' \in Capture /\ cap'.pc = "code" /\ cap'.exit = cap.exit
            /\ cap'.block = h
        BY <1>0, <3>1, <3>2 DEF Capture, CaptureStages
      <3>4. cap.exit = None
        BY <1>0, <2>4 DEF CapTyped, CaptureBlock
      <3>5. CapTyped'
        BY <3>3, <3>4, NoneAssumption
           DEF CapTyped, CapCoded, CapSlotted, CapImplemented
      <3> QED
        BY <1>2, <3>1, <3>3, <3>5
    <2>5. CASE \E code \in {2, 3} :
                 cap' = [NoCapture EXCEPT !.pc = "exit", !.exit = code]
      BY <1>2, <2>5, FailedTyped
    <2> QED
      BY <2>1, <2>2, <2>3, <2>4, <2>5, CaptureReads DEF Calibrate
  <1> QED
    BY <1>3, <1>4

\* A rail of the registry has a valid attestation.
LEMMA RegistryTyped ==
    ASSUME NEW a \in Registry
    PROVE  a \in Attestation /\ Valid(a)
  <1>1. Genesis \in Block
    BY GenesisTyped
  <1>2. <<Genesis>> \in Seq(Block)
    BY <1>1
  <1>3. Genesis.code \in BOOLEAN /\ Identity(Genesis) \in Implementation
    BY <1>1, BlockParts
  <1> QED
    BY <1>2, <1>3 DEF Registry, Attestation

\* So has one calibrated with what the capture printed.
LEMMA CapturedTyped ==
    ASSUME TypeInv, cap.exit = 0
    PROVE  CapturedRail \in Attestation /\ Valid(CapturedRail)
  <1>1. /\ cap \in Capture /\ cap.pc = "exit" /\ cap.code \in BOOLEAN
        /\ cap.proxy => cap.slot \in BOOLEAN /\ cap.implCode \in BOOLEAN
    BY NoneAssumption DEF TypeInv, TypeOK, CapTyped, CapCoded, CapSlotted,
                          CapImplemented, PinnedCap
  <1>2. cap.block \in Seq(Block) /\ cap.proxy \in BOOLEAN
    BY <1>1 DEF Capture
  <1> DEFINE impl == IF cap.proxy THEN [slot |-> cap.slot, code |-> cap.implCode]
                     ELSE None
  <1>3. impl \in Implementation \cup {None} /\ (cap.proxy => impl \in Implementation)
    BY <1>1, Zenon DEF Implementation
  <1>4. CapturedRail = [class |-> "mainnet", proxy |-> cap.proxy,
                        calibrated |-> TRUE, anchor |-> cap.block,
                        code |-> cap.code, impl |-> impl]
    BY DEF CapturedRail
  <1> HIDE DEF impl
  <1>5. CapturedRail \in Attestation
    BY <1>1, <1>2, <1>3, <1>4 DEF Attestation
  <1>6. /\ CapturedRail.anchor = cap.block /\ CapturedRail.code = cap.code
        /\ CapturedRail.impl = impl /\ CapturedRail.proxy = cap.proxy
    BY <1>4
  <1>7. cap.block # None /\ cap.code # None
    BY <1>1, <1>2, NoneAssumption
  <1>8. CapturedRail.proxy => CapturedRail.impl # None
    BY <1>3, <1>6, NoneAssumption, Zenon
  <1> QED
    BY <1>5, <1>6, <1>7, <1>8, Zenon DEF Valid

\* The comparison is a Boolean.
LEMMA MatchesTyped ==
    ASSUME NEW a, NEW same
    PROVE  Matches(a, same) \in BOOLEAN
  BY Zenon DEF Matches

\* A step of the check keeps them.
LEMMA CheckType ==
    ASSUME TypeInv, Check
    PROVE  TypeInv'
  <1>0. /\ ChainOK /\ drift \in Observers /\ chain \in Seq(Block)
        /\ Len(chain) \in Nat \ {0} /\ TypeOK /\ CapTyped
        /\ peak \in Nat /\ Len(chain) <= peak
    BY DEF TypeInv, TypeOK, ChainOK
  <1>1. chain' = chain /\ peak' = peak /\ ChainOK' /\ cap' = cap /\ CapTyped'
    <2>1. UNCHANGED <<chainVars, cap>>
      BY DEF Check, CheckRail, CheckChain, VerifyReviewAnchor, ReadTag,
             ReadCode, ReadSlot, ReadImplementation, Probe, Fail
    <2> QED
      BY <1>0, <2>1 DEF chainVars, ChainOK, CapTyped, CapCoded, CapSlotted,
                        CapImplemented, PinnedCap
  <1> SUFFICES TypeOK'
    BY <1>1 DEF TypeInv
  <1>2. ASSUME NEW pc \in Stages, drift' = [drift EXCEPT !.pc = pc],
               drift.pc \notin {"idle", "failed"},
               drift.pc \in {"anchor", "tag"} => pc \in {"tag", "failed"}
        PROVE  TypeOK'
    <2>1. drift' \in Observers /\ drift'.pc = pc
      BY <1>0, <1>2 DEF Observers
    <2>2. drift'.rail = drift.rail /\ drift'.block = drift.block
      BY <1>0, <1>2 DEF Observers
    <2> QED
      BY <1>0, <1>1, <1>2, <2>1, <2>2 DEF TypeOK, Number
  <1>3. CASE CheckRail
    <2>1. PICK a : CheckChain(a) /\ a \in Attestation /\ Valid(a)
      BY <1>3, RegistryTyped, CapturedTyped DEF CheckRail, TypeInv
    <2>2. drift' \in Observers /\ drift'.pc = "anchor" /\ drift'.rail = a
      BY <1>0, <2>1 DEF CheckChain, Observers, Stages
    <2> QED
      BY <1>0, <1>1, <2>1, <2>2 DEF TypeOK
  <1>4. CASE VerifyReviewAnchor
    BY <1>2, <1>4 DEF VerifyReviewAnchor, Goto, Stages
  <1>5. CASE ReadTag
    <2> DEFINE h == Hash(chain, TagBlock(Len(chain), TagLag))
    <2>1. h \in Seq(Block) /\ Len(h) \in 1..peak
      BY <1>0, TagOnChain, HashIs
    <2>2. drift' = [drift EXCEPT !.pc = "code", !.block = h]
      BY <1>5 DEF ReadTag
    <2> HIDE DEF h
    <2>3. /\ drift' \in Observers /\ drift'.pc = "code" /\ drift'.block = h
          /\ drift'.rail = drift.rail
      BY <1>0, <2>1, <2>2 DEF Observers, Stages
    <2>4. drift.pc = "tag"
      BY <1>5 DEF ReadTag
    <2> QED
      BY <1>0, <1>1, <2>1, <2>3, <2>4 DEF TypeOK, Number
  <1>6. CASE ReadCode
    <2>1. drift.pc = "code" /\ Number \in 1..Len(chain)
      BY <1>0, <1>6 DEF ReadCode, TypeOK, Reached, Number
    <2>2. At.code \in BOOLEAN
      <3>1. At \in Block
        BY <1>0, <2>1 DEF At
      <3> QED
        BY <3>1, BlockParts
    <2>3. PICK pc \in {"slot", "probes"} :
            drift' = [drift EXCEPT !.code = At.code, !.pc = pc]
      BY <1>6 DEF ReadCode
    <2>4. /\ drift' \in Observers /\ drift'.pc = pc
          /\ drift'.rail = drift.rail /\ drift'.block = drift.block
      BY <1>0, <2>2, <2>3 DEF Observers, Stages
    <2> QED
      BY <1>0, <1>1, <2>1, <2>4 DEF TypeOK, Number
  <1>7. CASE ReadSlot
    BY <1>2, <1>7 DEF ReadSlot, Goto, Stages
  <1>8. CASE ReadImplementation
    BY <1>2, <1>8 DEF ReadImplementation, Goto, Stages
  <1>9. CASE Probe
    <2> DEFINE m == Matches(Rail, drift.code)
    <2>1. m \in BOOLEAN
      BY MatchesTyped
    <2>2. drift' = [drift EXCEPT !.pc = "done", !.matches = m]
      BY <1>9 DEF Probe
    <2> HIDE DEF m
    <2>3. /\ drift' \in Observers /\ drift'.pc = "done"
          /\ drift'.rail = drift.rail /\ drift'.block = drift.block
      BY <1>0, <2>1, <2>2 DEF Observers, Stages
    <2>4. drift.pc = "probes"
      BY <1>9 DEF Probe
    <2> QED
      BY <1>0, <1>1, <2>3, <2>4 DEF TypeOK, Number
  <1>10. CASE Fail
    <2>1. drift' \in Observers /\ drift'.pc = "failed"
      <3>1. NoCheck \in Observers
        BY DEF NoCheck, Observers, Stages
      <3> QED
        BY <1>10, <3>1 DEF Fail, Observers, Stages
    <2> QED
      BY <1>0, <1>1, <2>1 DEF TypeOK
  <1> QED
    BY <1>3, <1>4, <1>5, <1>6, <1>7, <1>8, <1>9, <1>10 DEF Check

\* Every step keeps the types.
LEMMA NextType == TypeInv /\ [Next]_vars => TypeInv'
  <1> SUFFICES ASSUME TypeInv, [Next]_vars PROVE TypeInv'
    OBVIOUS
  <1>1. CASE UNCHANGED vars
    BY <1>1 DEF vars, chainVars, TypeInv, TypeOK, ChainOK, Number, CapTyped,
                CapCoded, CapSlotted, CapImplemented, PinnedCap
  <1> QED
    BY <1>1, ChainType, CaptureType, CheckType DEF Next

\* For any height of the chain, any reorganisations, lag of the finality tag
\* and attestation, a capture or a check past its tag holds a block at a height
\* the chain has had, and a rail under check has a valid attestation, also when
\* the capture made it (capture_rail_attestation.py:201-205, rails.py:708-751).
THEOREM TypeCorrect == Spec => []TypeOK
  <1>1. Init => TypeInv
    BY InitType
  <1>2. TypeInv /\ [Next]_vars => TypeInv'
    BY NextType
  <1>3. TypeInv => TypeOK
    BY DEF TypeInv
  <1> QED
    BY <1>1, <1>2, <1>3, PTL DEF Spec

-----------------------------------------------------------------------------
(* The truth of captures and reports *)

\* Whatever a capture has read is so at its block, unless that block is gone.
CapKnown(b) ==
    /\ CapCoded => cap.code = b.code
    /\ cap.domain # None => cap.domain = Domains[b.slot]
    /\ CapSlotted => cap.slot = b.slot
    /\ CapImplemented => cap.implCode = ImplementationCode(b, b.slot)

CapInv ==
    PinnedCap =>
      /\ Tracked(cap.block)
      /\ cap.block \notin abandoned => CapKnown(cap.block[Len(cap.block)])

\* An attestation pins nothing but the identity of the token at a block.
PinsOf(a, b) ==
    /\ a.code # None => a.code = b.code
    /\ a.impl # None => a.impl = Identity(b)

\* So does the attestation under check at its reviewed block, unless that
\* block is gone, in which case the check does not get past it.
AnchorInv ==
    drift.pc \notin {"idle", "failed"} /\ Rail.anchor # None =>
      /\ Len(Rail.anchor) \in Nat \ {0}
      /\ \/ PinsOf(Rail, Rail.anchor[Len(Rail.anchor)])
         \/ drift.pc = "anchor" /\ Rail.anchor \in abandoned
         \/ drift.pc # "anchor" /\ ~Rail.calibrated

\* The check holds a block; it has the code of that block, the slot, the
\* implementation.
Tagged == drift.pc \in {"code", "slot", "implCode", "probes", "done"}
PastCode == drift.pc \in {"slot", "implCode", "probes", "done"}
PastSlot == drift.pc \in {"implCode", "probes", "done"}
PastProxy == drift.pc \in {"probes", "done"}

\* Whatever the check knows is so at its block, unless that block is gone.
KnownAt(b) ==
    /\ PastCode => drift.code = b.code
    /\ PastSlot /\ Rail.proxy => Rail.impl # None /\ b.slot = Rail.impl.slot
    /\ PastProxy /\ Rail.proxy =>
         ImplementationCode(b, Rail.impl.slot) = Rail.impl.code
    /\ drift.pc = "done" => drift.matches = Matches(Rail, drift.code)

BlockInv ==
    Tagged =>
      /\ Tracked(drift.block)
      /\ drift.block \notin abandoned => KnownAt(drift.block[Number])

DriftInv == TypeInv /\ Fresh /\ CapInv /\ AnchorInv /\ BlockInv

\* The chain moves: what is known stays so at its block, which stays canonical
\* or is abandoned for good.
LEMMA ChainKnown ==
    ASSUME ~Flips, DriftInv, ChainMoves
    PROVE  DriftInv'
  <1>1. TypeInv'
    BY ChainType DEF DriftInv
  <1>2. /\ Fresh' /\ abandoned \subseteq abandoned'
        /\ \A h \in Seq(Block) : Len(h) > 0 /\ Tracked(h) => Tracked(h)'
    BY ChainStepFresh DEF DriftInv, TypeInv, TypeOK, ChainMoves
  <1>3. drift' = drift /\ cap' = cap
    BY DEF ChainMoves
  <1>4. CapInv'
    <2>1. PinnedCap => cap.block \in Seq(Block) /\ Len(cap.block) > 0
      BY DEF DriftInv, TypeInv, TypeOK, PinnedCap, Capture
    <2>2. PinnedCap' => Tracked(cap.block)'
      BY <1>2, <1>3, <2>1 DEF DriftInv, CapInv, PinnedCap, Tracked, Canonical,
                              Reached
    <2>3. PinnedCap' /\ cap'.block \notin abandoned' =>
            CapKnown(cap.block[Len(cap.block)])'
      BY <1>2, <1>3 DEF DriftInv, CapInv, CapKnown, PinnedCap, CapCoded,
                        CapSlotted, CapImplemented
    <2> QED
      BY <2>2, <2>3 DEF CapInv
  <1>5. AnchorInv'
    BY <1>2, <1>3 DEF DriftInv, AnchorInv, PinsOf, Rail
  <1>6. BlockInv'
    <2>1. Tagged => drift.block \in Seq(Block) /\ Len(drift.block) > 0
      BY DEF DriftInv, TypeInv, TypeOK, Tagged, Number, Observers
    <2>2. Tagged' => Tracked(drift.block)'
      BY <1>2, <1>3, <2>1 DEF DriftInv, BlockInv, Tagged, Tracked, Canonical,
                              Reached
    <2>3. Tagged' /\ drift'.block \notin abandoned' =>
            KnownAt(drift.block[Number])'
      BY <1>2, <1>3 DEF DriftInv, BlockInv, Tagged, KnownAt, PastCode, PastSlot,
                        PastProxy, Rail, Number
    <2> QED
      BY <2>2, <2>3 DEF BlockInv
  <1> QED
    BY <1>1, <1>2, <1>4, <1>5, <1>6 DEF DriftInv

\* While a block is canonical, a read by its number is a read of that block.
LEMMA AtBlock ==
    ASSUME ChainOK, NEW h \in Seq(Block), Len(h) > 0, Tracked(h),
           h \notin abandoned
    PROVE  chain[Len(h)] = h[Len(h)] /\ chain[Len(h)] \in Block
  <1>1. /\ chain \in Seq(Block) /\ Len(h) \in 1..Len(chain)
        /\ Hash(chain, Len(h)) = h
    BY DEF ChainOK, Tracked, Canonical, Reached
  <1>2. Hash(chain, Len(h))[Len(h)] = chain[Len(h)]
    BY <1>1, HashIs
  <1> QED
    BY <1>1, <1>2

\* The capture reads: what it learns is so at its block.
LEMMA CaptureKnown ==
    ASSUME DriftInv, Calibrate
    PROVE  DriftInv'
  <1>0. /\ ChainOK /\ cap \in Capture /\ CapTyped /\ TypeInv /\ TypeInv'
        /\ chain \in Seq(Block) /\ Len(chain) \in Nat \ {0}
        /\ drift.pc = "idle" /\ drift' = drift
        /\ chain' = chain /\ abandoned' = abandoned
    BY CaptureType DEF DriftInv, TypeInv, TypeOK, ChainOK, Calibrate, chainVars
  <1>1. Fresh' /\ AnchorInv' /\ BlockInv'
    BY <1>0 DEF DriftInv, Fresh, AnchorInv, BlockInv, Tagged
  <1>2. ASSUME CapInv' PROVE DriftInv'
    BY <1>0, <1>1, <1>2 DEF DriftInv
  <1>3. ASSUME ~PinnedCap' PROVE DriftInv'
    BY <1>2, <1>3 DEF CapInv
  <1>4. ASSUME cap'.block = cap.block, PinnedCap,
               cap.block \notin abandoned =>
                 CapKnown(cap.block[Len(cap.block)])'
        PROVE  DriftInv'
    BY <1>0, <1>2, <1>4 DEF DriftInv, CapInv, Tracked, Canonical, Reached
  <1>5. ASSUME PinnedCap, cap.block \notin abandoned
        PROVE  /\ Pinned = cap.block[Len(cap.block)] /\ Pinned \in Block
               /\ CapKnown(Pinned)
    <2>1. cap.block \in Seq(Block) /\ Len(cap.block) > 0 /\ Tracked(cap.block)
      BY <1>0, <1>5 DEF DriftInv, TypeInv, TypeOK, PinnedCap, Capture, CapInv
    <2>2. Pinned = cap.block[Len(cap.block)] /\ Pinned \in Block
      BY <1>0, <1>5, <2>1, AtBlock DEF Pinned
    <2> QED
      BY <1>5, <2>2 DEF DriftInv, CapInv
  <1>6. CASE CaptureBlock
    <2> DEFINE n == TagBlock(Len(chain), TagLag)
    <2>1. n \in 1..Len(chain)
      BY <1>0, TagOnChain
    <2> HIDE DEF n
    <2>2. /\ cap'.pc = "code" /\ cap'.block = Hash(chain, n)
          /\ cap'.domain = cap.domain /\ cap'.exit = cap.exit
      BY <1>0, <1>6 DEF CaptureBlock, Capture, n
    <2>3. Len(Hash(chain, n)) = n
      BY <1>0, <2>1, HashIs
    <2>4. Tracked(cap.block)'
      BY <1>0, <2>1, <2>2, <2>3 DEF Tracked, Canonical, Reached
    <2>5. cap.exit = None /\ cap.domain = None
      BY <1>0, <1>6 DEF CapTyped, CaptureBlock
    <2>6. CapKnown(cap.block[Len(cap.block)])'
      BY <2>2, <2>5, NoneAssumption
         DEF CapKnown, CapCoded, CapSlotted, CapImplemented
    <2> QED
      BY <1>2, <2>4, <2>6 DEF CapInv
  <1>7. ASSUME NEW proxy \in BOOLEAN, cap.pc = "idle",
               cap' = [cap EXCEPT !.pc = "block", !.proxy = proxy]
        PROVE  DriftInv'
    <2>1. cap'.pc = "block"
      BY <1>0, <1>7 DEF Capture
    <2> QED
      BY <1>3, <2>1 DEF PinnedCap
  <1>8. CASE \E code \in {2, 3} :
               cap' = [NoCapture EXCEPT !.pc = "exit", !.exit = code]
    BY <1>3, <1>8, FailedTyped
  <1>9. ASSUME PinnedCap, cap.pc # "exit",
               \/ /\ cap.pc = "code"
                  /\ cap' = [cap EXCEPT !.pc = "labels", !.code = Pinned.code]
               \/ /\ cap.pc = "slot"
                  /\ cap' = [cap EXCEPT !.pc = "implCode", !.slot = Pinned.slot]
        PROVE  DriftInv'
    <2>1. cap.exit = None
      BY <1>0, <1>9 DEF CapTyped
    <2>2. /\ cap'.block = cap.block /\ cap'.domain = cap.domain /\ cap'.exit = None
          /\ \/ /\ cap.pc = "code" /\ cap'.pc = "labels" /\ cap'.code = Pinned.code
             \/ /\ cap.pc = "slot" /\ cap'.pc = "implCode" /\ cap'.slot = Pinned.slot
                /\ cap'.code = cap.code
      BY <1>0, <1>9, <2>1 DEF Capture
    <2>3. ASSUME cap.block \notin abandoned
          PROVE  CapKnown(cap.block[Len(cap.block)])'
      BY <1>5, <1>9, <2>1, <2>2, <2>3, NoneAssumption
         DEF CapKnown, CapCoded, CapSlotted, CapImplemented
    <2> QED
      BY <1>4, <1>9, <2>2, <2>3
  <1>10. ASSUME NEW name \in {Names[s] : s \in BOOLEAN} \cup {None},
                PinnedCap, cap.pc = "labels",
                cap' = [cap EXCEPT !.pc = "separator", !.name = name]
         PROVE  DriftInv'
    <2>1. /\ cap'.block = cap.block /\ cap'.domain = cap.domain
          /\ cap'.exit = cap.exit /\ cap'.pc = "separator" /\ cap'.code = cap.code
      BY <1>0, <1>10 DEF Capture
    <2>2. cap.exit = None
      BY <1>0, <1>10 DEF CapTyped
    <2>3. ASSUME cap.block \notin abandoned
          PROVE  CapKnown(cap.block[Len(cap.block)])'
      BY <1>5, <1>10, <2>1, <2>2, <2>3, NoneAssumption
         DEF CapKnown, CapCoded, CapSlotted, CapImplemented
    <2> QED
      BY <1>4, <1>10, <2>1, <2>3
  <1>11. ASSUME NEW d \in TryCall(Domains), PinnedCap,
                cap.pc = "separator",
                \/ cap.proxy /\ cap' = [cap EXCEPT !.domain = d, !.pc = "slot"]
                \/ /\ ~cap.proxy
                   /\ cap' = [cap EXCEPT !.domain = d, !.pc = "exit",
                                !.exit = IF d # None THEN 0 ELSE 1]
         PROVE  DriftInv'
    <2>1. /\ cap'.block = cap.block /\ cap'.domain = d /\ cap'.code = cap.code
          /\ cap'.proxy = cap.proxy /\ cap'.pc # "implCode"
          /\ cap.proxy => cap'.exit = cap.exit
      BY <1>0, <1>11 DEF Capture
    <2>2. cap.exit = None
      BY <1>0, <1>11 DEF CapTyped
    <2>3. ~CapSlotted' /\ ~CapImplemented'
      BY <2>1, <2>2, NoneAssumption DEF CapSlotted, CapImplemented
    <2>4. ASSUME cap.block \notin abandoned
          PROVE  CapKnown(cap.block[Len(cap.block)])'
      <3>1. cap.code = Pinned.code /\ Pinned = cap.block[Len(cap.block)]
        BY <1>5, <1>11, <2>4 DEF CapKnown, CapCoded
      <3> QED
        BY <1>11, <2>1, <2>3, <3>1 DEF CapKnown, TryCall
    <2> QED
      BY <1>4, <1>11, <2>1, <2>4
  <1>12. ASSUME PinnedCap, cap.pc = "implCode",
                cap' = [cap EXCEPT
                          !.implCode = ImplementationCode(Pinned, cap.slot),
                          !.pc = "exit",
                          !.exit = IF cap.domain # None THEN 0 ELSE 1]
         PROVE  DriftInv'
    <2>1. /\ cap'.block = cap.block /\ cap'.domain = cap.domain
          /\ cap'.code = cap.code /\ cap'.slot = cap.slot
          /\ cap'.implCode = ImplementationCode(Pinned, cap.slot)
      BY <1>0, <1>12 DEF Capture
    <2>2. ASSUME cap.block \notin abandoned
          PROVE  CapKnown(cap.block[Len(cap.block)])'
      <3>1. /\ Pinned = cap.block[Len(cap.block)] /\ cap.code = Pinned.code
            /\ cap.slot = Pinned.slot
            /\ cap.domain # None => cap.domain = Domains[Pinned.slot]
        BY <1>5, <1>12, <2>2 DEF CapKnown, CapCoded, CapSlotted
      <3> QED
        BY <2>1, <3>1 DEF CapKnown
    <2> QED
      BY <1>4, <1>12, <2>1, <2>2
  <1>13. cap.pc \in {"code", "labels", "separator", "slot", "implCode"} => PinnedCap
    BY <1>0, NoneAssumption DEF CapTyped, PinnedCap
  <1> QED
    BY <1>0, <1>6, <1>7, <1>8, <1>9, <1>10, <1>11, <1>12, <1>13, CaptureReads
       DEF Calibrate

\* An attestation of the registry is true of the first block.
LEMMA RegistryPins ==
    ASSUME NEW a \in Registry, a.anchor # None
    PROVE  /\ Len(a.anchor) \in Nat \ {0}
           /\ PinsOf(a, a.anchor[Len(a.anchor)])
  <1>1. /\ a.anchor = <<Genesis>> /\ a.code \in {Genesis.code, None}
        /\ a.impl \in {Identity(Genesis), None}
    BY DEF Registry
  <1>2. Len(a.anchor) = 1 /\ a.anchor[1] = Genesis
    BY <1>1
  <1> QED
    BY <1>1, <1>2 DEF PinsOf

\* What the capture printed is true of its block, unless that block is gone.
LEMMA CapturedPins ==
    ASSUME DriftInv, cap.exit = 0
    PROVE  /\ Len(CapturedRail.anchor) \in Nat \ {0}
           /\ \/ PinsOf(CapturedRail, CapturedRail.anchor[Len(CapturedRail.anchor)])
              \/ CapturedRail.anchor \in abandoned
  <1>1. PinnedCap /\ CapCoded /\ Len(cap.block) \in Nat \ {0}
    BY NoneAssumption DEF DriftInv, TypeInv, TypeOK, CapTyped, PinnedCap, CapCoded
  <1>2. CapturedRail.anchor = cap.block /\ CapturedRail.code = cap.code
    BY DEF CapturedRail
  <1>3. ASSUME cap.block \notin abandoned, NEW b, b = cap.block[Len(cap.block)]
        PROVE  PinsOf(CapturedRail, b)
    <2>1. CapKnown(b)
      BY <1>1, <1>3 DEF DriftInv, CapInv
    <2>2. cap.code = b.code
      BY <1>1, <2>1 DEF CapKnown
    <2>3. CASE cap.proxy
      <3>1. cap.slot = b.slot /\ cap.implCode = ImplementationCode(b, b.slot)
        BY <2>1, <2>3 DEF CapKnown, CapSlotted, CapImplemented
      <3>2. CapturedRail.impl = Identity(b)
        BY <2>3, <3>1 DEF CapturedRail, Identity
      <3> QED
        BY <1>2, <2>2, <3>2 DEF PinsOf
    <2>4. CASE ~cap.proxy
      <3>1. CapturedRail.impl = None
        BY <2>4 DEF CapturedRail
      <3> QED
        BY <1>2, <2>2, <3>1 DEF PinsOf
    <2> QED
      BY <2>3, <2>4
  <1> QED
    BY <1>1, <1>2, <1>3

\* The check reads: what it learns is so at its block.
LEMMA CheckKnown ==
    ASSUME DriftInv, Check
    PROVE  DriftInv'
  <1>0. /\ ChainOK /\ drift \in Observers /\ chain \in Seq(Block)
        /\ Len(chain) \in Nat \ {0} /\ TypeInv /\ TypeInv'
    BY CheckType DEF DriftInv, TypeInv, TypeOK, ChainOK
  <1>1. chain' = chain /\ abandoned' = abandoned /\ cap' = cap
    BY DEF Check, CheckRail, CheckChain, VerifyReviewAnchor, ReadTag, ReadCode,
           ReadSlot, ReadImplementation, Probe, Fail, chainVars
  <1>2. Fresh' /\ CapInv'
    BY <1>1 DEF DriftInv, Fresh, CapInv, CapKnown, PinnedCap, CapCoded,
                CapSlotted, CapImplemented, Tracked, Canonical, Reached
  <1>3. ASSUME ~Tagged', AnchorInv' PROVE DriftInv'
    BY <1>0, <1>2, <1>3 DEF DriftInv, BlockInv
  <1>4. ASSUME drift'.block = drift.block, drift'.rail = drift.rail,
               Tagged, Tagged',
               drift.block \notin abandoned => KnownAt(drift.block[Number])'
        PROVE  DriftInv'
    <2>1. BlockInv'
      BY <1>1, <1>4 DEF DriftInv, BlockInv, Tracked, Canonical, Reached
    <2>2. AnchorInv'
      BY <1>1, <1>4 DEF DriftInv, AnchorInv, PinsOf, Rail, Tagged
    <2> QED
      BY <1>0, <1>2, <2>1, <2>2 DEF DriftInv
  <1>5. ASSUME Tagged, drift.block \notin abandoned
         PROVE  At = drift.block[Number] /\ At \in Block /\ KnownAt(At)
    <2>1. /\ drift.block \in Seq(Block) /\ Len(drift.block) > 0
          /\ Tracked(drift.block)
      BY <1>0, <1>5 DEF DriftInv, BlockInv, TypeInv, TypeOK, Tagged, Number,
                         Observers
    <2>2. At = drift.block[Number] /\ At \in Block
      BY <1>0, <1>5, <2>1, AtBlock DEF At, Number
    <2> QED
      BY <1>5, <2>2 DEF DriftInv, BlockInv
  <1>6. CASE CheckRail
    <2>1. PICK a : /\ CheckChain(a)
                   /\ \/ a \in Registry
                      \/ cap.exit = 0 /\ a = CapturedRail
      BY <1>6 DEF CheckRail
    <2>2. drift'.pc = "anchor" /\ drift'.rail = a
      BY <1>0, <2>1 DEF CheckChain, Observers
    <2>3. a.anchor # None =>
            /\ Len(a.anchor) \in Nat \ {0}
            /\ PinsOf(a, a.anchor[Len(a.anchor)]) \/ a.anchor \in abandoned
      BY <1>0, <2>1, RegistryPins, CapturedPins DEF DriftInv
    <2>4. AnchorInv'
      BY <1>1, <2>2, <2>3 DEF AnchorInv, Rail, PinsOf
    <2> QED
      BY <1>3, <2>2, <2>4 DEF Tagged
  <1>7. CASE VerifyReviewAnchor
    <2>1. /\ drift.pc = "anchor" /\ drift'.pc = "tag" /\ drift'.rail = drift.rail
          /\ Rail.calibrated /\ Rail.anchor # None => Canonical(Rail.anchor)
      BY <1>0, <1>7 DEF VerifyReviewAnchor, Goto, Observers
    <2>2. ASSUME Rail.calibrated, Rail.anchor # None
          PROVE  PinsOf(Rail, Rail.anchor[Len(Rail.anchor)])
      <3>1. /\ Len(Rail.anchor) \in Nat \ {0}
            /\ \/ PinsOf(Rail, Rail.anchor[Len(Rail.anchor)])
               \/ Rail.anchor \in abandoned
        BY <2>1, <2>2 DEF DriftInv, AnchorInv
      <3>2. /\ Len(Rail.anchor) \in 1..Len(chain)
            /\ Hash(chain, Len(Rail.anchor)) = Rail.anchor
        BY <1>0, <2>1, <2>2, <3>1 DEF Canonical, Reached
      <3>3. Rail.anchor \notin abandoned
        BY <3>2 DEF DriftInv, Fresh
      <3> QED
        BY <3>1, <3>3
    <2>3. AnchorInv'
      <3>1. Rail' = Rail
        BY <2>1 DEF Rail
      <3>2. Rail.anchor # None => Len(Rail.anchor) \in Nat \ {0}
        BY <2>1 DEF DriftInv, AnchorInv
      <3> QED
        BY <1>1, <2>1, <2>2, <3>1, <3>2 DEF AnchorInv, PinsOf
    <2> QED
      BY <1>3, <2>1, <2>3 DEF Tagged
  <1>8. CASE ReadTag
    <2> DEFINE n == TagBlock(Len(chain), TagLag)
    <2>1. n \in 1..Len(chain)
      BY <1>0, TagOnChain
    <2> HIDE DEF n
    <2>2. /\ drift.pc = "tag" /\ drift'.pc = "code"
          /\ drift'.block = Hash(chain, n) /\ drift'.rail = drift.rail
      BY <1>0, <1>8 DEF ReadTag, Observers, n
    <2>3. Len(Hash(chain, n)) = n
      BY <1>0, <2>1, HashIs
    <2>4. Tracked(drift.block)'
      BY <1>0, <1>1, <2>1, <2>2, <2>3 DEF Tracked, Canonical, Reached
    <2>5. KnownAt(drift.block[Number])'
      BY <2>2 DEF KnownAt, PastCode, PastSlot, PastProxy
    <2>6. AnchorInv'
      BY <1>1, <2>2 DEF DriftInv, AnchorInv, PinsOf, Rail
    <2> QED
      BY <1>0, <1>2, <2>4, <2>5, <2>6 DEF DriftInv, BlockInv
  <1>9. CASE ReadCode
    <2>1. drift.pc = "code"
      BY <1>9 DEF ReadCode
    <2>2. /\ drift'.block = drift.block /\ drift'.rail = drift.rail
          /\ drift'.code = At.code
          /\ drift'.pc = IF drift.rail.proxy THEN "slot" ELSE "probes"
      BY <1>0, <1>9 DEF ReadCode, Observers, Rail
    <2>3. ASSUME drift.block \notin abandoned
          PROVE  KnownAt(drift.block[Number])'
      <3>1. At = drift.block[Number]
        BY <1>5, <2>1, <2>3 DEF Tagged
      <3> QED
        BY <2>2, <3>1 DEF KnownAt, PastCode, PastSlot, PastProxy, Rail, Number
    <2> QED
      BY <1>4, <2>1, <2>2, <2>3 DEF Tagged
  <1>10. CASE ReadSlot
    <2>1. /\ drift.pc = "slot" /\ drift'.pc = "implCode"
          /\ Rail.impl # None /\ At.slot = Rail.impl.slot
          /\ drift'.block = drift.block /\ drift'.rail = drift.rail
          /\ drift'.code = drift.code
      BY <1>0, <1>10 DEF ReadSlot, Goto, Observers
    <2>2. ASSUME drift.block \notin abandoned
          PROVE  KnownAt(drift.block[Number])'
      <3>1. At = drift.block[Number] /\ drift.code = At.code
        BY <1>5, <2>1, <2>2 DEF Tagged, KnownAt, PastCode
      <3> QED
        BY <2>1, <3>1 DEF KnownAt, PastProxy, Rail, Number
    <2> QED
      BY <1>4, <2>1, <2>2 DEF Tagged
  <1>11. CASE ReadImplementation
    <2>1. /\ drift.pc = "implCode" /\ drift'.pc = "probes"
          /\ ImplementationCode(At, Rail.impl.slot) = Rail.impl.code
          /\ drift'.block = drift.block /\ drift'.rail = drift.rail
          /\ drift'.code = drift.code
      BY <1>0, <1>11 DEF ReadImplementation, Goto, Observers
    <2>2. ASSUME drift.block \notin abandoned
          PROVE  KnownAt(drift.block[Number])'
      <3>1. /\ At = drift.block[Number] /\ drift.code = At.code
            /\ Rail.proxy => Rail.impl # None /\ At.slot = Rail.impl.slot
        BY <1>5, <2>1, <2>2 DEF Tagged, KnownAt, PastCode, PastSlot
      <3> QED
        BY <2>1, <3>1 DEF KnownAt, Rail, Number
    <2> QED
      BY <1>4, <2>1, <2>2 DEF Tagged
  <1>12. CASE Probe
    <2>1. /\ drift.pc = "probes" /\ drift'.pc = "done"
          /\ drift'.block = drift.block /\ drift'.rail = drift.rail
          /\ drift'.code = drift.code
          /\ drift'.matches = Matches(drift.rail, drift.code)
      BY <1>0, <1>12 DEF Probe, Observers, Rail
    <2>2. (drift.matches = Matches(Rail, drift.code))'
      BY <2>1, Zenon DEF Rail, Matches
    <2>3. ASSUME drift.block \notin abandoned
          PROVE  KnownAt(drift.block[Number])'
      <3>1. /\ drift.code = drift.block[Number].code
            /\ Rail.proxy =>
                 /\ Rail.impl # None /\ drift.block[Number].slot = Rail.impl.slot
                 /\ ImplementationCode(drift.block[Number], Rail.impl.slot)
                      = Rail.impl.code
        BY <1>5, <2>1, <2>3 DEF Tagged, KnownAt, PastCode, PastSlot, PastProxy
      <3> QED
        BY <2>1, <2>2, <3>1 DEF KnownAt, Rail, Number
    <2> QED
      BY <1>4, <2>1, <2>3 DEF Tagged
  <1>13. CASE Fail
    <2>1. drift'.pc = "failed"
      BY <1>13 DEF Fail, NoCheck
    <2> QED
      BY <1>3, <2>1 DEF Tagged, AnchorInv
  <1> QED
    BY <1>6, <1>7, <1>8, <1>9, <1>10, <1>11, <1>12, <1>13 DEF Check

\* Every step keeps the invariant.
LEMMA NextKnown ==
    ASSUME ~Flips
    PROVE  DriftInv /\ [Next]_vars => DriftInv'
  <1> SUFFICES ASSUME DriftInv, [Next]_vars PROVE DriftInv'
    OBVIOUS
  <1>1. CASE UNCHANGED vars
    <2>1. TypeInv'
      BY NextType DEF DriftInv
    <2>2. CapInv'
      BY <1>1 DEF vars, chainVars, DriftInv, CapInv, CapKnown, PinnedCap,
                  CapCoded, CapSlotted, CapImplemented, Tracked, Canonical,
                  Reached
    <2>3. AnchorInv'
      BY <1>1 DEF vars, chainVars, DriftInv, AnchorInv, PinsOf, Rail
    <2>4. BlockInv'
      BY <1>1 DEF vars, chainVars, DriftInv, BlockInv, Tagged, Tracked, KnownAt,
                  PastCode, PastSlot, PastProxy, Rail, Number, Canonical, Reached
    <2> QED
      BY <1>1, <2>1, <2>2, <2>3, <2>4 DEF vars, chainVars, DriftInv, Fresh
  <1> QED
    BY <1>1, ChainKnown, CaptureKnown, CheckKnown DEF Next

\* It holds at the start.
LEMMA InitKnown == Init => DriftInv
  <1> SUFFICES ASSUME Init PROVE DriftInv
    OBVIOUS
  <1>1. TypeInv /\ drift.pc = "idle" /\ cap.pc = "idle" /\ abandoned = {}
    BY InitType DEF Init, ChainInit, NoCheck, NoCapture
  <1>2. Fresh
    BY <1>1 DEF Fresh
  <1> QED
    BY <1>1, <1>2 DEF DriftInv, CapInv, PinnedCap, AnchorInv, BlockInv, Tagged

\* It is an invariant.
LEMMA Known ==
    ASSUME ~Flips
    PROVE  Spec => []DriftInv
  <1>1. Init => DriftInv
    BY InitKnown
  <1>2. DriftInv /\ [Next]_vars => DriftInv'
    BY NextKnown
  <1> QED
    BY <1>1, <1>2, PTL DEF Spec

\* A canonical block of a capture or a check was not abandoned.
LEMMA CanonicalIsFresh ==
    ASSUME DriftInv, NEW h, Len(h) \in Nat \ {0}, Canonical(h)
    PROVE  h \notin abandoned
  BY DEF DriftInv, Fresh, TypeInv, TypeOK, ChainOK, Canonical, Reached

\* If no abandoned block becomes canonical again, an attestation the tool
\* prints with exit code 0 is true of the block it names while that block is
\* canonical, for any number of blocks, reorganisations and upgrades
\* (capture_rail_attestation.py:195-268).
THEOREM CapturesAreTrue ==
    ASSUME ~Flips
    PROVE  Spec => []CaptureIsTrue
  <1>1. DriftInv => CaptureIsTrue
    <2> SUFFICES ASSUME DriftInv, cap.exit = 0,
                        Canonical(cap.block),
                        NEW b, b = cap.block[Len(cap.block)]
                 PROVE  TrueOf(CapturedRail, b) /\ cap.domain = Domains[b.slot]
      BY DEF CaptureIsTrue
    <2>1. /\ PinnedCap /\ CapCoded /\ cap.domain # None
          /\ Len(cap.block) \in Nat \ {0}
      BY NoneAssumption
         DEF DriftInv, TypeInv, TypeOK, CapTyped, PinnedCap, CapCoded
    <2>2. CapKnown(b)
      BY <2>1, CanonicalIsFresh DEF DriftInv, CapInv
    <2>3. CapturedRail.code = cap.code /\ CapturedRail.proxy = cap.proxy
      BY DEF CapturedRail
    <2>4. cap.code = b.code /\ cap.domain = Domains[b.slot]
      BY <2>1, <2>2 DEF CapKnown
    <2>5. ASSUME cap.proxy PROVE CapturedRail.impl = Identity(b)
      <3>1. cap.slot = b.slot /\ cap.implCode = ImplementationCode(b, b.slot)
        BY <2>2, <2>5 DEF CapKnown, CapSlotted, CapImplemented
      <3> QED
        BY <2>5, <3>1 DEF CapturedRail, Identity
    <2> QED
      BY <2>3, <2>4, <2>5 DEF TrueOf
  <1> QED
    BY <1>1, Known, PTL

\* What a report means at its block while that block is canonical.
LEMMA ReportMeans ==
    ASSUME DriftInv, Reported, Canonical(drift.block),
           NEW b, b = drift.block[Number]
    PROVE  /\ drift.matches => Rail.calibrated /\ Rail.code # None /\ b.code = Rail.code
           /\ Rail.calibrated /\ Rail.code # None /\ b.code = Rail.code
                => drift.matches
           /\ Rail.proxy => Rail.impl # None /\ Identity(b) = Rail.impl
  <1>1. drift.pc = "done" /\ Tagged /\ Rail.class # "local"
    BY DEF Reported, Tagged
  <1>2. Len(drift.block) \in Nat \ {0} /\ Rail \in Attestation
    BY <1>1 DEF DriftInv, TypeInv, TypeOK, Number, Rail
  <1>3. KnownAt(b)
    BY <1>1, <1>2, CanonicalIsFresh DEF Number, DriftInv, BlockInv
  <1>4. drift.code = b.code /\ drift.matches = Matches(Rail, b.code)
    BY <1>1, <1>3, Zenon DEF KnownAt, PastCode
  <1>5. /\ drift.matches => Rail.calibrated /\ Rail.code # None /\ b.code = Rail.code
        /\ Rail.calibrated /\ Rail.code # None /\ b.code = Rail.code
             => drift.matches
    BY <1>1, <1>4, Zenon DEF Matches
  <1>6. ASSUME Rail.proxy PROVE Rail.impl # None /\ Identity(b) = Rail.impl
    <2>1. /\ Rail.impl # None /\ b.slot = Rail.impl.slot
          /\ ImplementationCode(b, Rail.impl.slot) = Rail.impl.code
      BY <1>1, <1>3, <1>6 DEF KnownAt, PastSlot, PastProxy
    <2>2. Rail.impl \in Implementation
      BY <1>2, <2>1 DEF Attestation
    <2>3. Rail.impl = [slot |-> Rail.impl.slot, code |-> Rail.impl.code]
      BY <2>2 DEF Implementation
    <2>4. Identity(b) = [slot |-> b.slot, code |-> ImplementationCode(b, b.slot)]
      BY DEF Identity
    <2> QED
      BY <2>1, <2>3, <2>4
  <1> QED
    BY <1>5, <1>6

\* If no abandoned block becomes canonical again, every report is true of the
\* block it names while that block is canonical, for any number of blocks,
\* reorganisations and upgrades, and for a captured attestation as well
\* (rails.py:708-751).
THEOREM ReportsAreTrue ==
    ASSUME ~Flips
    PROVE  Spec => []ReportIsTrue
  <1>1. DriftInv => ReportIsTrue
    BY ReportMeans DEF ReportIsTrue
  <1> QED
    BY <1>1, Known, PTL

\* Under the same assumption a match means that the token is the one at the
\* reviewed block, although capture and check each read by number and the
\* chain may have been reorganised within the capture, within the check and
\* between the two (capture_rail_attestation.py:3-6, rails.py:697-751).
THEOREM MatchesMeanReviewed ==
    ASSUME ~Flips
    PROVE  Spec => []MatchMeansReviewed
  <1>1. DriftInv => MatchMeansReviewed
    <2> SUFFICES ASSUME DriftInv, Reported, Canonical(drift.block), drift.matches,
                        Rail.anchor # None,
                        NEW reviewed, reviewed = Rail.anchor[Len(Rail.anchor)],
                        NEW b, b = drift.block[Number]
                 PROVE  /\ b.code = reviewed.code
                        /\ Rail.proxy => Identity(b) = Identity(reviewed)
      BY DEF MatchMeansReviewed
    <2>1. /\ Rail.calibrated /\ Rail.code # None /\ b.code = Rail.code
          /\ Rail.proxy => Rail.impl # None /\ Identity(b) = Rail.impl
      BY ReportMeans
    <2>2. PinsOf(Rail, reviewed)
      BY <2>1 DEF DriftInv, AnchorInv, Reported
    <2> QED
      BY <2>1, <2>2 DEF PinsOf
  <1> QED
    BY <1>1, Known, PTL

=============================================================================
