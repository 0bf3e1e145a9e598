---------------------------- MODULE RailCapture -----------------------------
(***************************************************************************)
(* tools/capture_rail_attestation.py: one operator reads the identity of a *)
(* token at the block a finality tag names and prints the attestation a    *)
(* rail is calibrated with.  Everything is read by that block's number, in *)
(* separate calls, while the chain goes on and may be reorganised; the     *)
(* attestation carries the hash the block had.                             *)
(***************************************************************************)
EXTENDS ForkingChain

CONSTANTS
    None,
    TagLag,       \* blocks the finality tag is behind the head
    Names,        \* what name() answers: of the reviewed implementation, another
    Domains,      \* the EIP-712 domain each of the two signs under
    KnownNames,   \* _NAME_CANDIDATES
    KnownVersions \* _VERSION_CANDIDATES

ASSUME CaptureAssumption ==
    /\ TagLag \in Nat /\ DOMAIN Names = BOOLEAN /\ DOMAIN Domains = BOOLEAN
    /\ None \notin {Domains[s] : s \in BOOLEAN}

VARIABLE cap    \* the tool: where it is, what it has read, its exit code

-----------------------------------------------------------------------------
(* What a rail's attestation pins *)

Implementation == [slot : BOOLEAN, code : BOOLEAN]

Attestation ==
    [class : {"local", "testnet", "mainnet"}, proxy : BOOLEAN,
     calibrated : BOOLEAN, anchor : Seq(Block) \cup {None},
     code : BOOLEAN \cup {None}, impl : Implementation \cup {None}]

\* A calibrated mainnet attestation is complete, or cannot be built.
Valid(a) ==
    a.class = "mainnet" /\ a.calibrated =>
      a.anchor # None /\ a.code # None /\ (a.proxy => a.impl # None)

ASSUME NoneAssumption ==
    /\ None \notin Attestation /\ None \notin BOOLEAN /\ None \notin Nat
    /\ None \notin Seq(Block) /\ None \notin Implementation

\* The code of the reviewed implementation, or of the one an upgrade installs,
\* which is never changed.
ImplementationCode(b, reviewed) == IF reviewed THEN b.implCode ELSE TRUE

\* The identity of the token at a block.
Identity(b) == [slot |-> b.slot, code |-> ImplementationCode(b, b.slot)]

-----------------------------------------------------------------------------
(* The reads *)

CaptureStages == {"idle", "block", "code", "labels", "separator", "slot",
                  "implCode", "exit"}

ExitCodes == 0..3 \cup {None}

\* block is the hash of the tagged block; slot the implementation the proxy
\* names, as in Block; domain the solution of _solve_domain.
Capture ==
    [pc : CaptureStages, proxy : BOOLEAN, block : Seq(Block),
     code : BOOLEAN \cup {None}, name : {Names[s] : s \in BOOLEAN} \cup {None},
     domain : {Domains[s] : s \in BOOLEAN} \cup {None},
     slot : BOOLEAN \cup {None}, implCode : BOOLEAN \cup {None},
     exit : ExitCodes]

NoCapture ==
    [pc |-> "idle", proxy |-> FALSE, block |-> <<>>, code |-> None,
     name |-> None, domain |-> None, slot |-> None, implCode |-> None,
     exit |-> None]

\* Mutant: eth_getCode and eth_getStorageAt at their default, the newest block.
PinnedNewest == chain[Len(chain)]

\* The node's state at the number of the tagged block.
Pinned == chain[Len(cap.block)]

\* The node answers the expected chain id; with or without a proxy slot.
CaptureChainId(proxy) ==
    /\ cap.pc = "idle"
    /\ cap' = [cap EXCEPT !.pc = "block", !.proxy = proxy]

CaptureBlock ==
    /\ cap.pc = "block"
    /\ cap' = [cap EXCEPT !.pc = "code",
                 !.block = Hash(chain, TagBlock(Len(chain), TagLag))]

CaptureCode ==
    /\ cap.pc = "code" /\ Reached(cap.block)
    /\ cap' = [cap EXCEPT !.pc = "labels", !.code = Pinned.code]

\* What _try_call makes of a view call: any failure is "not exposed".
TryCall(view) ==
    {None} \cup IF Reached(cap.block) THEN {view[Pinned.slot]} ELSE {}

\* name(), version() and decimals(), which must answer; only the name is used
\* again.
CaptureLabels(name) ==
    /\ cap.pc = "labels" /\ Reached(cap.block) /\ name \in TryCall(Names)
    /\ cap' = [cap EXCEPT !.pc = "separator", !.name = name]

\* _solve_domain: a separator is as good as the domain it is computed from.
SolveDomain(separator, name) ==
    IF /\ separator # None
       /\ separator[1] \in KnownNames \cup {name}
       /\ separator[2] \in KnownVersions
    THEN separator ELSE None

Exit(c) == [c EXCEPT !.pc = "exit", !.exit = IF c.domain # None THEN 0 ELSE 1]

\* DOMAIN_SEPARATOR(), and the probe of authorizationState, which is noted.
CaptureSeparator(separator) ==
    /\ cap.pc = "separator" /\ separator \in TryCall(Domains)
    /\ LET read == [cap EXCEPT !.domain = SolveDomain(separator, cap.name)]
       IN cap' = IF cap.proxy THEN [read EXCEPT !.pc = "slot"] ELSE Exit(read)

\* _read_proxy: the address in the slot, then that contract's code.
CaptureSlot ==
    /\ cap.pc = "slot" /\ Reached(cap.block)
    /\ cap' = [cap EXCEPT !.pc = "implCode", !.slot = Pinned.slot]

CaptureImplementation ==
    /\ cap.pc = "implCode" /\ Reached(cap.block)
    /\ cap' = Exit([cap EXCEPT !.implCode =
                      ImplementationCode(Pinned, cap.slot)])

\* CaptureError (2): another chain, no code, no decimals(), an empty slot.
\* RpcError (3): a read outside _try_call fails.  Nothing is printed.
CaptureFails(code) ==
    /\ cap.pc \notin {"separator", "exit"}
    /\ cap.pc = "labels" => code = 2
    /\ cap' = [NoCapture EXCEPT !.pc = "exit", !.exit = code]

CaptureStep ==
    \/ \E proxy \in BOOLEAN : CaptureChainId(proxy)
    \/ CaptureBlock \/ CaptureCode
    \/ \E name \in {Names[s] : s \in BOOLEAN} \cup {None} : CaptureLabels(name)
    \/ \E d \in {Domains[s] : s \in BOOLEAN} \cup {None} : CaptureSeparator(d)
    \/ CaptureSlot \/ CaptureImplementation
    \/ \E code \in {2, 3} : CaptureFails(code)

\* render: the attestation that is pasted into the registry.
CapturedRail ==
    [class |-> "mainnet", proxy |-> cap.proxy, calibrated |-> TRUE,
     anchor |-> cap.block, code |-> cap.code,
     impl |-> IF cap.proxy THEN [slot |-> cap.slot, code |-> cap.implCode]
              ELSE None]

\* An attestation is true of the block it names.
TrueOf(a, b) ==
    a.code = b.code /\ (a.proxy => a.impl = Identity(b))

\* What the tool prints with exit code 0 is the identity of the token at the
\* block it names, for as long as that block is canonical, although each value
\* is read by number in a call of its own; the domain is the one the token
\* signs under, whatever its name() says and whichever views failed to answer
\* (capture_rail_attestation.py:195-268, 373-375).
CaptureIsTrue ==
    cap.exit = 0 /\ Canonical(cap.block) =>
      LET b == cap.block[Len(cap.block)] IN
      TrueOf(CapturedRail, b) /\ cap.domain = Domains[b.slot]

=============================================================================
