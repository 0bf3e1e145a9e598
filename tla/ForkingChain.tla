---------------------------- MODULE ForkingChain ----------------------------
(***************************************************************************)
(* The chain psv observes through JSON-RPC: it grows, and a reorganisation *)
(* may replace its last blocks between any two reads of an observer.  A    *)
(* block is what its transactions left behind: balances, the settlement's  *)
(* authorization, the token's fee switch, its code and its proxy slot.     *)
(*                                                                         *)
(* A block hash commits to the block and all its ancestors, so the hash of *)
(* block n of a chain is the chain's first n blocks.                       *)
(***************************************************************************)
EXTENDS Integers, Sequences

CONSTANTS
    Kinds,            \* the transactions that can be mined, see Transfers
    Amount,           \* value of the settlement's authorization
    Skim,             \* what the token keeps of a transfer once it takes fees
    Side,             \* value of the other transfers
    Funds,            \* the payer's and the payee's first balance
    Flips,            \* whether an abandoned block can become canonical again
    MaxDepth,         \* blocks below the highest head a reorganisation can reach
    MaxHeight,        \* bound: height of the chain
    MaxReorgs         \* bound: reorganisations

ASSUME ChainAssumption ==
    /\ Amount \in Nat \ {0} /\ Skim \in 0..(Amount - 1)
    /\ Side \in Nat /\ Skim <= Side /\ Funds \in Nat /\ Flips \in BOOLEAN
    /\ MaxDepth \in Nat /\ MaxHeight \in Nat \ {0} /\ MaxReorgs \in Nat

VARIABLES
    chain,      \* canonical blocks; chain[1] is the reviewed anchor block
    peak,       \* the greatest height the chain has had
    abandoned,  \* hashes of blocks a reorganisation has dropped
    reorgs

chainVars == <<chain, peak, abandoned, reorgs>>

-----------------------------------------------------------------------------
(* Transactions and blocks *)

Accounts == {"payer", "payee", "third"}

\* Who pays whom in each token transfer.  "settle" is the transaction under
\* examination, "replay" another transaction with the same authorization.
Transfers ==
    [settle |-> <<"payer", "payee">>, replay |-> <<"payer", "payee">>,
     gift |-> <<"third", "payee">>, sweep |-> <<"payee", "third">>,
     spend |-> <<"payer", "third">>, topUp |-> <<"third", "payer">>]

Authorized == {"settle", "replay"}

\* What the token's admin can do: switch fees on, point the proxy to another
\* implementation and back, change the implementation's or the token's code.
AdminActs == {"fee", "upgrade", "rollback", "patch", "redeploy"}

ASSUME KindsAssumption == Kinds \subseteq DOMAIN Transfers \cup AdminActs

\* code, slot and implCode say whether each is the reviewed one.
Block == [bal : [Accounts -> Int], used : BOOLEAN, fee : BOOLEAN,
          code : BOOLEAN, slot : BOOLEAN, implCode : BOOLEAN,
          txs : SUBSET Kinds, logs : SUBSET Kinds,
          settle : {"absent", "reverted", "success"}, credited : Int]

Genesis ==
    [bal |-> [a \in Accounts |-> IF a = "third" THEN 2 * Side ELSE Funds],
     used |-> FALSE, fee |-> FALSE, code |-> TRUE, slot |-> TRUE,
     implCode |-> TRUE, txs |-> {}, logs |-> {}, settle |-> "absent",
     credited |-> 0]

\* An empty block on top of b.
Child(b) == [b EXCEPT !.txs = {}, !.logs = {}, !.settle = "absent",
                      !.credited = 0]

Value(k) == IF k \in Authorized THEN Amount ELSE Side
Net(b, k) == Value(k) - IF b.fee THEN Skim ELSE 0

Move(bal, k, net) ==
    [bal EXCEPT ![Transfers[k][1]] = @ - Value(k),
                ![Transfers[k][2]] = @ + net]

\* A transfer needs the funds and, with an authorization, an unused nonce.
Succeeds(b, k) ==
    b.bal[Transfers[k][1]] >= Value(k) /\ (k \in Authorized => ~b.used)

\* The log of a transfer shows the gross value, a fee or not.
Transfer(b, k) ==
    IF Succeeds(b, k)
    THEN [b EXCEPT !.bal = Move(@, k, Net(b, k)),
                   !.used = IF k \in Authorized THEN TRUE ELSE @,
                   !.txs = @ \cup {k}, !.logs = @ \cup {k},
                   !.settle = IF k = "settle" THEN "success" ELSE @,
                   !.credited = IF k = "settle" THEN Net(b, k) ELSE @]
    ELSE [b EXCEPT !.txs = @ \cup {k},
                   !.settle = IF k = "settle" THEN "reverted" ELSE @]

AdminAct(b, k) ==
    [b EXCEPT !.txs = @ \cup {k},
              !.fee = @ \/ k = "fee",
              !.code = @ /\ k # "redeploy",
              !.slot = (@ \/ k = "rollback") /\ k # "upgrade",
              !.implCode = @ /\ k # "patch"]

Execute(b, k) == IF k \in AdminActs THEN AdminAct(b, k) ELSE Transfer(b, k)

\* The blocks that can follow the chain c: no transaction is mined twice.
MinedIn(c) == UNION {c[i].txs : i \in DOMAIN c}

NextBlocks(c) ==
    LET empty == Child(c[Len(c)])
        fresh == Kinds \ MinedIn(c)
        one   == {Execute(empty, k) : k \in fresh}
    IN {empty} \cup one
         \cup UNION {{Execute(b, k) : k \in fresh \ b.txs} : b \in one}

Hash(c, n) == SubSeq(c, 1, n)

\* The node has a block with the number of this one ...
Reached(h) == Len(h) <= Len(chain)

\* ... and it is this one.
Canonical(h) == Reached(h) /\ Hash(chain, Len(h)) = h

\* The block number the finality tag names when the chain has height n.
TagBlock(n, lag) == IF n > lag THEN n - lag ELSE 1

-----------------------------------------------------------------------------
(* Steps of the chain *)

ChainInit == chain = <<Genesis>> /\ peak = 1 /\ abandoned = {} /\ reorgs = 0

MineBlock ==
    /\ Len(chain) < MaxHeight
    /\ \E b \in NextBlocks(chain) : chain' = Append(chain, b)
    /\ Flips \/ chain' \notin abandoned
    /\ peak' = IF Len(chain') > peak THEN Len(chain') ELSE peak
    /\ UNCHANGED <<abandoned, reorgs>>

\* The chain is cut after block n, which is not too deep.
Cut(n) ==
    /\ reorgs < MaxReorgs /\ reorgs' = reorgs + 1
    /\ n < Len(chain) /\ n + MaxDepth >= peak
    /\ abandoned' = IF Flips THEN abandoned
                    ELSE abandoned \cup {Hash(chain, k) : k \in (n + 1)..Len(chain)}
    /\ UNCHANGED peak

\* A reorganisation whose new blocks are still to come: the head goes back.
Drop(n) == Cut(n) /\ chain' = Hash(chain, n)

\* A branch as high as the chain that leaves it after block n; its only
\* transactions are in block m.
Branch(n, m, b) ==
    [i \in 1..Len(chain) |->
       IF i <= n THEN chain[i]
       ELSE IF i < m THEN Child(chain[n])
       ELSE IF i = m THEN b ELSE Child(b)]

\* A reorganisation that is seen as a whole.
Fork(n, m) ==
    /\ Cut(n) /\ n < m
    /\ \E b \in NextBlocks(Hash(chain, n)) :
         LET new == Branch(n, m, b) IN
         /\ \A k \in (n + 1)..Len(chain) : Hash(new, k) # Hash(chain, k)
         /\ Flips \/ \A k \in (n + 1)..Len(chain) : Hash(new, k) \notin abandoned
         /\ chain' = new

ChainStep ==
    \/ MineBlock
    \/ \E n \in 1..Len(chain) : Drop(n) \/ \E m \in 1..Len(chain) : Fork(n, m)

\* The types of the chain's variables.
ChainOK ==
    /\ chain \in Seq(Block) /\ chain # <<>> /\ reorgs \in Nat
    /\ peak \in Nat /\ Len(chain) <= peak /\ abandoned \subseteq Seq(Block)

=============================================================================
