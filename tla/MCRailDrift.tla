---------------------------- MODULE MCRailDrift -----------------------------
(***************************************************************************)
(* The token's name() is not its EIP-712 name before an upgrade, and after *)
(* it the domain has a name only name() tells.                             *)
(***************************************************************************)
EXTENDS RailDrift, TLC

MCNames == [reviewed \in BOOLEAN |-> IF reviewed THEN "USDC" ELSE "new"]
MCDomains == [reviewed \in BOOLEAN |->
                IF reviewed THEN <<"USD Coin", "2">> ELSE <<"new", "1">>]

=============================================================================
