-------------------------- MODULE MCSettlementGate --------------------------
(* Instances of SettlementGate for TLC. *)
EXTENDS SettlementGate, TLC

=============================================================================
