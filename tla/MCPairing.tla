------------------------------ MODULE MCPairing ------------------------------
(* Pairing for TLC, with clocks in step.                                   *)
EXTENDS Pairing

InStep == [n \in Nodes |-> 0]
==============================================================================
