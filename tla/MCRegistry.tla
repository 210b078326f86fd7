----------------------------- MODULE MCRegistry -----------------------------
(* Instances of Registry for TLC.                                          *)
EXTENDS Registry, TLC

CONSTANTS m1, m2, t1

\* Two connections of the same machine.
MCIpOf == [m \in Miner |-> "ip"]
=============================================================================
