---------------------------- MODULE MCMinerClient ----------------------------
(* Instances of MinerClient for TLC.                                       *)
EXTENDS MinerClient

CONSTANTS m1, t1

\* Every chunk has bytes of its own.
OwnPayload == [c \in Chunk |-> c]

\* The loads explored: three requests, or two chunks of the pool, or one of each.
Load ==
    \A m \in Miner : <<seq[m], srvSeq[m]>> \in
        ((0..3) \X {0}) \cup ({0} \X (0..2)) \cup {<<1, 1>>}
=============================================================================
