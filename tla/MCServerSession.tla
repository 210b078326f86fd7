--------------------------- MODULE MCServerSession ---------------------------
(***************************************************************************)
(* Instances of ServerSession for TLC.                                     *)
(***************************************************************************)
EXTENDS ServerSession, FiniteSets, TLC

\* A miner that repeats the same bytes, as pollers do, while no two miners
\* send the same bytes under the same sequence number.
OwnPayload == [c \in Chunk |-> c[1]]

\* Every miner starts with the same bytes, as stratum miners do.
SamePayload == [c \in Chunk |-> "hello"]

Symmetry == Permutations(Session)

\* The loads explored: re-login with one request, or one session with two
\* requests, or with four chunks of the pool, or with one of each.
Load ==
    LET requests == {c \in Chunk : c[2] <= peerSeq[c[1]]}
        chunks == {<<s, n>> \in Session \X (1..MaxDown) : n <= got[s]}
        dialled == {s \in Session : owner[s] # {}}
    IN  <<Cardinality(dialled), Cardinality(requests), Cardinality(chunks)>>
            \in ((0..2) \X (0..1) \X {0}) \cup ((0..1) \X (0..2) \X {0})
                \cup ((0..1) \X {0} \X (0..4)) \cup ((0..1) \X {1} \X {1})
=============================================================================
