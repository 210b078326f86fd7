----------------------------- MODULE MCDispatch -----------------------------
(* Instances of Dispatch for TLC.                                          *)
EXTENDS Dispatch, TLC

CONSTANTS t1, t2, t3, c1, c2, s1

MCClientOf == t1 :> c1 @@ t2 :> c1 @@ t3 :> c2
MCServesFor == [s \in Sender |-> c1]

\* Blocks of 4 stand for those of 16, keys of up to 8 for those of up to 32.
MCZero == "0"
\* A key to be padded, one whose second block is zeros, zeros only, and none.
MCFlags == {<<"k", "k", "k">>, <<"k", "k", "k", "k", "0">>, <<"0">>, << >>}

\* Lengths up to a block and one byte beyond.
MCBodies == {[i \in 1..n |-> i] : n \in 0..(BlockSize + 1)}
=============================================================================
