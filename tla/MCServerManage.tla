--------------------------- MODULE MCServerManage ---------------------------
(***************************************************************************)
(* Instances of ServerManage for TLC.                                      *)
(***************************************************************************)
EXTENDS ServerManage, TLC

CONSTANT p1

\* Ids are fresh ksuids, one as good as another: they are numbered, and taken in
\* that order.
InOrder ==
    \A t \in Id : Fresh(t) /\ ~Fresh(t)' => \A u \in Id : u < t => ~Fresh(u)
=============================================================================
