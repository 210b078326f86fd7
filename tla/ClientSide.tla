----------------------------- MODULE ClientSide -----------------------------
(***************************************************************************)
(* What the client's half of the sessions says to the server, by frames    *)
(* alone: the environment of ServerSession, and what MinerClient promises. *)
(* Sent frames can be lost, reordered, and with the retransmissions of     *)
(* both sides repeated.                                                    *)
(***************************************************************************)
EXTENDS Integers

CONSTANTS Miner,
          MaxUp     \* bound: DATA requests per miner

VARIABLES seq,      \* the newest request of each miner: -1 before LOGIN
          open,     \* the client still has the miner's connection
          up,       \* frames in flight to the server
          told      \* the ACKs and the chunks the server ever sent, by miner

Request(m, k) == [type |-> IF k = 0 THEN "LOGIN" ELSE "DATA", miner |-> m, seq |-> k]

\* A frame without a number.
Plain(type, m) == [type |-> type, miner |-> m, seq |-> 0]

Told(type, m) == [type |-> type, miner |-> m] \in told

Init ==
    /\ seq = [m \in Miner |-> -1]
    /\ open = [m \in Miner |-> TRUE]
    /\ up = {} /\ told = {}

\* newClient makes the LOGIN, SendDataToServer the next DATA, which waits for
\* an answer to LOGIN at least.
Numbers(m) ==
    /\ open[m] /\ seq[m] < MaxUp
    /\ seq[m] = -1 \/ Told("ACK", m)
    /\ seq' = [seq EXCEPT ![m] = @ + 1]
    /\ UNCHANGED <<open, up, told>>

\* The newest request is sent, or sent again by SendTryLastRequest.
Says(m) ==
    /\ open[m] /\ seq[m] # -1
    /\ up' = up \cup {Request(m, seq[m])}
    /\ UNCHANGED <<seq, open, told>>

\* readServerData; it may be in the middle of a chunk when Run is over.
Acks(m) ==
    /\ Told("DATA", m)
    /\ up' = up \cup {Plain("ACK", m)}
    /\ UNCHANGED <<seq, open, told>>

\* Run is over: it said CLOSE, or it could not, or did not.
Ends(m) ==
    /\ open[m] /\ seq[m] # -1
    /\ open' = [open EXCEPT ![m] = FALSE]
    /\ up' \in {up, up \cup {Plain("CLOSE", m)}}
    /\ UNCHANGED <<seq, told>>

Acts(m) == Numbers(m) \/ Says(m) \/ Acks(m) \/ Ends(m)

\* The server and the network.
Others ==
    /\ up' \subseteq up
    /\ told \subseteq told'
    /\ UNCHANGED <<seq, open>>

Next == Others \/ \E m \in Miner : Acts(m)

Spec == Init /\ [][Next]_<<seq, open, up, told>>

=============================================================================
