----------------------------- MODULE Forwarding -----------------------------
(***************************************************************************)
(* What the server promises a client about its DATA requests, without      *)
(* goroutines, frames or sessions: a request is handed to the pool side    *)
(* while its key is unknown, which makes the key known; a request with a   *)
(* known key is answered with ACK; a known key may be forgotten.  Nothing  *)
(* is answered that is not known, and a known key is handed over no more.  *)
(***************************************************************************)
EXTENDS Naturals

CONSTANTS Req,    \* the DATA requests of all miners
          KeyOf     \* [Req -> key]

VARIABLES handed,   \* [Req -> how often it was handed over]
          known,    \* keys that count as forwarded
          answered  \* requests answered with ACK

TypeOK ==
    /\ handed \in [Req -> Nat]
    /\ known \subseteq {KeyOf[c] : c \in Req}
    /\ answered \subseteq Req

Init == handed = [c \in Req |-> 0] /\ known = {} /\ answered = {}

Hand(c) ==
    /\ KeyOf[c] \notin known
    /\ handed' = [handed EXCEPT ![c] = @ + 1]
    /\ known' = known \cup {KeyOf[c]}
    /\ UNCHANGED answered

Answer(c) ==
    /\ KeyOf[c] \in known
    /\ answered' = answered \cup {c}
    /\ UNCHANGED <<handed, known>>

Forget(k) ==
    /\ known' = known \ {k}
    /\ UNCHANGED <<handed, answered>>

Next ==
    \/ \E c \in Req : Hand(c) \/ Answer(c)
    \/ \E k \in known : Forget(k)

Spec == Init /\ [][Next]_<<handed, known, answered>>

=============================================================================
