------------------------------ MODULE Offering ------------------------------
(***************************************************************************)
(* What the server's tables promise those that send to a client, without   *)
(* the tables: a tunnel is offered to the senders once, by its INIT, or    *)
(* never; it leaves when its connection has ended, or together with all    *)
(* other tunnels of its client; and what has left does not come back.      *)
(***************************************************************************)

CONSTANTS Conn,    \* tunnels
          Client,
          ClientOf \* whose tunnel it is

VARIABLES offered, \* tunnels a sender of the client may get
          past,    \* tunnels that were offered, or never will be
          ended    \* tunnels whose connection ended

TypeOK == offered \subseteq past /\ ended \subseteq past /\ past \subseteq Conn

Init == offered = {} /\ past = {} /\ ended = {}

Offer(t) ==
    /\ t \notin past
    /\ offered' = offered \cup {t}
    /\ past' = past \cup {t}
    /\ UNCHANGED ended

\* It was refused, or its client was hidden while INIT was handled.
Skip(t) ==
    /\ past' = past \cup {t}
    /\ UNCHANGED <<offered, ended>>

End(t) ==
    /\ ended' = ended \cup {t}
    /\ past' = past \cup {t}
    /\ UNCHANGED offered

Withdraw(t) ==
    /\ t \in ended
    /\ offered' = offered \ {t}
    /\ UNCHANGED <<past, ended>>

Hide(c) ==
    /\ offered' = {t \in offered : ClientOf[t] # c}
    /\ UNCHANGED <<past, ended>>

Next ==
    \/ \E t \in Conn : Offer(t) \/ Skip(t) \/ End(t) \/ Withdraw(t)
    \/ \E c \in Client : Hide(c)

Spec == Init /\ [][Next]_<<offered, past, ended>>

=============================================================================
