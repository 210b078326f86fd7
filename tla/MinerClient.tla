----------------------------- MODULE MinerClient -----------------------------
(***************************************************************************)
(* The client's half of the miner sessions (proxy/client/client.go).  A    *)
(* session is one TCP connection of a miner, with two goroutines,          *)
(*                                                                         *)
(*   run      newClient and Run: LOGIN, then read the miner, send DATA,    *)
(*            wait for its ACK, retransmit after 3 s                       *)
(*   reader   readServerData: take a frame from input; an ACK opens the    *)
(*            gate, a chunk is written to the miner and ACKed              *)
(*                                                                         *)
(* and for all sessions of the process one goroutine per tunnel, which     *)
(* reads a frame, looks its session up, and blocks in `input <- req' until *)
(* that session takes it.                                                  *)
(*                                                                         *)
(* The server is the environment: it answers what it receives, and sends   *)
(* chunks 1, 2, ... of the pool to each session, at most two more per ACK  *)
(* (ServerSession!WindowPerAck); it may retransmit the last.  The network  *)
(* is a set of frames, as in ServerSession; one stays for ever if the      *)
(* tunnel that carries it breaks.  A tunnel that breaks while its          *)
(* goroutine reads is replaced, which is no step here.  Timers may fire    *)
(* whenever they are armed.  A Request is stored whole.                    *)
(***************************************************************************)
EXTENDS Integers

CONSTANTS Miner,     \* sessions; every connection has an id of its own
          Tunnel,    \* tunnels to the server
          MaxUp,     \* bound: DATA requests per session
          MaxDown,   \* bound: pool chunks per session
          Payload,   \* the bytes of each chunk, as its CRC sees them
          NoFrame

Chunk == Miner \X (1..MaxDown)

UpFrame == [type : {"LOGIN", "ACK", "CLOSE"}, miner : Miner, seq : {0}]
           \cup [type : {"DATA"}, miner : Miner, seq : 1..MaxUp]

\* As in ServerSession, ACK includes LOGIN's answer and CLOSE includes ERROR.
DownFrame == [type : {"ACK", "CLOSE"}, miner : Miner, seq : {0}]
             \cup [type : {"DATA"}, miner : Miner, seq : 1..MaxDown]

ASSUME ClientAssumption ==
    /\ MaxUp \in Nat /\ MaxDown \in Nat
    /\ DOMAIN Payload = Chunk
    /\ NoFrame \notin DownFrame

VARIABLES
    run,        \* where Run stands
    reader,     \* where readServerData stands
    closed,     \* Client.closed; the session left the map clients as well
    ready,      \* Client.ready
    readyOffer, \* SetReady is blocked in `readyChan <- struct{}{}'
    last,       \* Client.lastSendReq: -1 zeroed, 0 LOGIN, n the nth DATA
    opened,     \* history: how often SetReady set ready
    seq,        \* Client.seq
    hand,       \* the chunk the reader works on, or 0
    tunnel,     \* the frame a tunnel's goroutine offers on input, or NoFrame
    sent,       \* keys in the c_send_req: cache
    expired,    \* history: keys whose cache entry was dropped
    delivered,  \* history: how often a chunk was written to its miner
    acked,      \* history: chunks the client set out to answer with ACK
    up, down,   \* frames in flight, to the server and to the client
    received,   \* environment: requests that reached the server
    srvSeq,     \* environment: chunks the server sent to each session
    srvAcks,    \* environment: ACKs it received, counted up to MaxDown
    told        \* environment: the ACKs and the chunks it ever sent, by session

gateVars  == <<ready, readyOffer, last, opened>>
cacheVars == <<sent, expired, delivered, acked>>
srvVars   == <<received, srvSeq, srvAcks, told>>
vars == <<run, reader, closed, gateVars, seq, hand, tunnel, cacheVars, up,
          down, srvVars>>

TypeOK ==
    /\ run \in [Miner -> {"off", "login", "check", "wait", "late", "resend",
                          "read", "store", "send", "bye", "done"}]
    /\ reader \in [Miner -> {"off", "check", "recv", "clear", "store",
                             "signal", "deliver", "mark", "ack", "done"}]
    /\ closed \in [Miner -> BOOLEAN]
    /\ ready \in [Miner -> BOOLEAN]
    /\ readyOffer \in [Miner -> BOOLEAN]
    /\ last \in [Miner -> -1..MaxUp]
    /\ opened \in [Miner -> Nat]
    /\ seq \in [Miner -> 0..MaxUp]
    /\ hand \in [Miner -> 0..MaxDown]
    /\ tunnel \in [Tunnel -> DownFrame \cup {NoFrame}]
    /\ sent \in SUBSET ((1..MaxDown) \X {Payload[c] : c \in Chunk})
    /\ expired \in SUBSET ((1..MaxDown) \X {Payload[c] : c \in Chunk})
    /\ delivered \in [Chunk -> Nat]
    /\ acked \in SUBSET Chunk
    /\ up \in SUBSET UpFrame
    /\ down \in SUBSET DownFrame
    /\ received \in SUBSET (Miner \X (0..MaxUp))
    /\ srvSeq \in [Miner -> 0..MaxDown]
    /\ srvAcks \in [Miner -> 0..MaxDown]
    /\ told \in SUBSET [type : {"ACK", "DATA"}, miner : Miner]

Init ==
    /\ run = [m \in Miner |-> "off"]
    /\ reader = [m \in Miner |-> "off"]
    /\ closed = [m \in Miner |-> FALSE]
    /\ ready = [m \in Miner |-> TRUE]
    /\ readyOffer = [m \in Miner |-> FALSE]
    /\ last = [m \in Miner |-> -1]
    /\ opened = [m \in Miner |-> 0]
    /\ seq = [m \in Miner |-> 0]
    /\ hand = [m \in Miner |-> 0]
    /\ tunnel = [t \in Tunnel |-> NoFrame]
    /\ sent = {} /\ expired = {} /\ acked = {}
    /\ delivered = [c \in Chunk |-> 0]
    /\ up = {} /\ down = {} /\ received = {}
    /\ srvSeq = [m \in Miner |-> 0]
    /\ srvAcks = [m \in Miner |-> 0] /\ told = {}

-----------------------------------------------------------------------------
F(t, m, k) == [type |-> t, miner |-> m, seq |-> k]

\* Request 0 is LOGIN.
Request(m, k) == F(IF k = 0 THEN "LOGIN" ELSE "DATA", m, k)

\* The dedup key "c_send_req:seq:hash:clientId": no session id in it.
Key(c) == <<c[2], Payload[c]>>

\* Client.Close.
Close(m) == closed' = [closed EXCEPT ![m] = TRUE]

RunTo(m, pc) == run' = [run EXCEPT ![m] = pc]

ReaderTo(m, pc) == reader' = [reader EXCEPT ![m] = pc]

\* SendToServer wrote the frame to some tunnel.
SendToServer(f) == up' = up \cup {f}

-----------------------------------------------------------------------------
(* newClient and Run.                                                      *)

\* A miner connects; Login's SetWait, before any other goroutine knows c.
Accept(m) ==
    /\ run[m] = "off"
    /\ ready' = [ready EXCEPT ![m] = FALSE]
    /\ last' = [last EXCEPT ![m] = 0]
    /\ RunTo(m, "login")
    /\ UNCHANGED <<reader, closed, readyOffer, opened, seq, hand, tunnel,
                   cacheVars, up, down, srvVars>>

\* Three attempts; a session that could not send LOGIN ends.
Login(m) ==
    /\ run[m] = "login"
    /\ \/ /\ SendToServer(Request(m, 0))
          /\ RunTo(m, "check")
          /\ ReaderTo(m, "check")
          /\ UNCHANGED closed
       \/ /\ Close(m)
          /\ RunTo(m, "done")
          /\ UNCHANGED <<reader, up>>
    /\ UNCHANGED <<gateVars, seq, hand, tunnel, cacheVars, down, srvVars>>

\* What Run's own steps leave alone.
RunKeeps == UNCHANGED <<reader, readyOffer, opened, hand, tunnel, cacheVars,
                        down, srvVars>>

\* Mutant: the loop of Run does not look at closed.
RunForever(m) ==
    /\ run[m] = "check"
    /\ RunTo(m, IF ready[m] THEN "read" ELSE "wait")
    /\ UNCHANGED <<closed, ready, last, seq, up>> /\ RunKeeps

\* `for !c.closed.Load()', and the ready.Load() Wait starts with.
RunChecks(m) ==
    /\ run[m] = "check"
    /\ RunTo(m, IF closed[m] THEN "done" ELSE IF ready[m] THEN "read" ELSE "wait")
    /\ UNCHANGED <<closed, ready, last, seq, up>> /\ RunKeeps

RunReady(m) ==
    /\ run[m] = "wait"
    /\ readyOffer[m]
    /\ readyOffer' = [readyOffer EXCEPT ![m] = FALSE]
    /\ RunTo(m, "read")
    /\ UNCHANGED <<reader, closed, ready, last, opened, seq, hand, tunnel,
                   cacheVars, up, down, srvVars>>

\* Mutant: Wait returns true on a timeout.
RunTimeoutPasses(m) ==
    /\ run[m] = "wait"
    /\ RunTo(m, "read")
    /\ UNCHANGED <<closed, ready, last, seq, up>> /\ RunKeeps

RunTimeout(m) ==
    /\ run[m] = "wait"
    /\ RunTo(m, "late")
    /\ UNCHANGED <<closed, ready, last, seq, up>> /\ RunKeeps

\* SendTryLastRequest looks at lastSendReq; count is never incremented.
RunLate(m) ==
    /\ run[m] = "late"
    /\ RunTo(m, IF last[m] = -1 THEN "check" ELSE "resend")
    /\ UNCHANGED <<closed, ready, last, seq, up>> /\ RunKeeps

\* Mutant: a retransmission takes a new Seq.
RunResendsNewSeq(m) ==
    /\ run[m] = "resend"
    /\ seq' = [seq EXCEPT ![m] = @ + 1]
    /\ RunTo(m, "check")
    /\ UNCHANGED <<closed, ready, last, up>> /\ RunKeeps

\* It reads lastSendReq again.  If SetReady zeroed it meanwhile, a zero
\* Request leaves, which the server refuses; while SetReady is zeroing it the
\* copy may be torn and marshalling it may panic, which ends the session.
RunResends(m) ==
    /\ run[m] = "resend"
    /\ \/ /\ up' = IF last[m] = -1 THEN up ELSE up \cup {Request(m, last[m])}
          /\ RunTo(m, "check")
          /\ UNCHANGED closed
       \/ RunTo(m, "check") /\ UNCHANGED <<up, closed>>
       \/ /\ reader[m] = "clear"
          /\ Close(m)
          /\ RunTo(m, "done")
          /\ UNCHANGED up
    /\ UNCHANGED <<ready, last, seq>> /\ RunKeeps

\* The miner sent something; the first store of SetWait.
RunReads(m) ==
    /\ run[m] = "read"
    /\ ~closed[m]
    /\ seq[m] < MaxUp
    /\ seq' = [seq EXCEPT ![m] = @ + 1]
    /\ ready' = [ready EXCEPT ![m] = FALSE]
    /\ RunTo(m, "store")
    /\ UNCHANGED <<closed, last, up>> /\ RunKeeps

\* The miner hung up, or Close closed the connection.
RunReadFails(m) ==
    /\ run[m] = "read"
    /\ RunTo(m, "bye")
    /\ UNCHANGED <<closed, ready, last, seq, up>> /\ RunKeeps

\* Mutant: SetWait keeps a request that is still there.
RunStoresFirst(m) ==
    /\ run[m] = "store"
    /\ last' = [last EXCEPT ![m] = IF @ = -1 THEN seq[m] ELSE @]
    /\ RunTo(m, "send")
    /\ UNCHANGED <<closed, ready, seq, up>> /\ RunKeeps

\* The second store of SetWait.
RunStores(m) ==
    /\ run[m] = "store"
    /\ last' = [last EXCEPT ![m] = seq[m]]
    /\ RunTo(m, "send")
    /\ UNCHANGED <<closed, ready, seq, up>> /\ RunKeeps

\* SendDataToServer, ten attempts.
RunSends(m) ==
    /\ run[m] = "send"
    /\ \/ /\ SendToServer(Request(m, seq[m]))
          /\ RunTo(m, "check")
          /\ UNCHANGED closed
       \/ /\ Close(m)
          /\ RunTo(m, "done")
          /\ UNCHANGED up
    /\ UNCHANGED <<ready, last, seq>> /\ RunKeeps

\* Mutant: Run says CLOSE and does not return.
RunSaysByeOpen(m) ==
    /\ run[m] = "bye"
    /\ SendToServer(F("CLOSE", m, 0)) \/ UNCHANGED up
    /\ RunTo(m, "check")
    /\ UNCHANGED <<closed, ready, last, seq>> /\ RunKeeps

\* SendCloseToServer, one attempt, and the deferred Close.
RunSaysBye(m) ==
    /\ run[m] = "bye"
    /\ SendToServer(F("CLOSE", m, 0)) \/ UNCHANGED up
    /\ Close(m)
    /\ RunTo(m, "done")
    /\ UNCHANGED <<ready, last, seq>> /\ RunKeeps

Run(m) ==
    \/ Accept(m) \/ Login(m) \/ RunChecks(m) \/ RunReady(m) \/ RunTimeout(m)
    \/ RunLate(m) \/ RunResends(m) \/ RunReads(m) \/ RunReadFails(m)
    \/ RunStores(m) \/ RunSends(m) \/ RunSaysBye(m)

-----------------------------------------------------------------------------
(* readServerData.                                                         *)

\* What the reader's own steps leave alone.
ReaderKeeps == UNCHANGED <<run, seq, down, expired, srvVars>>

ReaderChecks(m) ==
    /\ reader[m] = "check"
    /\ ReaderTo(m, IF closed[m] THEN "done" ELSE "recv")
    /\ UNCHANGED <<closed, gateVars, hand, tunnel, sent, delivered, acked, up>>
    /\ ReaderKeeps

\* The 5 s ticker.
ReaderTicks(m) ==
    /\ reader[m] = "recv"
    /\ ReaderTo(m, "check")
    /\ UNCHANGED <<closed, gateVars, hand, tunnel, sent, delivered, acked, up>>
    /\ ReaderKeeps

\* The reader takes what tunnel t offers.  An ACK while ready is set does
\* nothing (SetReady returns); a CLOSE ends the session.
ReaderTakes(m, t) ==
    /\ reader[m] = "recv"
    /\ tunnel[t] # NoFrame
    /\ tunnel[t].miner = m
    /\ tunnel' = [tunnel EXCEPT ![t] = NoFrame]
    /\ \/ /\ tunnel[t].type = "CLOSE"
          /\ Close(m)
          /\ ReaderTo(m, "done")
          /\ UNCHANGED hand
       \/ /\ tunnel[t].type = "ACK"
          /\ ReaderTo(m, IF ready[m] THEN "check" ELSE "clear")
          /\ UNCHANGED <<closed, hand>>
       \/ /\ tunnel[t].type = "DATA"
          /\ ReaderTo(m, "deliver")
          /\ hand' = [hand EXCEPT ![m] = tunnel[t].seq]
          /\ UNCHANGED closed
    /\ UNCHANGED <<gateVars, sent, delivered, acked, up>>
    /\ ReaderKeeps

ReaderClears(m) ==
    /\ reader[m] = "clear"
    /\ last' = [last EXCEPT ![m] = -1]
    /\ ReaderTo(m, "store")
    /\ UNCHANGED <<closed, ready, readyOffer, opened, hand, tunnel, sent,
                   delivered, acked, up>>
    /\ ReaderKeeps

ReaderStores(m) ==
    /\ reader[m] = "store"
    /\ ready' = [ready EXCEPT ![m] = TRUE]
    /\ readyOffer' = [readyOffer EXCEPT ![m] = TRUE]
    /\ opened' = [opened EXCEPT ![m] = @ + 1]
    /\ ReaderTo(m, "signal")
    /\ UNCHANGED <<closed, last, hand, tunnel, sent, delivered, acked, up>>
    /\ ReaderKeeps

ReaderResumes(m) ==
    /\ reader[m] = "signal"
    /\ ~readyOffer[m]
    /\ ReaderTo(m, "check")
    /\ UNCHANGED <<closed, gateVars, hand, tunnel, sent, delivered, acked, up>>
    /\ ReaderKeeps

\* IsSend: the chunk is known and only ACKed again.
ReaderKnows(m) ==
    /\ reader[m] = "deliver"
    /\ Key(<<m, hand[m]>>) \in sent
    /\ acked' = acked \cup {<<m, hand[m]>>}
    /\ ReaderTo(m, "ack")
    /\ UNCHANGED <<closed, gateVars, hand, tunnel, sent, delivered, up>>
    /\ ReaderKeeps

\* Mutant: the error of lconn.Write is not looked at.
ReaderWritesBlindly(m) ==
    /\ reader[m] = "deliver"
    /\ Key(<<m, hand[m]>>) \notin sent
    /\ \/ delivered' = [delivered EXCEPT ![<<m, hand[m]>>] = @ + 1]
       \/ UNCHANGED delivered
    /\ ReaderTo(m, "mark")
    /\ UNCHANGED <<closed, gateVars, hand, tunnel, sent, acked, up>>
    /\ ReaderKeeps

\* lconn.Write succeeds, or fails and ends the session.
ReaderWrites(m) ==
    /\ reader[m] = "deliver"
    /\ Key(<<m, hand[m]>>) \notin sent
    /\ \/ /\ ~closed[m]
          /\ delivered' = [delivered EXCEPT ![<<m, hand[m]>>] = @ + 1]
          /\ ReaderTo(m, "mark")
          /\ UNCHANGED <<closed, hand>>
       \/ /\ Close(m)
          /\ ReaderTo(m, "done")
          /\ hand' = [hand EXCEPT ![m] = 0]
          /\ UNCHANGED delivered
    /\ UNCHANGED <<gateVars, tunnel, sent, acked, up>>
    /\ ReaderKeeps

\* Mutant: SetSend is forgotten.
ReaderMarksNothing(m) ==
    /\ reader[m] = "mark"
    /\ acked' = acked \cup {<<m, hand[m]>>}
    /\ ReaderTo(m, "ack")
    /\ UNCHANGED <<closed, gateVars, hand, tunnel, sent, delivered, up>>
    /\ ReaderKeeps

\* SetSend.
ReaderMarks(m) ==
    /\ reader[m] = "mark"
    /\ sent' = sent \cup {Key(<<m, hand[m]>>)}
    /\ acked' = acked \cup {<<m, hand[m]>>}
    /\ ReaderTo(m, "ack")
    /\ UNCHANGED <<closed, gateVars, hand, tunnel, delivered, up>>
    /\ ReaderKeeps

\* Mutant: readServerData returns and does not close.
ReaderAcksOrLeaves(m) ==
    /\ reader[m] = "ack"
    /\ \/ SendToServer(F("ACK", m, 0)) /\ ReaderTo(m, "check")
       \/ ReaderTo(m, "done") /\ UNCHANGED up
    /\ hand' = [hand EXCEPT ![m] = 0]
    /\ UNCHANGED <<closed, gateVars, tunnel, sent, delivered, acked>>
    /\ ReaderKeeps

\* The ACK, two attempts; without it the session ends.
ReaderAcks(m) ==
    /\ reader[m] = "ack"
    /\ \/ /\ SendToServer(F("ACK", m, 0))
          /\ ReaderTo(m, "check")
          /\ UNCHANGED closed
       \/ /\ Close(m)
          /\ ReaderTo(m, "done")
          /\ UNCHANGED up
    /\ hand' = [hand EXCEPT ![m] = 0]
    /\ UNCHANGED <<gateVars, tunnel, sent, delivered, acked>>
    /\ ReaderKeeps

Reader(m) ==
    \/ ReaderChecks(m) \/ ReaderTicks(m) \/ (\E t \in Tunnel : ReaderTakes(m, t))
    \/ ReaderClears(m) \/ ReaderStores(m) \/ ReaderResumes(m)
    \/ ReaderKnows(m) \/ ReaderWrites(m) \/ ReaderMarks(m) \/ ReaderAcks(m)

-----------------------------------------------------------------------------
(* The tunnels.                                                            *)

Registered(m) == run[m] # "off" /\ ~closed[m]

\* A tunnel's goroutine reads a frame: without a session it is dropped.
TunnelReads(t, f) ==
    /\ tunnel[t] = NoFrame
    /\ f \in down
    /\ down' = down \ {f}
    /\ IF Registered(f.miner)
       THEN tunnel' = [tunnel EXCEPT ![t] = f]
       ELSE UNCHANGED tunnel
    /\ UNCHANGED <<run, reader, closed, gateVars, seq, hand, cacheVars, up,
                   srvVars>>

\* The answer to an INIT lists a session the server does not know: the
\* tunnel's goroutine closes it.
TunnelCloses(t, m) ==
    /\ tunnel[t] = NoFrame
    /\ Registered(m)
    /\ Close(m)
    /\ UNCHANGED <<run, reader, gateVars, seq, hand, tunnel, cacheVars, up,
                   down, srvVars>>

\* The cache drops an entry 60 s after SetSend.  Bound: once per key.
Expire ==
    /\ \E k \in sent \ expired :
          /\ sent' = sent \ {k}
          /\ expired' = expired \cup {k}
    /\ UNCHANGED <<run, reader, closed, gateVars, seq, hand, tunnel, delivered,
                   acked, up, down, srvVars>>

-----------------------------------------------------------------------------
(* The server.                                                             *)

Send(t, m, k) ==
    /\ down' = down \cup {F(t, m, k)}
    /\ told' = told \cup {[type |-> t, miner |-> m]}

SrvKeeps == UNCHANGED <<run, reader, closed, gateVars, seq, hand, tunnel,
                        cacheVars>>

\* A request arrives: ACK, or ERROR, or no answer after a panic.
SrvReceives(m, k) ==
    /\ Request(m, k) \in up
    /\ up' = up \ {Request(m, k)}
    /\ received' = received \cup {<<m, k>>}
    /\ \/ Send("ACK", m, 0)
       \/ down' \in {down, down \cup {F("CLOSE", m, 0)}} /\ UNCHANGED told
    /\ UNCHANGED <<srvSeq, srvAcks>> /\ SrvKeeps

SrvAcked(m) ==
    /\ F("ACK", m, 0) \in up
    /\ up' = up \ {F("ACK", m, 0)}
    /\ srvAcks' = [srvAcks EXCEPT ![m] = IF @ < MaxDown THEN @ + 1 ELSE @]
    /\ UNCHANGED <<down, told, received, srvSeq>> /\ SrvKeeps

\* The next chunk of the pool.
SrvSends(m) ==
    /\ <<m, 0>> \in received
    /\ srvSeq[m] < MaxDown
    /\ srvSeq[m] < 1 + 2 * srvAcks[m]
    /\ srvSeq' = [srvSeq EXCEPT ![m] = @ + 1]
    /\ Send("DATA", m, srvSeq[m] + 1)
    /\ UNCHANGED <<up, received, srvAcks>> /\ SrvKeeps

SrvResends(m) ==
    /\ srvSeq[m] # 0
    /\ Send("DATA", m, srvSeq[m])
    /\ UNCHANGED <<up, received, srvSeq, srvAcks>> /\ SrvKeeps

\* The pool hung up.
SrvCloses(m) ==
    /\ <<m, 0>> \in received
    /\ down' = down \cup {F("CLOSE", m, 0)}
    /\ UNCHANGED <<up, srvVars>> /\ SrvKeeps

Srv(m) ==
    \/ \E k \in 0..MaxUp : SrvReceives(m, k)
    \/ SrvAcked(m) \/ SrvSends(m) \/ SrvResends(m) \/ SrvCloses(m)

-----------------------------------------------------------------------------
Next ==
    \/ \E m \in Miner : Run(m) \/ Reader(m) \/ Srv(m)
    \/ \E t \in Tunnel : \E f \in down : TunnelReads(t, f)
    \/ \E t \in Tunnel, m \in Miner : TunnelCloses(t, m)
    \/ Expire

Spec == Init /\ [][Next]_vars

\* Both goroutines of a session run when they can; Run need not find data of
\* the miner to read, but on a closed connection Read returns.  A receive that
\* stays possible is not always passed over for a timer.  A send may fail.
Fairness ==
    \A m \in Miner :
        /\ WF_vars(Run(m) /\ run[m] \notin {"off", "read"})
        /\ WF_vars(RunReadFails(m) /\ closed[m])
        /\ SF_vars(RunReady(m))
        /\ WF_vars(Reader(m))
        /\ SF_vars(\E t \in Tunnel : ReaderTakes(m, t))

FairSpec == Spec /\ Fairness

-----------------------------------------------------------------------------
(* Properties.                                                             *)

\* An ACK for a chunk means that the chunk was written to its own miner
\* (readServerData writes, marks, then ACKs; or finds the mark and ACKs).
AckMeansDelivered == \A c \in acked : delivered[c] > 0

\* What SendTryLastRequest would retransmit is the newest request, however
\* SetReady of a late or repeated ACK falls between the stores of SetWait.
RetransmitsNewest ==
    \A m \in Miner :
        run[m] \in {"send", "check", "wait", "late", "resend"}
            => last[m] \in {-1, seq[m]}

\* SetReady leaves a flag and a token, either of which lets Run pass Wait: Run
\* is at most two requests per ACK ahead of the server, and it sends no DATA
\* before LOGIN was answered.
RequestsPerAck == \A m \in Miner : seq[m] <= 2 * opened[m]

\* Nobody leaves a session half dead: while it is registered, Run runs, and from
\* its LOGIN on the reader, which takes the frames of the tunnels and lets Run
\* pass Wait; neither returns, wherever a send or a write failed, but by Close.
OpenIsAttended ==
    \A m \in Miner : Registered(m) =>
        /\ run[m] # "done"
        /\ run[m] = "login" \/ reader[m] \notin {"off", "done"}

\* A closed session stops reading its miner and sending to the server,
\* wherever Run was blocked.
ClosedRunEnds == \A m \in Miner : closed[m] ~> run[m] = "done"

\* README.md:19 promises synchronisation over a bad network: a request stays
\* with the client, to be retransmitted, until the server has it.
KeptUntilReceived ==
    \A m \in Miner : \A k \in 0..seq[m] :
        \/ <<m, k>> \in received
        \/ k = last[m]
        \/ k = seq[m] /\ run[m] \in {"off", "store"}
        \/ run[m] = "done" \/ closed[m]

\* README.md:27 promises a connection that never drops.  The goroutine of a
\* tunnel, which serves all miners, must get rid of the frame it read: the
\* session it is for takes it.
TunnelReturns == \A t \in Tunnel : (tunnel[t] # NoFrame) ~> (tunnel[t] = NoFrame)

-----------------------------------------------------------------------------
(* The same promise as the server's, in the other direction: a chunk       *)
(* counts as known from the moment it was written, before SetSend.         *)
Written == {m \in Miner : reader[m] = "mark"}

Promise == INSTANCE Forwarding WITH
    Req <- Chunk,
    KeyOf <- [c \in Chunk |-> Key(c)],
    handed <- delivered,
    known <- sent \cup {Key(<<m, hand[m]>>) : m \in Written},
    answered <- acked

\* The readers of all sessions and the cache together behave like one atomic
\* forwarder: a chunk is not written to its miner again while its key is
\* remembered, and is ACKed only when it is.
DeliversAsPromised == Promise!Spec

-----------------------------------------------------------------------------
(* What the server gets to see.                                            *)
said == [m \in Miner |-> IF run[m] = "off" THEN -1 ELSE seq[m]]
connected == [m \in Miner |-> run[m] # "done"]

Side == INSTANCE ClientSide WITH seq <- said, open <- connected

\* The client as its server may count on it (and ServerSession does): LOGIN
\* first and DATA only when it was answered, one number per request, nothing but
\* the newest repeated, no ACK without a chunk, nothing of Run after CLOSE - with
\* any number of sessions, blocked readers, and frames late or twice.
SpeaksAsPromised == Side!Spec

=============================================================================
