---------------------------- MODULE ServerSession ----------------------------
(***************************************************************************)
(* The server's half of a miner session (proxy/server/server.go), on top   *)
(* of PoolConn.  Per session there are                                     *)
(*                                                                         *)
(*   the PoolConn reader and writer                                        *)
(*   dispatch    the goroutine getOrCreateClient submits: takes a chunk    *)
(*               from output, sends it to the client, waits for its ACK    *)
(*                                                                         *)
(* and for ALL sessions of all miners one gnet event loop, which runs      *)
(* React for one frame at a time.  NewServer does not ask gnet for more    *)
(* than one loop, so whatever blocks in React blocks every miner.          *)
(*                                                                         *)
(* A session is one incarnation of server.Client: a LOGIN that finds none, *)
(* or a closed one, makes a new one for the same miner.  The client is the *)
(* environment: ClientSide.  Requests and answers travel in several TCP    *)
(* tunnels, chosen round-robin, that break and are replaced: the network   *)
(* is a set of frames, delivered in any order.  Nothing forces a delivery, *)
(* so a frame that stays in the set for ever is one a broken tunnel lost;  *)
(* a copy sent while its twin is in flight is absorbed by it, and          *)
(* duplicates come from a retransmission after a delivery.  What was sent  *)
(* to the client is kept: it may act on it at any later time, or never.    *)
(* Timers are abstracted to steps that may happen at any moment while they *)
(* are armed.                                                              *)
(***************************************************************************)
EXTENDS PoolConn, Integers

CONSTANTS Miner,      \* miner ids
          NoSession,
          MaxUp,      \* bound: DATA requests per miner
          Payload     \* the bytes of each chunk, as its CRC sees them

Chunk == Miner \X (1..MaxUp)

ASSUME SessionAssumption ==
    /\ MaxUp \in Nat
    /\ UpChunk = Chunk
    /\ NoSession \notin Session
    /\ DOMAIN Payload = Chunk

\* protocol.Request, as far as the server looks at it.
UpFrame == [type : {"LOGIN", "ACK", "CLOSE"}, miner : Miner, seq : {0}]
           \cup [type : {"DATA"}, miner : Miner, seq : 1..MaxUp]

\* "ACK" stands for the answers LOGIN and ACK, "CLOSE" for CLOSE and ERROR:
\* the client treats the two members of each pair alike.
DownFrame == [type : {"DATA", "ACK", "CLOSE"}, miner : Miner]

VARIABLES
    clients,    \* the sync.Map MinerId -> *Client
    owner,      \* the miner a session belongs to; {} or a singleton
    swept,      \* history: open sessions deleted from clients
    ready,      \* Client.ready
    readyOffer, \* SetReady is blocked in `readyChan <- struct{}{}'
    last,       \* Client.lastSendReq: ordinal of its chunk, 0 when zeroed
    opened,     \* history: how often SetReady set ready
    dispatch,   \* where the dispatch goroutine stands
    dispHand,   \* the chunk it holds, or 0
    downSeq,    \* Client.seq
    loop,       \* where the event loop stands: "idle" or inside a handler
    loopSess,   \* the session that handler works on
    loopChunk,  \* the chunk it forwards
    sent,       \* keys in the send_req: cache
    expired,    \* history: keys whose cache entry was dropped
    acked,      \* history: chunks the server answered with ACK
    up,         \* frames in flight to the server
    down,       \* frames ever sent to the client
    peerSeq,    \* environment: last request of each miner, -1 before LOGIN
    peerOpen    \* environment: the client still has the miner's connection

gateVars == <<ready, readyOffer, last, opened>>
dispVars == <<dispatch, dispHand, downSeq>>
regVars  == <<clients, owner, swept>>
loopVars == <<loop, loopSess, loopChunk>>
cacheVars == <<sent, expired, acked>>
peerVars == <<peerSeq, peerOpen>>

vars == <<poolVars, gateVars, dispVars, regVars, loopVars, cacheVars, up,
          down, peerVars>>

TypeOK ==
    /\ PoolTypeOK
    /\ clients \in [Miner -> Session \cup {NoSession}]
    /\ owner \in [Session -> SUBSET Miner]
    /\ swept \in SUBSET Session
    /\ ready \in [Session -> BOOLEAN]
    /\ readyOffer \in [Session -> BOOLEAN]
    /\ last \in [Session -> 0..MaxDown]
    /\ opened \in [Session -> Nat]
    /\ dispatch \in [Session -> {"off", "loop", "wait", "late", "resend",
                                 "select", "send", "save", "unready", "done"}]
    /\ dispHand \in [Session -> 0..MaxDown]
    /\ downSeq \in [Session -> 0..MaxDown]
    /\ loop \in {"idle", "forward", "clear", "store", "signal"}
    /\ loopSess \in Session \cup {NoSession}
    /\ loopChunk \in Chunk \cup {NoChunk}
    /\ sent \in SUBSET ((1..MaxUp) \X {Payload[c] : c \in Chunk})
    /\ expired \in SUBSET ((1..MaxUp) \X {Payload[c] : c \in Chunk})
    /\ acked \in SUBSET Chunk
    /\ up \in SUBSET UpFrame
    /\ down \in SUBSET DownFrame
    /\ peerSeq \in [Miner -> -1..MaxUp]
    /\ peerOpen \in [Miner -> BOOLEAN]

Init ==
    /\ PoolInit
    /\ clients = [m \in Miner |-> NoSession]
    /\ owner = [s \in Session |-> {}]
    /\ ready = [s \in Session |-> TRUE]
    /\ readyOffer = [s \in Session |-> FALSE]
    /\ last = [s \in Session |-> 0]
    /\ opened = [s \in Session |-> 0]
    /\ dispatch = [s \in Session |-> "off"]
    /\ dispHand = [s \in Session |-> 0]
    /\ downSeq = [s \in Session |-> 0]
    /\ loop = "idle" /\ loopSess = NoSession /\ loopChunk = NoChunk
    /\ swept = {}
    /\ sent = {} /\ expired = {} /\ acked = {}
    /\ up = {} /\ down = {}
    /\ peerSeq = [m \in Miner |-> -1]
    /\ peerOpen = [m \in Miner |-> TRUE]

-----------------------------------------------------------------------------
(* Frames.                                                                 *)

UpF(t, m, k) == [type |-> t, miner |-> m, seq |-> k]
DownF(t, m)  == [type |-> t, miner |-> m]

\* SendToClient and the answer React returns.
Send(t, m) == down' = down \cup {DownF(t, m)}

-----------------------------------------------------------------------------
(* The event loop: React.                                                  *)

\* The dedup key "send_req:seq:hash:clientId".  All miners of one client
\* process share the client id; the miner id is not part of the key.
Key(c) == <<c[2], Payload[c]>>

\* getClient finds an open session.
Live(m) == clients[m] # NoSession /\ ~inputClosed[clients[m]]

\* The loop is free and takes a frame.
Receive(f) ==
    /\ loop = "idle"
    /\ f \in up
    /\ up' = up \ {f}

\* login: getOrCreateClient keeps a live session, or makes a new one.
LoginAgain(m) ==
    /\ Live(m)
    /\ Send("ACK", m)
    /\ UNCHANGED <<poolVars, dispVars, regVars>>

\* Mutant: getOrCreateClient forgets to look for a live session.
LoginNotLooking(m, s) ==
    /\ Dial(s)
    /\ clients' = [clients EXCEPT ![m] = s]
    /\ owner' = [owner EXCEPT ![s] = {m}]
    /\ dispatch' = [dispatch EXCEPT ![s] = "loop"]
    /\ Send("ACK", m)
    /\ UNCHANGED <<dispHand, downSeq, swept>>

LoginCreates(m, s) ==
    /\ ~Live(m)
    /\ Dial(s)
    /\ clients' = [clients EXCEPT ![m] = s]
    /\ owner' = [owner EXCEPT ![s] = {m}]
    /\ dispatch' = [dispatch EXCEPT ![s] = "loop"]
    /\ Send("ACK", m)
    /\ UNCHANGED <<dispHand, downSeq, swept>>

LoginDialFails(m) ==
    /\ ~Live(m)
    /\ Send("CLOSE", m)
    /\ UNCHANGED <<poolVars, dispVars, regVars>>

RecvLogin(m) ==
    /\ Receive(UpF("LOGIN", m, 0))
    /\ LoginAgain(m) \/ (\E s \in Session : LoginCreates(m, s)) \/ LoginDialFails(m)
    /\ UNCHANGED <<gateVars, loopVars, cacheVars, peerVars>>

\* proxy: forward a chunk unless its key is in the cache, then ACK it.
DataNeedsLogin(c) ==
    /\ ~Live(c[1])
    /\ Send("CLOSE", c[1])
    /\ UNCHANGED <<poolVars, loopVars, acked>>

DataIsSend(c) ==
    /\ Live(c[1])
    /\ Key(c) \in sent
    /\ acked' = acked \cup {c}
    /\ Send("ACK", c[1])
    /\ UNCHANGED <<poolVars, loopVars>>

\* Mutant: proxy does not ask IsSend.
DataForwardAlways(c) ==
    /\ Live(c[1])
    /\ Offer(clients[c[1]], c)
    /\ loop' = "forward"
    /\ loopSess' = clients[c[1]]
    /\ loopChunk' = c
    /\ UNCHANGED <<down, acked>>

DataForward(c) ==
    /\ Live(c[1])
    /\ Key(c) \notin sent
    /\ Offer(clients[c[1]], c)
    /\ loop' = "forward"
    /\ loopSess' = clients[c[1]]
    /\ loopChunk' = c
    /\ UNCHANGED <<down, acked>>

RecvData(c) ==
    /\ Receive(UpF("DATA", c[1], c[2]))
    /\ DataNeedsLogin(c) \/ DataIsSend(c) \/ DataForward(c)
    /\ UNCHANGED <<gateVars, dispVars, regVars, sent, expired, peerVars>>

Idle == loop' = "idle" /\ loopSess' = NoSession /\ loopChunk' = NoChunk

\* Mutant: the answer without SetSend.
ForwardDoneUnmarked ==
    /\ loop = "forward"
    /\ inOffer[loopSess] = NoChunk
    /\ acked' = acked \cup {loopChunk}
    /\ Send("ACK", loopChunk[1])
    /\ Idle
    /\ UNCHANGED <<poolVars, gateVars, dispVars, regVars, sent, expired, up,
                   peerVars>>

\* The writer took the chunk: SetSend, then the answer.
ForwardDone ==
    /\ loop = "forward"
    /\ inOffer[loopSess] = NoChunk
    /\ sent' = sent \cup {Key(loopChunk)}
    /\ acked' = acked \cup {loopChunk}
    /\ Send("ACK", loopChunk[1])
    /\ Idle
    /\ UNCHANGED <<poolVars, gateVars, dispVars, regVars, expired, up, peerVars>>

\* Mutant: every panic is answered with an ACK.
ForwardPanicsAcked ==
    /\ loop = "forward"
    /\ Withdraw(loopSess)
    /\ acked' = acked \cup {loopChunk}
    /\ Send("ACK", loopChunk[1])
    /\ Idle
    /\ UNCHANGED <<gateVars, dispVars, regVars, sent, expired, up,
                   peerVars>>

\* "send on closed channel", recovered: no SetSend and no answer.
ForwardPanics ==
    /\ loop = "forward"
    /\ Withdraw(loopSess)
    /\ Idle
    /\ UNCHANGED <<gateVars, dispVars, regVars, cacheVars, up, down, peerVars>>

\* ACK: SetReady returns at once when ready is set already; otherwise it
\* zeroes lastSendReq, sets ready and blocks in the send on readyChan.
RecvAck(m) ==
    /\ Receive(UpF("ACK", m, 0))
    /\ IF Live(m) /\ ~ready[clients[m]]
       THEN /\ loop' = "clear"
            /\ loopSess' = clients[m]
            /\ UNCHANGED loopChunk
       ELSE UNCHANGED loopVars
    /\ UNCHANGED <<poolVars, gateVars, dispVars, regVars, cacheVars, down,
                   peerVars>>

SetReadyClears ==
    /\ loop = "clear"
    /\ last' = [last EXCEPT ![loopSess] = 0]
    /\ loop' = "store"
    /\ UNCHANGED <<poolVars, ready, readyOffer, opened, dispVars, regVars,
                   loopSess, loopChunk, cacheVars, up, down, peerVars>>

SetReadyStores ==
    /\ loop = "store"
    /\ ready' = [ready EXCEPT ![loopSess] = TRUE]
    /\ readyOffer' = [readyOffer EXCEPT ![loopSess] = TRUE]
    /\ opened' = [opened EXCEPT ![loopSess] = @ + 1]
    /\ loop' = "signal"
    /\ UNCHANGED <<poolVars, last, dispVars, regVars, loopSess, loopChunk,
                   cacheVars, up, down, peerVars>>

SetReadyReturns ==
    /\ loop = "signal"
    /\ ~readyOffer[loopSess]
    /\ Idle
    /\ UNCHANGED <<poolVars, gateVars, dispVars, regVars, cacheVars, up, down,
                   peerVars>>

\* CLOSE, and the ping handler for a miner a PONG names.
RecvClose(m) ==
    /\ Receive(UpF("CLOSE", m, 0))
    /\ IF Live(m) THEN CloseInput(clients[m]) ELSE UNCHANGED poolVars
    /\ UNCHANGED <<gateVars, dispVars, regVars, loopVars, cacheVars, down,
                   peerVars>>

React ==
    \/ \E m \in Miner : RecvLogin(m) \/ RecvAck(m) \/ RecvClose(m)
    \/ \E c \in Chunk : RecvData(c)

Handler ==
    \/ ForwardDone \/ ForwardPanics
    \/ SetReadyClears \/ SetReadyStores \/ SetReadyReturns

-----------------------------------------------------------------------------
(* The dispatch goroutine of session s.                                    *)

Goto(s, pc) == dispatch' = [dispatch EXCEPT ![s] = pc]

\* Mutant: the Close is not deferred.
ReturnOpen(s) == Goto(s, "done") /\ UNCHANGED poolVars

\* Return from the goroutine: the deferred Client.Close runs.
Return(s) == Goto(s, "done") /\ CloseInput(s)

\* What a dispatch step leaves alone.
DispKeeps == UNCHANGED <<regVars, loopVars, cacheVars, up, peerVars>>

\* Mutant: an endless loop that does not look at closed.
DispLoopForever(s) ==
    /\ dispatch[s] = "loop"
    /\ Goto(s, IF ready[s] THEN "select" ELSE "wait")
    /\ UNCHANGED <<poolVars, gateVars, dispHand, downSeq, down>> /\ DispKeeps

\* `for !c.closed.Load()', and the ready.Load() Wait starts with.
DispLoop(s) ==
    /\ dispatch[s] = "loop"
    /\ \/ /\ inputClosed[s]
          /\ Return(s)
       \/ /\ ~inputClosed[s]
          /\ Goto(s, IF ready[s] THEN "select" ELSE "wait")
          /\ UNCHANGED poolVars
    /\ UNCHANGED <<gateVars, dispHand, downSeq, down>> /\ DispKeeps

DispReady(s) ==
    /\ dispatch[s] = "wait"
    /\ readyOffer[s]
    /\ readyOffer' = [readyOffer EXCEPT ![s] = FALSE]
    /\ Goto(s, "select")
    /\ UNCHANGED <<poolVars, ready, last, opened, dispHand, downSeq, down>> /\ DispKeeps

\* Mutant: Wait returns true on a timeout.
DispTimeoutPasses(s) ==
    /\ dispatch[s] = "wait"
    /\ Goto(s, "select")
    /\ UNCHANGED <<poolVars, gateVars, dispHand, downSeq, down>> /\ DispKeeps

\* 3 s without an ACK: Wait returns false.
DispTimeout(s) ==
    /\ dispatch[s] = "wait"
    /\ Goto(s, "late")
    /\ UNCHANGED <<poolVars, gateVars, dispHand, downSeq, down>> /\ DispKeeps

\* count is never incremented, so only lastSendReq decides.
DispLate(s) ==
    /\ dispatch[s] = "late"
    /\ \/ /\ last[s] # 0
          /\ Goto(s, "resend")
          /\ UNCHANGED poolVars
       \/ /\ last[s] = 0
          /\ Return(s)
    /\ UNCHANGED <<gateVars, dispHand, downSeq, down>> /\ DispKeeps

\* Mutant: a retransmission takes a new Seq.
DispResendNewSeq(s) ==
    /\ dispatch[s] = "resend"
    /\ Goto(s, "loop")
    /\ downSeq' = [downSeq EXCEPT ![s] = @ + 1]
    /\ \E m \in owner[s] : Send("DATA", m)
    /\ UNCHANGED <<poolVars, gateVars, dispHand>> /\ DispKeeps

\* lastSendReq is read a second time: if SetReady zeroed it meanwhile, the
\* frame sent is a zero Request, which the client ignores.  While SetReady is
\* zeroing it the copy may be torn, and marshalling it may panic; the send
\* fails when no tunnel is up.  Both end the session.
DispResend(s) ==
    /\ dispatch[s] = "resend"
    /\ \/ /\ Goto(s, "loop")
          /\ IF last[s] = 0 THEN UNCHANGED down
             ELSE \E m \in owner[s] : Send("DATA", m)
          /\ UNCHANGED poolVars
       \/ /\ Return(s)
          /\ UNCHANGED down
    /\ UNCHANGED <<gateVars, dispHand, downSeq>> /\ DispKeeps

DispTakes(s) ==
    /\ dispatch[s] = "select"
    /\ Take(s)
    /\ dispHand' = [dispHand EXCEPT ![s] = outOffer[s]]
    /\ Goto(s, "send")
    /\ UNCHANGED <<gateVars, downSeq, down>> /\ DispKeeps

\* output is closed: tell the client, and return.
DispOutputClosed(s) ==
    /\ dispatch[s] = "select"
    /\ pool[s] = "closed"
    /\ \E m \in owner[s] : Send("CLOSE", m)
    /\ Return(s)
    /\ UNCHANGED <<gateVars, dispHand, downSeq>> /\ DispKeeps

\* The 5 s ticker.
DispTick(s) ==
    /\ dispatch[s] = "select"
    /\ Goto(s, "loop")
    /\ UNCHANGED <<poolVars, gateVars, dispHand, downSeq, down>> /\ DispKeeps

\* SendToClient, ten attempts: the chunk leaves with the next Seq, or the
\* session ends.
DispSend(s) ==
    /\ dispatch[s] = "send"
    /\ downSeq' = [downSeq EXCEPT ![s] = @ + 1]
    /\ \/ /\ \E m \in owner[s] : Send("DATA", m)
          /\ Goto(s, "save")
          /\ UNCHANGED poolVars
       \/ /\ Return(s)
          /\ UNCHANGED down
    /\ UNCHANGED <<gateVars, dispHand>> /\ DispKeeps

\* Mutant: SetWait keeps a request that is still there.
DispSavesFirst(s) ==
    /\ dispatch[s] = "save"
    /\ last' = [last EXCEPT ![s] = IF @ = 0 THEN dispHand[s] ELSE @]
    /\ dispHand' = [dispHand EXCEPT ![s] = 0]
    /\ Goto(s, "unready")
    /\ UNCHANGED <<poolVars, ready, readyOffer, opened, downSeq, down>>
    /\ DispKeeps

\* SetWait, one store at a time, after the send.
DispSaves(s) ==
    /\ dispatch[s] = "save"
    /\ last' = [last EXCEPT ![s] = dispHand[s]]
    /\ dispHand' = [dispHand EXCEPT ![s] = 0]
    /\ Goto(s, "unready")
    /\ UNCHANGED <<poolVars, ready, readyOffer, opened, downSeq, down>>
    /\ DispKeeps

\* The second store of SetWait.
DispUnready(s) ==
    /\ dispatch[s] = "unready"
    /\ ready' = [ready EXCEPT ![s] = FALSE]
    /\ Goto(s, "loop")
    /\ UNCHANGED <<poolVars, readyOffer, last, opened, dispHand, downSeq, down>>
    /\ DispKeeps

Dispatch(s) ==
    \/ DispLoop(s) \/ DispReady(s) \/ DispTimeout(s) \/ DispLate(s)
    \/ DispResend(s) \/ DispTakes(s) \/ DispOutputClosed(s) \/ DispTick(s)
    \/ DispSend(s) \/ DispSaves(s) \/ DispUnready(s)

-----------------------------------------------------------------------------
(* The cache drops an entry 60 s after SetSend.  Bound: once per key.      *)
Expire ==
    /\ \E k \in sent \ expired :
          /\ sent' = sent \ {k}
          /\ expired' = expired \cup {k}
    /\ UNCHANGED <<poolVars, gateVars, dispVars, regVars, loopVars, acked,
                   up, down, peerVars>>

\* ClientInfo, run by a ticker (Show) and by every request of the web page,
\* looks at the entries and picks those to delete: one that has moved no data
\* (for 30 s), or a closed one if its address is on line again; Show picks the
\* closed ones that are left.  The deletion follows at any later time, by key:
\* it takes the entry there is by then, even if it has moved data meanwhile or
\* is a new one, and does not close it.  Every entry starts without data, so
\* some walk may have picked its key, and the look needs no step of its own.
\* Deleting a closed entry changes nothing a look-up here can tell.
Sweep(m) ==
    /\ Live(m)
    /\ swept' = swept \cup {clients[m]}
    /\ clients' = [clients EXCEPT ![m] = NoSession]
    /\ UNCHANGED <<poolVars, gateVars, dispVars, owner, loopVars, cacheVars, up,
                   down, peerVars>>

(* The client and the network.                                             *)
Client == INSTANCE ClientSide WITH
    seq <- peerSeq, open <- peerOpen, told <- down

\* What MinerClient!SpeaksAsPromised says of the client.
Peer(m) ==
    /\ Client!Acts(m)
    /\ UNCHANGED <<poolVars, gateVars, dispVars, regVars, loopVars, cacheVars>>

\* Steps of one session's connection to the pool.
Conn(s) ==
    /\ ReadPool(s) \/ Reader(s) \/ Writer(s) \/ PoolHangsUp(s)
    /\ UNCHANGED <<gateVars, dispVars, regVars, loopVars, cacheVars, up, down,
                   peerVars>>

-----------------------------------------------------------------------------
Next ==
    \/ React
    \/ Handler
    \/ \E s \in Session : Conn(s) \/ Dispatch(s)
    \/ \E m \in Miner : Peer(m) \/ Sweep(m)
    \/ Expire

Spec == Init /\ [][Next]_vars

\* A goroutine that can run does run, and a timer that stays armed fires.  A
\* select whose channel stays ready does not pick the 3 s or 5 s timer each
\* time.  Nothing makes the pool talk, the miner send, or the network deliver,
\* and no send to the client is made to fail.
Fairness ==
    /\ WF_vars(Handler)
    /\ \A s \in Session :
          /\ WF_vars(Reader(s) /\ Conn(s))
          /\ WF_vars(Writer(s) /\ Conn(s))
          /\ WF_vars(Dispatch(s))
          /\ SF_vars(DispReady(s))
          /\ SF_vars(DispTakes(s) \/ DispOutputClosed(s))

FairSpec == Spec /\ Fairness

-----------------------------------------------------------------------------
(* Properties.                                                             *)

\* A retransmitted chunk is handed to the pool writer again only if the
\* cache had dropped its send_req: entry in between, whatever the order in
\* which tunnels deliver the copies (IsSend, SetSend and the blocking send
\* between them in proxy).
ForwardOnce == \A c \in Chunk : copies[c] > 1 => Key(c) \in expired

\* An ACK is a promise: the chunk it answers was handed to the writer of the
\* miner's own pool connection, and then was written, or is in the writer's
\* hand, or the connection was lost (proxy answers before conn.Write has run).
AckMeansForwarded ==
    \A c \in acked :
        /\ copies[c] > 0
        /\ \/ c \in written
           \/ \E s \in Session : /\ owner[s] = {c[1]}
                                 /\ hand[s] = c \/ pool[s] \in {"gone", "closed"}

\* Chunks of the pool leave in the order they were read, none skipped: Seq n
\* carries chunk n; what the dispatcher would retransmit is the newest chunk
\* sent; and at most two chunks wait inside the server.
DownstreamOrder ==
    \A s \in Session :
        /\ dispatch[s] = "send" => dispHand[s] = downSeq[s] + 1
        /\ dispatch[s] = "save" => dispHand[s] = downSeq[s]
        /\ dispatch[s] \in {"wait", "late", "resend"}
               => last[s] \in {0, downSeq[s]}
        /\ got[s] <= downSeq[s] + 2

\* The gate between two chunks.  SetReady sets the flag and also leaves a
\* token in readyChan; Wait may return on either, so one ACK can let two
\* chunks out - and never three, however ACKs are repeated, whichever side of
\* SetWait they fall on, and whatever times out.
WindowPerAck == \A s \in Session : downSeq[s] <= 1 + 2 * opened[s]

\* However often LOGIN is repeated and sessions close in between, a miner has
\* at most one open session, the registered one - but for the open sessions that
\* ClientInfo or Show deleted from clients: unused ones (status.go:236), and
\* those that took the place of the one they had seen (status.go:54, 230).
OneOpenSession ==
    \A m \in Miner : \A s \in Session :
        owner[s] = {m} /\ ~inputClosed[s] => clients[m] = s \/ s \in swept

\* While a session is open its dispatch goroutine runs, and so do the reader and
\* the writer until the connection to the pool is closed: neither of the two ends
\* without closing it.  The exception is real: between PoolConn.Close and the end
\* of the dispatch goroutine the session is open with neither of them, and if
\* that goroutine waits for an ACK in vain, this lasts (LoopReturns).
OpenIsServed ==
    \A s \in Session : owner[s] # {} /\ ~inputClosed[s] =>
        /\ dispatch[s] \notin {"off", "done"}
        /\ \/ pool[s] = "closed"
           \/ reader[s] \in {"read", "send"} /\ writer[s] \in {"check", "recv", "write"}

\* When a session closes, all three of its goroutines end, wherever they were
\* blocked and whatever the event loop is doing.
ClosedSessionEnds ==
    \A s \in Session :
        inputClosed[s] ~> /\ dispatch[s] = "done"
                          /\ reader[s] = "done"
                          /\ writer[s] = "done"

\* status.go:235 says that ClientInfo deletes the unused connection.  Nobody
\* can find the session any more, so somebody should end it.
SweptSessionEnds == \A s \in Session : (s \in swept) ~> inputClosed[s]

\* README.md:27 promises a connection that never drops.  The event loop, which
\* carries all miners, must come back from every handler: from the send to the
\* pool writer (proxy) and from the send on readyChan (SetReady).
LoopReturns == (loop # "idle") ~> (loop = "idle")

-----------------------------------------------------------------------------
(* What the server promises, and how this module implements it: a key is   *)
(* known from the moment the writer takes the chunk, before SetSend.       *)
Taken == loop = "forward" /\ inOffer[loopSess] = NoChunk

Promise == INSTANCE Forwarding WITH
    Req <- Chunk,
    KeyOf <- [c \in Chunk |-> Key(c)],
    handed <- copies,
    known <- sent \cup (IF Taken THEN {Key(loopChunk)} ELSE {}),
    answered <- acked

\* The event loop, the writers and the cache together behave like one atomic
\* forwarder: no interleaving of proxy with a close, a panic, a re-login or an
\* expiry lets a request be answered that is neither remembered nor being
\* forwarded, or be handed over while its key is remembered.
ForwardsAsPromised == Promise!Spec

=============================================================================
