------------------------ MODULE ServerSession_proofs ------------------------
(***************************************************************************)
(* Theorems about ServerSession, for every number of miners, sessions and  *)
(* chunks.                                                                 *)
(***************************************************************************)
EXTENDS ServerSession, TLAPS

USE PoolAssumption, SessionAssumption
USE DEF poolVars, gateVars, dispVars, regVars, loopVars, cacheVars, peerVars

-----------------------------------------------------------------------------
(* Types.  That downSeq stays within its range needs to be known where the *)
(* chunks of the pool are, so Pipeline goes along with TypeOK.             *)

\* The chunk the dispatch goroutine holds and has not sent.
Held(s) == IF dispatch[s] = "send" THEN 1 ELSE 0

\* Every chunk read is sent, held by the dispatcher, offered on output, or
\* was lost by a reader that panicked and reads no more.
Pipeline ==
    \A s \in Session :
        /\ pool[s] = "none" => reader[s] = "off" /\ dispatch[s] = "off"
        /\ reader[s] = "off" => got[s] = 0 /\ downSeq[s] = 0
        /\ reader[s] # "send" => outOffer[s] = 0
        /\ outOffer[s] # 0 =>
               outOffer[s] = got[s] /\ got[s] = downSeq[s] + Held(s) + 1
        /\ reader[s] \in {"read", "send"} /\ outOffer[s] = 0 =>
               got[s] = downSeq[s] + Held(s)
        /\ got[s] <= downSeq[s] + Held(s) + 1
        /\ downSeq[s] + Held(s) <= got[s]
        /\ dispatch[s] = "send" => dispHand[s] = downSeq[s] + 1

\* A chunk is in the writer's hand exactly while it is being written.
InHand ==
    \A s \in Session :
        /\ writer[s] = "write" <=> hand[s] # NoChunk
        /\ pool[s] = "none" => writer[s] = "off"

LEMMA InitType == Init => TypeOK /\ Pipeline /\ InHand
BY DEF Init, PoolInit, TypeOK, PoolTypeOK, Chunk, Pipeline, Held, InHand

LEMMA ConnType ==
    ASSUME TypeOK, InHand, NEW s \in Session, Conn(s)
    PROVE  TypeOK'
<1> USE DEF Conn, TypeOK, PoolTypeOK
<1>1. CASE ReadPool(s)
  BY <1>1 DEF ReadPool
<1>2. CASE ReaderEnds(s)
  BY <1>2 DEF ReaderEnds
<1>3. CASE ReaderResumes(s)
  BY <1>3 DEF ReaderResumes
<1>4. CASE ReaderPanics(s)
  BY <1>4 DEF ReaderPanics
<1>5. CASE WriterChecks(s) \/ WriterSeesClose(s)
  BY <1>5 DEF WriterChecks, WriterSeesClose
<1>6. CASE WriterReceives(s)
  BY <1>6 DEF WriterReceives
<1>7. CASE WriterWrites(s)
  <2>1. written' \in SUBSET UpChunk
    BY <1>7 DEF WriterWrites, InHand
  <2>2. QED
    BY <1>7, <2>1 DEF WriterWrites
<1>8. CASE WriterFails(s)
  BY <1>8 DEF WriterFails
<1>9. CASE PoolHangsUp(s)
  BY <1>9 DEF PoolHangsUp
<1>10. QED
  BY <1>1, <1>2, <1>3, <1>4, <1>5, <1>6, <1>7, <1>8, <1>9
  DEF Reader, Writer

LEMMA DispatchType ==
    ASSUME TypeOK, Pipeline, NEW s \in Session, Dispatch(s)
    PROVE  TypeOK'
<1> USE DEF TypeOK, PoolTypeOK, DispKeeps, Goto, Return, CloseInput, Send,
            DownF, DownFrame
<1>1. CASE DispLoop(s)
  BY <1>1 DEF DispLoop
<1>2. CASE DispReady(s)
  BY <1>2 DEF DispReady
<1>3. CASE DispTimeout(s) \/ DispTick(s)
  BY <1>3 DEF DispTimeout, DispTick
<1>4. CASE DispLate(s)
  BY <1>4 DEF DispLate
<1>5. CASE DispResend(s)
  <2>1. down' \in SUBSET DownFrame
    BY <1>5 DEF DispResend
  <2>2. QED
    BY <1>5, <2>1 DEF DispResend
<1>6. CASE DispTakes(s)
  BY <1>6 DEF DispTakes, Take
<1>7. CASE DispOutputClosed(s)
  BY <1>7 DEF DispOutputClosed
<1>8. CASE DispSend(s)
  <2>1. downSeq[s] + 1 \in 0..MaxDown
    BY <1>8 DEF DispSend, Pipeline, Held
  <2>2. down' \in SUBSET DownFrame
    BY <1>8 DEF DispSend
  <2>3. QED
    BY <1>8, <2>1, <2>2 DEF DispSend
<1>9. CASE DispSaves(s)
  BY <1>9 DEF DispSaves
<1>10. CASE DispUnready(s)
  BY <1>10 DEF DispUnready
<1>11. QED
  BY <1>1, <1>2, <1>3, <1>4, <1>5, <1>6, <1>7, <1>8, <1>9, <1>10 DEF Dispatch

LEMMA ReactType ==
    ASSUME TypeOK, React
    PROVE  TypeOK'
<1> USE DEF TypeOK, PoolTypeOK, Receive, UpF, UpFrame, Send, DownF, DownFrame
<1>1. ASSUME NEW m \in Miner, RecvLogin(m)
      PROVE  TypeOK'
  <2>1. CASE LoginAgain(m) \/ LoginDialFails(m)
    BY <1>1, <2>1 DEF RecvLogin, LoginAgain, LoginDialFails
  <2>2. ASSUME NEW s \in Session, LoginCreates(m, s)
        PROVE  TypeOK'
    BY <1>1, <2>2 DEF RecvLogin, LoginCreates, Dial
  <2>3. QED
    BY <1>1, <2>1, <2>2 DEF RecvLogin
<1>2. ASSUME NEW m \in Miner, RecvAck(m)
      PROVE  TypeOK'
  BY <1>2 DEF RecvAck, Live
<1>3. ASSUME NEW m \in Miner, RecvClose(m)
      PROVE  TypeOK'
  BY <1>3 DEF RecvClose, Live, CloseInput
<1>4. ASSUME NEW c \in Chunk, RecvData(c)
      PROVE  TypeOK'
  <2>1. c[1] \in Miner /\ c[2] \in 1..MaxUp
    BY DEF Chunk
  <2>2. CASE DataNeedsLogin(c)
    BY <1>4, <2>1, <2>2 DEF RecvData, DataNeedsLogin
  <2>3. CASE DataIsSend(c)
    BY <1>4, <2>1, <2>3 DEF RecvData, DataIsSend, Live
  <2>4. CASE DataForward(c)
    BY <1>4, <2>1, <2>4 DEF RecvData, DataForward, Offer, Live
  <2>5. QED
    BY <1>4, <2>2, <2>3, <2>4 DEF RecvData
<1>5. QED
  BY <1>1, <1>2, <1>3, <1>4 DEF React

LEMMA HandlerType ==
    ASSUME TypeOK, Handler, loop # "idle" => loopSess \in Session,
           loop = "forward" => loopChunk \in Chunk
    PROVE  TypeOK'
<1> USE DEF TypeOK, PoolTypeOK, Idle
<1>1. CASE ForwardDone
  <2>1. /\ loopChunk \in Chunk /\ loopChunk[1] \in Miner
        /\ Key(loopChunk) \in (1..MaxUp) \X {Payload[c] : c \in Chunk}
    BY <1>1 DEF ForwardDone, Chunk, Key
  <2>2. QED
    BY <1>1, <2>1 DEF ForwardDone, Send, DownF, DownFrame
<1>2. CASE ForwardPanics
  BY <1>2 DEF ForwardPanics, Withdraw
<1>3. CASE SetReadyClears \/ SetReadyReturns
  BY <1>3 DEF SetReadyClears, SetReadyReturns
<1>4. CASE SetReadyStores
  BY <1>4 DEF SetReadyStores
<1>5. QED
  BY <1>1, <1>2, <1>3, <1>4 DEF Handler

LEMMA PeerType ==
    ASSUME TypeOK, NEW m \in Miner, Peer(m)
    PROVE  TypeOK'
<1> USE DEF TypeOK, PoolTypeOK, poolVars, gateVars, dispVars, regVars, loopVars, cacheVars,
            Peer, UpFrame, Client!Request, Client!Plain
<1>1. CASE Client!Numbers(m)
  <2>1. peerSeq[m] + 1 \in 0..MaxUp
    BY <1>1 DEF Client!Numbers
  <2>2. QED
    BY <1>1, <2>1 DEF Client!Numbers
<1>2. CASE Client!Says(m)
  <2>1. peerSeq[m] \in 0..MaxUp
    BY <1>2 DEF Client!Says
  <2>2. Client!Request(m, peerSeq[m]) \in UpFrame
    BY <2>1
  <2>3. QED
    BY <1>2, <2>2 DEF Client!Says
<1>3. CASE Client!Acks(m)
  BY <1>3 DEF Client!Acks
<1>4. CASE Client!Ends(m)
  BY <1>4 DEF Client!Ends
<1>5. QED
  BY <1>1, <1>2, <1>3, <1>4 DEF Client!Acts

-----------------------------------------------------------------------------
(* Where the chunks are.                                                   *)

LEMMA PipelineStep ==
    ASSUME TypeOK, Pipeline, [Next]_vars
    PROVE  Pipeline'
<1> USE DEF TypeOK, PoolTypeOK, Pipeline, Held
<1>1. ASSUME NEW s \in Session, Conn(s)
      PROVE  Pipeline'
  <2> USE DEF Conn
  <2>1. CASE ReadPool(s)
    BY <1>1, <2>1 DEF ReadPool
  <2>2. CASE ReaderEnds(s) \/ ReaderResumes(s)
    BY <1>1, <2>2 DEF ReaderEnds, ReaderResumes
  <2>3. CASE ReaderPanics(s)
    BY <1>1, <2>3 DEF ReaderPanics
  <2>4. CASE Writer(s) \/ PoolHangsUp(s)
    BY <1>1, <2>4 DEF Writer, WriterChecks, WriterReceives, WriterSeesClose,
       WriterWrites, WriterFails, PoolHangsUp
  <2>5. QED
    BY <1>1, <2>1, <2>2, <2>3, <2>4 DEF Reader
<1>2. ASSUME NEW s \in Session, Dispatch(s)
      PROVE  Pipeline'
  <2> USE DEF DispKeeps, Goto, Return, CloseInput
  <2>1. CASE DispLoop(s)
    BY <1>2, <2>1 DEF DispLoop
  <2>2. CASE DispReady(s) \/ DispTimeout(s) \/ DispTick(s)
    BY <1>2, <2>2 DEF DispReady, DispTimeout, DispTick
  <2>3. CASE DispLate(s)
    BY <1>2, <2>3 DEF DispLate
  <2>4. CASE DispResend(s)
    BY <1>2, <2>4 DEF DispResend
  <2>5. CASE DispTakes(s)
    BY <1>2, <2>5 DEF DispTakes, Take
  <2>6. CASE DispOutputClosed(s)
    BY <1>2, <2>6 DEF DispOutputClosed
  <2>7. CASE DispSend(s)
    BY <1>2, <2>7 DEF DispSend
  <2>8. CASE DispSaves(s) \/ DispUnready(s)
    BY <1>2, <2>8 DEF DispSaves, DispUnready
  <2>9. QED
    BY <1>2, <2>1, <2>2, <2>3, <2>4, <2>5, <2>6, <2>7, <2>8 DEF Dispatch
<1>3. ASSUME NEW m \in Miner, RecvLogin(m)
      PROVE  Pipeline'
  <2>1. CASE LoginAgain(m) \/ LoginDialFails(m)
    BY <1>3, <2>1 DEF RecvLogin, LoginAgain, LoginDialFails
  <2>2. ASSUME NEW s \in Session, LoginCreates(m, s)
        PROVE  Pipeline'
    BY <1>3, <2>2 DEF RecvLogin, LoginCreates, Dial
  <2>3. QED
    BY <1>3, <2>1, <2>2 DEF RecvLogin
<1>4. ASSUME NEW m \in Miner, RecvAck(m) \/ RecvClose(m)
      PROVE  Pipeline'
  BY <1>4 DEF RecvAck, RecvClose, CloseInput, Live
<1>5. ASSUME NEW c \in Chunk, RecvData(c)
      PROVE  Pipeline'
  BY <1>5 DEF RecvData, DataNeedsLogin, DataIsSend, DataForward, Offer
<1>6. CASE Handler
  BY <1>6 DEF Handler, ForwardDone, ForwardPanics, Withdraw, SetReadyClears,
     SetReadyStores, SetReadyReturns, Idle
<1>7. ASSUME NEW m \in Miner, Peer(m)
      PROVE  Pipeline'
  BY <1>7 DEF Peer
<1>8. CASE Expire \/ UNCHANGED vars \/ \E m \in Miner : Sweep(m)
  BY <1>8 DEF Expire, Sweep, vars
<1>9. QED
  BY <1>1, <1>2, <1>3, <1>4, <1>5, <1>6, <1>7, <1>8 DEF Next, React

LEMMA InHandStep ==
    ASSUME TypeOK, InHand, [Next]_vars
    PROVE  InHand'
<1> USE DEF TypeOK, PoolTypeOK, InHand
<1>1. ASSUME NEW s \in Session, Conn(s)
      PROVE  InHand'
  <2> USE DEF Conn
  <2>1. CASE WriterReceives(s)
    BY <1>1, <2>1 DEF WriterReceives
  <2>2. CASE WriterChecks(s) \/ WriterSeesClose(s)
    BY <1>1, <2>2 DEF WriterChecks, WriterSeesClose
  <2>3. CASE WriterWrites(s) \/ WriterFails(s)
    BY <1>1, <2>3 DEF WriterWrites, WriterFails
  <2>4. CASE ReadPool(s) \/ Reader(s) \/ PoolHangsUp(s)
    BY <1>1, <2>4 DEF ReadPool, Reader, ReaderEnds, ReaderResumes,
       ReaderPanics, PoolHangsUp
  <2>5. QED
    BY <1>1, <2>1, <2>2, <2>3, <2>4 DEF Writer
<1>2. ASSUME NEW m \in Miner, RecvLogin(m)
      PROVE  InHand'
  BY <1>2 DEF RecvLogin, LoginAgain, LoginDialFails, LoginCreates, Dial
<1>3. CASE React /\ ~(\E m \in Miner : RecvLogin(m))
  BY <1>3 DEF React, RecvAck, RecvClose, CloseInput, RecvData, DataNeedsLogin,
     DataIsSend, DataForward, Offer
<1>4. CASE Handler
  BY <1>4 DEF Handler, ForwardDone, ForwardPanics, Withdraw, SetReadyClears,
     SetReadyStores, SetReadyReturns, Idle
<1>5. ASSUME NEW s \in Session, Dispatch(s)
      PROVE  InHand'
  BY <1>5 DEF Dispatch, DispLoop, DispReady, DispTimeout, DispLate,
     DispResend, DispTakes, DispOutputClosed, DispTick, DispSend, DispSaves,
     DispUnready, DispKeeps, Goto, Return, Take, CloseInput
<1>6. ASSUME NEW m \in Miner, Peer(m)
      PROVE  InHand'
  BY <1>6 DEF Peer
<1>7. CASE Expire \/ UNCHANGED vars \/ \E m \in Miner : Sweep(m)
  BY <1>7 DEF Expire, Sweep, vars
<1>8. QED
  BY <1>1, <1>2, <1>3, <1>4, <1>5, <1>6, <1>7 DEF Next, React

-----------------------------------------------------------------------------
(* The event loop.                                                         *)

\* A handler works on a session of the right miner, only the handler of DATA
\* offers a chunk, and the cache does not hold the key of that chunk.
InHandler ==
    /\ loop # "idle" => loopSess \in Session
    /\ loop = "forward" => /\ loopChunk \in Chunk
                           /\ owner[loopSess] = {loopChunk[1]}
                           /\ Key(loopChunk) \notin sent
    /\ \A s \in Session :
          inOffer[s] # NoChunk => /\ loop = "forward"
                                  /\ loopSess = s
                                  /\ inOffer[s] = loopChunk

\* The registry: a registered session belongs to the miner it is registered
\* for, a session never dialled to nobody.
Registry ==
    /\ \A m \in Miner : clients[m] # NoSession => owner[clients[m]] = {m}
    /\ \A s \in Session : pool[s] = "none" => owner[s] = {}

\* What the steps of the connections and of the dispatch goroutines leave
\* alone.
LEMMA ElsewhereStep ==
    ASSUME TypeOK, Pipeline, InHand,
           NEW s \in Session, Conn(s) \/ Dispatch(s)
    PROVE  /\ UNCHANGED <<clients, owner, swept, loop, loopSess, loopChunk,
                          sent, expired, acked>>
           /\ \A q \in Session : (pool[q] = "none") <=> (pool[q] = "none")'
           /\ \A q \in Session : inputClosed[q] => inputClosed'[q]
           /\ \A q \in Session : inOffer'[q] \in {inOffer[q], NoChunk}
<1> USE DEF TypeOK, PoolTypeOK, Pipeline, InHand
<1>1. CASE Conn(s) /\ (Reader(s) \/ ReadPool(s) \/ PoolHangsUp(s))
  BY <1>1 DEF Conn, ReadPool, Reader, ReaderEnds, ReaderResumes,
     ReaderPanics, PoolHangsUp
<1>2. CASE Conn(s) /\ Writer(s)
  BY <1>2 DEF Conn, Writer, WriterChecks, WriterReceives, WriterSeesClose,
     WriterWrites, WriterFails
<1>3. CASE Dispatch(s)
  <2> USE DEF DispKeeps, Goto, Return, CloseInput
  <2>1. CASE DispLoop(s)
    BY <2>1 DEF DispLoop
  <2>5. CASE DispLate(s)
    BY <2>5 DEF DispLate
  <2>6. CASE DispResend(s)
    BY <2>6 DEF DispResend
  <2>2. CASE DispOutputClosed(s) \/ DispSend(s)
    BY <2>2 DEF DispOutputClosed, DispSend
  <2>3. CASE \/ DispReady(s) \/ DispTimeout(s) \/ DispTakes(s)
             \/ DispTick(s) \/ DispSaves(s) \/ DispUnready(s)
    BY <2>3 DEF DispReady, DispTimeout, DispTakes, Take, DispTick, DispSaves,
       DispUnready
  <2>4. QED
    BY <1>3, <2>1, <2>2, <2>3, <2>5, <2>6 DEF Dispatch
<1>4. QED
  BY <1>1, <1>2, <1>3 DEF Conn

LEMMA RegistryStep ==
    ASSUME TypeOK, Pipeline, InHand, Registry, [Next]_vars
    PROVE  Registry'
<1> USE DEF TypeOK, PoolTypeOK, Registry
<1>1. ASSUME NEW s \in Session, Conn(s) \/ Dispatch(s)
      PROVE  Registry'
  BY <1>1, ElsewhereStep
<1>2. ASSUME NEW m \in Miner, RecvLogin(m)
      PROVE  Registry'
  <2>1. CASE LoginAgain(m) \/ LoginDialFails(m)
    BY <1>2, <2>1 DEF RecvLogin, LoginAgain, LoginDialFails
  <2>2. ASSUME NEW s \in Session, LoginCreates(m, s)
        PROVE  Registry'
    BY <1>2, <2>2 DEF RecvLogin, LoginCreates, Dial
  <2>3. QED
    BY <1>2, <2>1, <2>2 DEF RecvLogin
<1>3. ASSUME NEW m \in Miner, RecvAck(m) \/ RecvClose(m)
      PROVE  Registry'
  BY <1>3 DEF RecvAck, RecvClose, CloseInput, Live
<1>4. ASSUME NEW c \in Chunk, RecvData(c)
      PROVE  Registry'
  BY <1>4 DEF RecvData, DataNeedsLogin, DataIsSend, DataForward, Offer
<1>5. CASE Handler
  BY <1>5 DEF Handler, ForwardDone, ForwardPanics, Withdraw, SetReadyClears,
     SetReadyStores, SetReadyReturns, Idle
<1>6. CASE Expire \/ UNCHANGED vars \/ \E m \in Miner : Peer(m) \/ Sweep(m)
  BY <1>6 DEF Expire, vars, Sweep, Live, Peer
<1>7. QED
  BY <1>1, <1>2, <1>3, <1>4, <1>5, <1>6 DEF Next, React

LEMMA InHandlerStep ==
    ASSUME TypeOK, Pipeline, InHand, Registry, InHandler, [Next]_vars
    PROVE  InHandler'
<1> USE DEF TypeOK, PoolTypeOK, InHandler
<1>1. ASSUME NEW s \in Session, Conn(s) \/ Dispatch(s)
      PROVE  InHandler'
  <2>1. UNCHANGED <<owner, loop, loopSess, loopChunk, sent>>
    BY <1>1, ElsewhereStep
  <2>2. \A q \in Session : inOffer'[q] \in {inOffer[q], NoChunk}
    BY <1>1, ElsewhereStep
  <2>3. QED
    BY <2>1, <2>2 DEF Key
<1>2. ASSUME NEW m \in Miner, RecvLogin(m)
      PROVE  InHandler'
  BY <1>2 DEF RecvLogin, Receive, LoginAgain, LoginDialFails, LoginCreates,
     Dial
<1>3. ASSUME NEW m \in Miner, RecvAck(m) \/ RecvClose(m)
      PROVE  InHandler'
  BY <1>3 DEF RecvAck, RecvClose, Receive, CloseInput, Live
<1>4. ASSUME NEW c \in Chunk, RecvData(c)
      PROVE  InHandler'
  <2>1. CASE DataNeedsLogin(c) \/ DataIsSend(c)
    BY <1>4, <2>1 DEF RecvData, Receive, DataNeedsLogin, DataIsSend
  <2>2. CASE DataForward(c)
    BY <1>4, <2>2 DEF RecvData, Receive, DataForward, Offer, Live, Registry,
       Chunk, Key
  <2>3. QED
    BY <1>4, <2>1, <2>2 DEF RecvData
<1>5. CASE Handler
  BY <1>5 DEF Handler, ForwardDone, ForwardPanics, Withdraw, SetReadyClears,
     SetReadyStores, SetReadyReturns, Idle
<1>6. CASE Expire \/ UNCHANGED vars \/ \E m \in Miner : Peer(m) \/ Sweep(m)
  BY <1>6 DEF Expire, vars, Sweep, Live, Peer, Key
<1>7. QED
  BY <1>1, <1>2, <1>3, <1>4, <1>5, <1>6 DEF Next, React

-----------------------------------------------------------------------------
(* The inductive invariant so far, and the first theorems.                 *)

Core == TypeOK /\ Pipeline /\ InHand /\ Registry /\ InHandler

LEMMA CoreInit == Init => Core
BY InitType DEF Core, Init, PoolInit, Registry, InHandler

LEMMA CoreStep ==
    ASSUME Core, [Next]_vars
    PROVE  Core'
<1> USE DEF Core
<1>1. TypeOK'
  <2>1. CASE React
    BY <2>1, ReactType
  <2>2. CASE Handler
    BY <2>2, HandlerType DEF InHandler
  <2>3. ASSUME NEW s \in Session, Conn(s)
        PROVE  TypeOK'
    BY <2>3, ConnType
  <2>4. ASSUME NEW s \in Session, Dispatch(s)
        PROVE  TypeOK'
    BY <2>4, DispatchType
  <2>5. ASSUME NEW m \in Miner, Peer(m)
        PROVE  TypeOK'
    BY <2>5, PeerType
  <2>6. CASE Expire \/ UNCHANGED vars \/ \E m \in Miner : Sweep(m)
    BY <2>6 DEF Expire, vars, Sweep, Live, TypeOK, PoolTypeOK
  <2>7. QED
    BY <2>1, <2>2, <2>3, <2>4, <2>5, <2>6 DEF Next
<1>2. Pipeline'
  BY PipelineStep
<1>3. InHand'
  BY InHandStep
<1>4. Registry'
  BY RegistryStep
<1>5. InHandler'
  BY InHandlerStep
<1>6. QED
  BY <1>1, <1>2, <1>3, <1>4, <1>5

THEOREM CoreInvariant == Spec => []Core
BY CoreInit, CoreStep, PTL DEF Spec

\* Every variable keeps its type; in particular no session numbers more
\* chunks than it read, whatever is retransmitted.
THEOREM TypeCorrect == Spec => []TypeOK
BY CoreInvariant, PTL DEF Core

-----------------------------------------------------------------------------
(* One open session per miner.                                             *)

LEMMA OneOpenStep ==
    ASSUME Core, OneOpenSession, [Next]_vars
    PROVE  OneOpenSession'
<1> USE DEF Core, TypeOK, PoolTypeOK, OneOpenSession
<1>1. ASSUME NEW s \in Session, Conn(s) \/ Dispatch(s)
      PROVE  OneOpenSession'
  BY <1>1, ElsewhereStep
<1>2. ASSUME NEW m \in Miner, RecvLogin(m)
      PROVE  OneOpenSession'
  <2>1. CASE LoginAgain(m) \/ LoginDialFails(m)
    BY <1>2, <2>1 DEF RecvLogin, LoginAgain, LoginDialFails
  <2>2. ASSUME NEW s \in Session, LoginCreates(m, s)
        PROVE  OneOpenSession'
    <3>1. /\ owner[s] = {} /\ owner' = [owner EXCEPT ![s] = {m}]
          /\ clients' = [clients EXCEPT ![m] = s]
          /\ UNCHANGED <<swept, inputClosed>>
      BY <2>2 DEF LoginCreates, Dial, Registry
    <3>2. clients[m] = NoSession \/ inputClosed[clients[m]]
      BY <2>2 DEF LoginCreates, Live
    <3>3. SUFFICES ASSUME NEW n \in Miner, NEW q \in Session,
                          owner'[q] = {n}, ~inputClosed'[q]
                   PROVE  clients'[n] = q \/ q \in swept'
      OBVIOUS
    <3>4. CASE q = s
      BY <3>1, <3>3, <3>4
    <3>5. CASE q # s
      BY <3>1, <3>2, <3>3, <3>5
    <3>6. QED
      BY <3>4, <3>5
  <2>3. QED
    BY <1>2, <2>1, <2>2 DEF RecvLogin
<1>3. ASSUME NEW m \in Miner, RecvAck(m) \/ RecvClose(m)
      PROVE  OneOpenSession'
  BY <1>3 DEF RecvAck, RecvClose, CloseInput, Live
<1>4. ASSUME NEW c \in Chunk, RecvData(c)
      PROVE  OneOpenSession'
  BY <1>4 DEF RecvData, DataNeedsLogin, DataIsSend, DataForward, Offer
<1>5. CASE Handler
  BY <1>5 DEF Handler, ForwardDone, ForwardPanics, Withdraw, SetReadyClears,
     SetReadyStores, SetReadyReturns, Idle
<1>6. CASE Expire \/ UNCHANGED vars \/ \E m \in Miner : Peer(m) \/ Sweep(m)
  BY <1>6 DEF Expire, vars, Sweep, Live, Peer
<1>7. QED
  BY <1>1, <1>2, <1>3, <1>4, <1>5, <1>6 DEF Next, React

\* getOrCreateClient and Client.Close keep the registry straight: a miner's
\* open session is the registered one, or ClientInfo or Show deleted it.
THEOREM OneOpen == Spec => []OneOpenSession
<1>1. Init => OneOpenSession
  BY DEF Init, OneOpenSession
<1>2. QED
  BY <1>1, CoreInvariant, OneOpenStep, PTL DEF Spec

-----------------------------------------------------------------------------
(* No half-dead session.                                                   *)

\* What a goroutine that ended leaves behind, and that a session is made with
\* all of its goroutines.
Whole ==
    \A s \in Session :
        /\ owner[s] # {} => pool[s] # "none" /\ dispatch[s] # "off"
        /\ pool[s] # "none" => reader[s] # "off" /\ writer[s] # "off"
        /\ dispatch[s] = "done" => inputClosed[s]
        /\ reader[s] = "done" \/ writer[s] = "done" => pool[s] = "closed"

\* One connection moves on; nothing else of a session changes.
LEMMA WholeConn ==
    ASSUME Core, Whole, NEW s \in Session, Conn(s)
    PROVE  Whole'
<1> USE DEF Core, TypeOK, PoolTypeOK, Whole, Conn
<1>1. CASE ReadPool(s) \/ PoolHangsUp(s)
  BY <1>1 DEF ReadPool, PoolHangsUp
<1>2. CASE Reader(s)
  BY <1>2 DEF Reader, ReaderEnds, ReaderResumes, ReaderPanics
<1>3. CASE WriterChecks(s)
  BY <1>3 DEF WriterChecks
<1>4. CASE WriterReceives(s) \/ WriterWrites(s)
  BY <1>4 DEF WriterReceives, WriterWrites
<1>5. CASE WriterSeesClose(s) \/ WriterFails(s)
  BY <1>5 DEF WriterSeesClose, WriterFails, InHand
<1>6. QED
  BY <1>1, <1>2, <1>3, <1>4, <1>5 DEF Writer

LEMMA WholeDispatch ==
    ASSUME Core, Whole, NEW s \in Session, Dispatch(s)
    PROVE  Whole'
<1> USE DEF Core, TypeOK, PoolTypeOK, Whole, DispKeeps, Goto, Return, CloseInput
<1>1. dispatch[s] # "off" => pool[s] # "none"
  BY DEF Pipeline
<1>2. CASE DispLoop(s) \/ DispLate(s)
  BY <1>1, <1>2 DEF DispLoop, DispLate
<1>3. CASE DispResend(s)
  BY <1>1, <1>3 DEF DispResend
<1>4. CASE DispOutputClosed(s) \/ DispSend(s)
  BY <1>1, <1>4 DEF DispOutputClosed, DispSend
<1>5. CASE DispReady(s) \/ DispTimeout(s) \/ DispTick(s) \/ DispSaves(s) \/ DispUnready(s)
  BY <1>5 DEF DispReady, DispTimeout, DispTick, DispSaves, DispUnready
<1>6. CASE DispTakes(s)
  BY <1>6 DEF DispTakes, Take
<1>7. QED
  BY <1>2, <1>3, <1>4, <1>5, <1>6 DEF Dispatch

LEMMA WholeStep ==
    ASSUME Core, Whole, [Next]_vars
    PROVE  Whole'
<1> USE DEF Core, TypeOK, PoolTypeOK, Whole
<1>1. ASSUME NEW m \in Miner, RecvLogin(m)
      PROVE  Whole'
  BY <1>1 DEF RecvLogin, LoginAgain, LoginDialFails, LoginCreates, Dial, Registry
<1>2. ASSUME NEW m \in Miner, RecvAck(m) \/ RecvClose(m)
      PROVE  Whole'
  <2>1. CASE Live(m) /\ CloseInput(clients[m]) /\ UNCHANGED <<owner, dispatch>>
    <3>1. clients[m] \in Session /\ owner[clients[m]] = {m}
      BY <1>2, <2>1 DEF Live, Registry
    <3>2. {m} # {}
      OBVIOUS
    <3>3. pool[clients[m]] # "none"
      BY <3>1, <3>2 DEF Registry
    <3>4. QED
      BY <2>1, <3>1, <3>3 DEF CloseInput
  <2>2. CASE UNCHANGED <<owner, poolVars, dispatch>>
    BY <2>2
  <2>3. QED
    BY <1>2, <2>1, <2>2 DEF RecvAck, RecvClose
<1>3. ASSUME NEW c \in Chunk, RecvData(c)
      PROVE  Whole'
  BY <1>3 DEF RecvData, DataNeedsLogin, DataIsSend, DataForward, Offer
<1>4. CASE Handler
  BY <1>4 DEF Handler, ForwardDone, ForwardPanics, Withdraw, SetReadyClears,
     SetReadyStores, SetReadyReturns
<1>5. CASE Expire \/ UNCHANGED vars \/ \E m \in Miner : Peer(m) \/ Sweep(m)
  BY <1>5 DEF Expire, vars, Sweep, Peer
<1>6. QED
  BY <1>1, <1>2, <1>3, <1>4, <1>5, WholeConn, WholeDispatch DEF Next, React

\* An open session has its dispatch goroutine, and its reader and writer until
\* the connection to the pool is closed (the deferred Close of each): then it may
\* be served by its dispatch goroutine only.
THEOREM Served == Spec => []OpenIsServed
<1>1. Init => Whole
  BY DEF Init, PoolInit, Whole
<1>2. Core /\ Whole => OpenIsServed
  BY DEF Core, TypeOK, PoolTypeOK, Whole, OpenIsServed
<1>3. QED
  BY <1>1, <1>2, CoreInvariant, WholeStep, PTL DEF Spec

-----------------------------------------------------------------------------
(* No chunk is forwarded twice.                                            *)

\* A chunk taken once is in the cache, was dropped from it, or belongs to the
\* handler that is about to put it there.
Remembered ==
    \A c \in Chunk :
        copies[c] > 0 => \/ Key(c) \in sent \cup expired
                         \/ /\ loop = "forward"
                            /\ loopChunk = c
                            /\ inOffer[loopSess] = NoChunk

\* The steps that leave copies and the cache alone.
LEMMA OnceElsewhere ==
    ASSUME Core, Remembered, ForwardOnce,
           UNCHANGED <<copies, sent, expired, loop, loopSess, loopChunk>>,
           \A s \in Session : inOffer'[s] \in {inOffer[s], NoChunk}
    PROVE  Remembered' /\ ForwardOnce'
BY DEF Core, TypeOK, PoolTypeOK, Remembered, ForwardOnce, InHandler, Key

LEMMA OnceStep ==
    ASSUME Core, Remembered, ForwardOnce, [Next]_vars
    PROVE  Remembered' /\ ForwardOnce'
<1> USE DEF Core, TypeOK, PoolTypeOK
<1>1. ASSUME NEW s \in Session, Conn(s)
      PROVE  Remembered' /\ ForwardOnce'
  <2>1. CASE WriterReceives(s)
    <3>1. /\ loop = "forward" /\ loopSess = s /\ loopChunk = inOffer[s]
          /\ loopChunk \in Chunk /\ Key(loopChunk) \notin sent
      BY <2>1 DEF WriterReceives, InHandler
    <3>2. copies[loopChunk] > 0 => Key(loopChunk) \in expired
      BY <2>1, <3>1 DEF WriterReceives, Remembered
    <3>3. /\ UNCHANGED <<loop, loopSess, loopChunk, sent, expired>>
          /\ copies' = [copies EXCEPT ![loopChunk] = @ + 1]
          /\ inOffer'[loopSess] = NoChunk
      BY <1>1, <2>1, <3>1 DEF Conn, WriterReceives
    <3>4. Remembered'
      BY <3>1, <3>3 DEF Remembered, Key
    <3>5. ForwardOnce'
      BY <3>1, <3>2, <3>3 DEF ForwardOnce, Key
    <3>6. QED
      BY <3>4, <3>5
  <2>2. CASE ~WriterReceives(s)
    <3>1. UNCHANGED copies
      BY <1>1, <2>2 DEF Conn, ReadPool, Reader, ReaderEnds, ReaderResumes,
         ReaderPanics, PoolHangsUp, Writer, WriterChecks, WriterSeesClose,
         WriterWrites, WriterFails
    <3>2. QED
      BY <1>1, <3>1, ElsewhereStep, OnceElsewhere
  <2>3. QED
    BY <2>1, <2>2
<1>2. ASSUME NEW s \in Session, Dispatch(s)
      PROVE  Remembered' /\ ForwardOnce'
  <2>1. UNCHANGED copies
    BY <1>2 DEF Dispatch, DispLoop, DispReady, DispTimeout, DispLate,
       DispResend, DispTakes, DispOutputClosed, DispTick, DispSend, DispSaves,
       DispUnready, Return, Take, CloseInput
  <2>2. QED
    BY <1>2, <2>1, ElsewhereStep, OnceElsewhere
<1>3. ASSUME NEW m \in Miner, RecvLogin(m) \/ RecvClose(m)
      PROVE  Remembered' /\ ForwardOnce'
  <2>1. UNCHANGED <<copies, sent, expired, loop, loopSess, loopChunk, inOffer>>
    BY <1>3 DEF RecvLogin, RecvClose, LoginAgain, LoginDialFails,
       LoginCreates, Dial, CloseInput
  <2>2. QED
    BY <2>1, OnceElsewhere
<1>4. ASSUME NEW m \in Miner, RecvAck(m)
      PROVE  Remembered' /\ ForwardOnce'
  BY <1>4 DEF RecvAck, Receive, Remembered, ForwardOnce, Key
<1>5. ASSUME NEW c \in Chunk, RecvData(c)
      PROVE  Remembered' /\ ForwardOnce'
  <2>1. CASE DataNeedsLogin(c) \/ DataIsSend(c)
    BY <1>5, <2>1, OnceElsewhere DEF RecvData, DataNeedsLogin, DataIsSend
  <2>2. CASE DataForward(c)
    BY <1>5, <2>2 DEF RecvData, Receive, DataForward, Offer, Remembered,
       ForwardOnce, Key
  <2>3. QED
    BY <1>5, <2>1, <2>2 DEF RecvData
<1>6. CASE ForwardDone
  BY <1>6 DEF ForwardDone, Idle, Remembered, ForwardOnce, Key
<1>7. CASE ForwardPanics
  BY <1>7 DEF ForwardPanics, Withdraw, Idle, InHandler, Remembered,
     ForwardOnce, Key
<1>8. CASE SetReadyClears \/ SetReadyStores \/ SetReadyReturns
  BY <1>8 DEF SetReadyClears, SetReadyStores, SetReadyReturns, Idle,
     Remembered, ForwardOnce, Key
<1>9. CASE Expire
  BY <1>9 DEF Expire, Remembered, ForwardOnce, Key
<1>10. CASE UNCHANGED vars \/ \E m \in Miner : Peer(m) \/ Sweep(m)
  BY <1>10, OnceElsewhere DEF vars, Sweep, Peer
<1>11. QED
  BY <1>1, <1>2, <1>3, <1>4, <1>5, <1>6, <1>7, <1>8, <1>9, <1>10
  DEF Next, React, Handler

\* proxy forwards a chunk a second time only after its send_req: entry was
\* dropped from the cache, however its copies are delivered.
THEOREM Once == Spec => []ForwardOnce
<1>1. Init => Remembered /\ ForwardOnce
  BY DEF Init, PoolInit, Remembered, ForwardOnce
<1>2. QED
  BY <1>1, CoreInvariant, OnceStep, PTL DEF Spec

-----------------------------------------------------------------------------
(* An ACK is kept.                                                         *)

\* No two chunks share a key: what the code needs and does not ensure, since
\* the key leaves the miner out.
CollisionFree == \A c, d \in Chunk : Key(c) = Key(d) => c = d

\* What became of a chunk the writers took.
Carried(c) ==
    \/ c \in written
    \/ \E s \in Session : /\ owner[s] = {c[1]}
                          /\ hand[s] = c \/ pool[s] \in {"gone", "closed"}

TakenIsCarried == \A c \in Chunk : copies[c] > 0 => Carried(c)

\* A key in the cache stands for a chunk some writer took.
CacheMeansTaken ==
    /\ loop = "forward" /\ inOffer[loopSess] = NoChunk => copies[loopChunk] > 0
    /\ \A k \in sent : \E d \in Chunk : Key(d) = k /\ copies[d] > 0

AckMeansTaken == \A c \in acked : copies[c] > 0

\* A step that does not touch the hands leaves the carried chunks carried.
LEMMA CarriedElsewhere ==
    ASSUME Core, TakenIsCarried,
           UNCHANGED <<hand, copies, written, owner>>,
           \A s \in Session : pool[s] = "gone" => pool'[s] \in {"gone", "closed"},
           \A s \in Session : pool[s] = "closed" => pool'[s] = "closed"
    PROVE  TakenIsCarried'
<1>1. SUFFICES ASSUME NEW c \in Chunk, copies[c] > 0, Carried(c)
               PROVE  Carried(c)'
  BY DEF TakenIsCarried
<1>2. QED
  BY <1>1 DEF Carried

LEMMA CarriedStep ==
    ASSUME Core, TakenIsCarried, [Next]_vars
    PROVE  TakenIsCarried'
<1> USE DEF Core, TypeOK, PoolTypeOK
<1>1. ASSUME NEW s \in Session, Conn(s)
      PROVE  TakenIsCarried'
  <2>1. CASE WriterReceives(s)
    <3>1. inOffer[s] \in Chunk /\ owner[s] = {inOffer[s][1]} /\ hand[s] = NoChunk
      BY <2>1 DEF WriterReceives, InHandler, InHand
    <3>2. SUFFICES ASSUME NEW c \in Chunk, copies'[c] > 0
                   PROVE  Carried(c)'
      BY DEF TakenIsCarried
    <3>3. CASE c = inOffer[s]
      BY <1>1, <2>1, <3>1, <3>3 DEF Conn, WriterReceives, Carried
    <3>4. CASE c # inOffer[s]
      <4>1. copies[c] > 0
        BY <2>1, <3>2, <3>4 DEF WriterReceives
      <4>2. Carried(c)
        BY <4>1 DEF TakenIsCarried
      <4>3. QED
        BY <1>1, <2>1, <3>1, <4>2 DEF Conn, WriterReceives, Carried
    <3>5. QED
      BY <3>3, <3>4
  <2>2. CASE WriterWrites(s)
    <3>1. SUFFICES ASSUME NEW c \in Chunk, copies[c] > 0, Carried(c)
                   PROVE  Carried(c)'
      BY <2>2 DEF WriterWrites, TakenIsCarried
    <3>2. CASE pool[s] = "open"
      BY <1>1, <2>2, <3>1, <3>2 DEF Conn, WriterWrites, Carried
    <3>3. CASE pool[s] = "gone"
      BY <1>1, <2>2, <3>1, <3>3 DEF Conn, WriterWrites, Carried
    <3>4. QED
      BY <2>2, <3>2, <3>3 DEF WriterWrites
  <2>3. CASE WriterFails(s)
    <3>1. SUFFICES ASSUME NEW c \in Chunk, copies[c] > 0, Carried(c)
                   PROVE  Carried(c)'
      BY <2>3 DEF WriterFails, TakenIsCarried
    <3>2. QED
      BY <1>1, <2>3, <3>1 DEF Conn, WriterFails, Carried
  <2>4. CASE \/ ReadPool(s) \/ Reader(s) \/ PoolHangsUp(s)
             \/ WriterChecks(s) \/ WriterSeesClose(s)
    BY <1>1, <2>4, CarriedElsewhere DEF Conn, ReadPool, Reader, ReaderEnds,
       ReaderResumes, ReaderPanics, PoolHangsUp, WriterChecks, WriterSeesClose
  <2>5. QED
    BY <1>1, <2>1, <2>2, <2>3, <2>4 DEF Conn, Writer
<1>2. ASSUME NEW s \in Session, Dispatch(s)
      PROVE  TakenIsCarried'
  BY <1>2, CarriedElsewhere DEF Dispatch, DispLoop, DispReady, DispTimeout,
     DispLate, DispResend, DispTakes, DispOutputClosed, DispTick, DispSend,
     DispSaves, DispUnready, DispKeeps, Return, Take, CloseInput
<1>3. ASSUME NEW m \in Miner, RecvLogin(m)
      PROVE  TakenIsCarried'
  <2>1. CASE LoginAgain(m) \/ LoginDialFails(m)
    BY <1>3, <2>1, CarriedElsewhere DEF RecvLogin, LoginAgain, LoginDialFails
  <2>2. ASSUME NEW s \in Session, LoginCreates(m, s)
        PROVE  TakenIsCarried'
    <3>1. SUFFICES ASSUME NEW c \in Chunk, copies[c] > 0, Carried(c)
                   PROVE  Carried(c)'
      BY <2>2 DEF LoginCreates, Dial, TakenIsCarried
    <3>2. owner[s] = {}
      BY <2>2 DEF LoginCreates, Dial, Registry
    <3>3. QED
      BY <2>2, <3>1, <3>2 DEF LoginCreates, Dial, Carried
  <2>3. QED
    BY <1>3, <2>1, <2>2 DEF RecvLogin
<1>4. ASSUME NEW m \in Miner, RecvAck(m) \/ RecvClose(m)
      PROVE  TakenIsCarried'
  BY <1>4, CarriedElsewhere DEF RecvAck, RecvClose, CloseInput, Live
<1>5. ASSUME NEW c \in Chunk, RecvData(c)
      PROVE  TakenIsCarried'
  BY <1>5, CarriedElsewhere DEF RecvData, DataNeedsLogin, DataIsSend,
     DataForward, Offer
<1>6. CASE Handler
  BY <1>6, CarriedElsewhere DEF Handler, ForwardDone, ForwardPanics, Withdraw,
     SetReadyClears, SetReadyStores, SetReadyReturns
<1>7. CASE Expire \/ UNCHANGED vars \/ \E m \in Miner : Peer(m) \/ Sweep(m)
  BY <1>7, CarriedElsewhere DEF Expire, vars, Sweep, Live, Peer
<1>8. QED
  BY <1>1, <1>2, <1>3, <1>4, <1>5, <1>6, <1>7 DEF Next, React

\* A step of a connection or a dispatch goroutine takes no chunk back.
LEMMA TakenGrows ==
    ASSUME Core, NEW s \in Session, Conn(s) \/ Dispatch(s)
    PROVE  /\ \A c \in Chunk : copies[c] > 0 => copies'[c] > 0
           /\ \A q \in Session : inOffer[q] # inOffer'[q] =>
                  copies'[inOffer[q]] > 0
<1> USE DEF Core, TypeOK, PoolTypeOK
<1>1. CASE Conn(s) /\ WriterReceives(s)
  BY <1>1 DEF WriterReceives
<1>2. CASE Conn(s) /\ ~WriterReceives(s)
  BY <1>2 DEF Conn, ReadPool, Reader, ReaderEnds, ReaderResumes,
     ReaderPanics, PoolHangsUp, Writer, WriterChecks, WriterSeesClose,
     WriterWrites, WriterFails
<1>3. CASE Dispatch(s)
  BY <1>3 DEF Dispatch, DispLoop, DispReady, DispTimeout, DispLate,
     DispResend, DispTakes, DispOutputClosed, DispTick, DispSend, DispSaves,
     DispUnready, Return, Take, CloseInput
<1>4. QED
  BY <1>1, <1>2, <1>3

LEMMA AckElsewhere ==
    ASSUME Core, CacheMeansTaken, AckMeansTaken,
           UNCHANGED <<copies, inOffer, loop, loopSess, loopChunk, acked>>,
           sent' \subseteq sent
    PROVE  CacheMeansTaken' /\ AckMeansTaken'
BY DEF CacheMeansTaken, AckMeansTaken, Key

LEMMA AckStep ==
    ASSUME CollisionFree, Core, CacheMeansTaken, AckMeansTaken, [Next]_vars
    PROVE  CacheMeansTaken' /\ AckMeansTaken'
<1> USE DEF Core, TypeOK, PoolTypeOK
<1>1. ASSUME NEW s \in Session, Conn(s) \/ Dispatch(s)
      PROVE  CacheMeansTaken' /\ AckMeansTaken'
  <2>1. loop = "forward" /\ inOffer'[loopSess] = NoChunk
          => copies'[loopChunk] > 0
    <3>1. SUFFICES ASSUME loop = "forward", inOffer'[loopSess] = NoChunk
                   PROVE  copies'[loopChunk] > 0
      OBVIOUS
    <3>2. loopSess \in Session /\ loopChunk \in Chunk
      BY <3>1 DEF InHandler
    <3>3. CASE inOffer[loopSess] = NoChunk
      BY <1>1, <3>1, <3>2, <3>3, TakenGrows DEF CacheMeansTaken
    <3>4. CASE inOffer[loopSess] # NoChunk
      <4>1. inOffer[loopSess] = loopChunk
        BY <3>2, <3>4 DEF InHandler
      <4>2. QED
        BY <1>1, <3>1, <3>2, <3>4, <4>1, TakenGrows
    <3>5. QED
      BY <3>3, <3>4
  <2>2. \A k \in sent : \E d \in Chunk : Key(d) = k /\ copies'[d] > 0
    BY <1>1, TakenGrows DEF CacheMeansTaken
  <2>3. UNCHANGED <<loop, loopSess, loopChunk, sent, acked>>
    BY <1>1, ElsewhereStep
  <2>4. AckMeansTaken'
    BY <1>1, <2>3, TakenGrows DEF AckMeansTaken
  <2>5. QED
    BY <2>1, <2>2, <2>3, <2>4 DEF CacheMeansTaken, Key
<1>2. ASSUME NEW m \in Miner, RecvLogin(m) \/ RecvClose(m)
      PROVE  CacheMeansTaken' /\ AckMeansTaken'
  BY <1>2, AckElsewhere DEF RecvLogin, RecvClose, LoginAgain, LoginDialFails,
     LoginCreates, Dial, CloseInput
<1>3. ASSUME NEW m \in Miner, RecvAck(m)
      PROVE  CacheMeansTaken' /\ AckMeansTaken'
  BY <1>3 DEF RecvAck, Receive, CacheMeansTaken, AckMeansTaken, Key
<1>4. ASSUME NEW c \in Chunk, RecvData(c)
      PROVE  CacheMeansTaken' /\ AckMeansTaken'
  <2>1. CASE DataNeedsLogin(c)
    BY <1>4, <2>1, AckElsewhere DEF RecvData, DataNeedsLogin
  <2>2. CASE DataIsSend(c)
    <3>1. copies[c] > 0
      BY <2>2 DEF DataIsSend, CacheMeansTaken, CollisionFree
    <3>2. QED
      BY <1>4, <2>2, <3>1 DEF RecvData, DataIsSend, CacheMeansTaken,
         AckMeansTaken, Key
  <2>3. CASE DataForward(c)
    <3>1. UNCHANGED <<copies, sent, acked>>
      BY <1>4, <2>3 DEF RecvData, DataForward, Offer
    <3>2. c[1] \in Miner /\ c # NoChunk
      BY DEF Chunk
    <3>3. inOffer'[loopSess'] # NoChunk
      BY <2>3, <3>2 DEF DataForward, Offer, Live
    <3>4. QED
      BY <3>1, <3>3 DEF CacheMeansTaken, AckMeansTaken, Key
  <2>4. QED
    BY <1>4, <2>1, <2>2, <2>3 DEF RecvData
<1>5. CASE ForwardDone
  BY <1>5 DEF ForwardDone, Idle, InHandler, CacheMeansTaken, AckMeansTaken, Key
<1>6. CASE ForwardPanics
  BY <1>6 DEF ForwardPanics, Withdraw, Idle, CacheMeansTaken, AckMeansTaken, Key
<1>7. CASE SetReadyClears \/ SetReadyStores \/ SetReadyReturns
  BY <1>7 DEF SetReadyClears, SetReadyStores, SetReadyReturns, Idle,
     CacheMeansTaken, AckMeansTaken, Key
<1>8. CASE Expire \/ UNCHANGED vars \/ \E m \in Miner : Peer(m) \/ Sweep(m)
  BY <1>8, AckElsewhere DEF Expire, vars, Sweep, Live, Peer
<1>9. QED
  BY <1>1, <1>2, <1>3, <1>4, <1>5, <1>6, <1>7, <1>8 DEF Next, React, Handler

\* Provided no two chunks share a key, a request the server answered with ACK
\* was handed to the writer of its miner's own pool connection, and it is
\* lost only with that connection.
THEOREM AckKept ==
    ASSUME CollisionFree
    PROVE  Spec => []AckMeansForwarded
<1>1. Init => TakenIsCarried /\ CacheMeansTaken /\ AckMeansTaken
  BY DEF Init, PoolInit, TakenIsCarried, CacheMeansTaken, AckMeansTaken
<1>2. Core /\ TakenIsCarried /\ AckMeansTaken => AckMeansForwarded
  BY DEF Core, TypeOK, TakenIsCarried, AckMeansTaken, AckMeansForwarded, Carried
<1>3. CollisionFree
  OBVIOUS
<1>4. Core /\ CacheMeansTaken /\ AckMeansTaken /\ [Next]_vars
      => CacheMeansTaken' /\ AckMeansTaken'
  BY <1>3, AckStep
<1>5. QED
  BY <1>1, <1>2, <1>4, CoreInvariant, CarriedStep, PTL DEF Spec

-----------------------------------------------------------------------------
(* The gate downstream.                                                    *)

\* Outside the window between a send and SetWait, lastSendReq is the chunk
\* sent last or zeroed.
KeptRequest ==
    \A s \in Session :
        /\ dispatch[s] \notin {"save", "done"} => last[s] \in {0, downSeq[s]}
        /\ dispatch[s] = "save" => dispHand[s] = downSeq[s]

\* The chunks the dispatcher may still send without a further ACK: one for
\* the flag unless SetWait is about to clear it or the goroutine returned, one for the token in
\* readyChan, one if it passed Wait on a token.
Permits(s) ==
    (IF ready[s] /\ dispatch[s] \notin {"save", "unready", "done"} THEN 1 ELSE 0)
    + (IF readyOffer[s] THEN 1 ELSE 0)
    + (IF ~ready[s] /\ dispatch[s] \in {"select", "send"} THEN 1 ELSE 0)

Allowance == \A s \in Session : downSeq[s] + Permits(s) <= 1 + 2 * opened[s]

Gate == KeptRequest /\ Allowance

LEMMA GateElsewhere ==
    ASSUME Gate, UNCHANGED <<ready, readyOffer, last, opened, dispatch,
                             dispHand, downSeq>>
    PROVE  Gate'
BY DEF Gate, KeptRequest, Allowance, Permits

LEMMA GateDispatch ==
    ASSUME Core, Gate, NEW s \in Session, Dispatch(s)
    PROVE  Gate'
<1> USE DEF Core, TypeOK, PoolTypeOK, Gate, KeptRequest, Allowance, Permits,
            Goto
<1>1. CASE DispLoop(s)
  <2>1. /\ UNCHANGED <<ready, readyOffer, last, opened, dispHand, downSeq>>
        /\ dispatch[s] = "loop"
        /\ \/ dispatch' = [dispatch EXCEPT ![s] = "done"]
           \/ ready[s] /\ dispatch' = [dispatch EXCEPT ![s] = "select"]
           \/ ~ready[s] /\ dispatch' = [dispatch EXCEPT ![s] = "wait"]
    <3>1. CASE inputClosed[s]
      BY <1>1, <3>1 DEF DispLoop, Return
    <3>2. CASE ~inputClosed[s] /\ ready[s]
      BY <1>1, <3>2 DEF DispLoop
    <3>3. CASE ~inputClosed[s] /\ ~ready[s]
      BY <1>1, <3>3 DEF DispLoop
    <3>4. QED
      BY <3>1, <3>2, <3>3
  <2>2. KeptRequest'
    BY <2>1
  <2>3. Allowance'
    BY <2>1
  <2>4. QED
    BY <2>2, <2>3
<1>2. CASE DispReady(s)
  BY <1>2 DEF DispReady
<1>3. CASE DispTimeout(s)
  BY <1>3 DEF DispTimeout
<1>4. CASE DispLate(s)
  BY <1>4 DEF DispLate, Return
<1>5. CASE DispResend(s)
  <2>1. UNCHANGED <<ready, readyOffer, last, opened, dispHand, downSeq>>
        /\ dispatch[s] = "resend"
        /\ \/ dispatch' = [dispatch EXCEPT ![s] = "loop"]
           \/ dispatch' = [dispatch EXCEPT ![s] = "done"]
    BY <1>5 DEF DispResend, Return
  <2>2. KeptRequest'
    BY <2>1
  <2>3. Allowance'
    BY <2>1
  <2>4. QED
    BY <2>2, <2>3
<1>6. CASE DispTakes(s)
  BY <1>6 DEF DispTakes
<1>7. CASE DispOutputClosed(s)
  BY <1>7 DEF DispOutputClosed, Return
<1>8. CASE DispTick(s)
  BY <1>8 DEF DispTick
<1>9. CASE DispSend(s)
  <2>1. KeptRequest'
    BY <1>9 DEF DispSend, Return, Pipeline
  <2>2. UNCHANGED <<ready, readyOffer, opened>> /\ dispatch[s] = "send"
    BY <1>9 DEF DispSend
  <2>3. /\ downSeq' = [downSeq EXCEPT ![s] = @ + 1]
        /\ \/ dispatch' = [dispatch EXCEPT ![s] = "save"]
           \/ dispatch' = [dispatch EXCEPT ![s] = "done"]
    BY <1>9 DEF DispSend, Return
  <2>4. Allowance'
    <3>1. SUFFICES ASSUME NEW q \in Session
                   PROVE  downSeq'[q] + Permits(q)' <= 1 + 2 * opened'[q]
      BY DEF Allowance
    <3>2. downSeq[q] + Permits(q) <= 1 + 2 * opened[q]
      BY DEF Allowance
    <3>3. CASE q # s
      BY <2>2, <2>3, <3>2, <3>3
    <3>4. CASE q = s
      BY <2>2, <2>3, <3>2, <3>4
    <3>5. QED
      BY <3>3, <3>4
  <2>5. QED
    BY <2>1, <2>4
<1>10. CASE DispSaves(s)
  BY <1>10 DEF DispSaves
<1>11. CASE DispUnready(s)
  BY <1>11 DEF DispUnready
<1>12. QED
  BY <1>1, <1>2, <1>3, <1>4, <1>5, <1>6, <1>7, <1>8, <1>9, <1>10, <1>11
  DEF Dispatch

LEMMA GateStep ==
    ASSUME Core, Gate, [Next]_vars
    PROVE  Gate'
<1>1. ASSUME NEW s \in Session, Dispatch(s)
      PROVE  Gate'
  BY <1>1, GateDispatch
<1>2. ASSUME NEW m \in Miner, NEW s \in Session,
             RecvLogin(m), LoginCreates(m, s)
      PROVE  Gate'
  <2>1. dispatch[s] = "off"
    BY <1>2 DEF LoginCreates, Dial, Core, Pipeline
  <2>2. QED
    BY <1>2, <2>1 DEF RecvLogin, LoginCreates, Core, TypeOK, Gate,
       KeptRequest, Allowance, Permits
<1>3. ASSUME NEW m \in Miner, RecvLogin(m), LoginAgain(m) \/ LoginDialFails(m)
      PROVE  Gate'
  BY <1>3, GateElsewhere DEF RecvLogin, LoginAgain, LoginDialFails
<1>4. CASE SetReadyClears
  BY <1>4 DEF SetReadyClears, Core, TypeOK, InHandler, Gate, KeptRequest,
     Allowance, Permits
<1>5. CASE SetReadyStores
  BY <1>5 DEF SetReadyStores, Core, TypeOK, InHandler, Gate, KeptRequest,
     Allowance, Permits
<1>6. CASE \/ ForwardDone \/ ForwardPanics \/ SetReadyReturns
           \/ Expire \/ UNCHANGED vars
           \/ \E s \in Session : Conn(s)
           \/ \E c \in Chunk : RecvData(c)
           \/ \E m \in Miner : RecvAck(m) \/ RecvClose(m) \/ Peer(m) \/ Sweep(m)
  BY <1>6, GateElsewhere DEF ForwardDone, ForwardPanics, SetReadyReturns,
     Expire, vars, Sweep, Conn, RecvData, RecvAck, RecvClose, Peer
<1>7. QED
  BY <1>1, <1>2, <1>3, <1>4, <1>5, <1>6 DEF Next, React, RecvLogin, Handler

LEMMA GateInvariant == Spec => []Gate
<1>1. Init => Gate
  BY DEF Init, Gate, KeptRequest, Allowance, Permits
<1>2. QED
  BY <1>1, CoreInvariant, GateStep, PTL DEF Spec

\* The dispatch goroutine numbers the chunks in the order they were read, and
\* retransmits nothing but the newest.
THEOREM Ordered == Spec => []DownstreamOrder
<1>1. Core /\ Gate => DownstreamOrder
  <2>1. SUFFICES ASSUME Core, Gate, NEW s \in Session
                 PROVE  /\ dispatch[s] = "send" => dispHand[s] = downSeq[s] + 1
                        /\ dispatch[s] = "save" => dispHand[s] = downSeq[s]
                        /\ dispatch[s] \in {"wait", "late", "resend"}
                               => last[s] \in {0, downSeq[s]}
                        /\ got[s] <= downSeq[s] + 2
    BY DEF DownstreamOrder
  <2>2. Held(s) \in {0, 1} /\ got[s] \in Nat /\ downSeq[s] \in Nat
    BY <2>1 DEF Held, Core, TypeOK, PoolTypeOK
  <2>3. got[s] <= downSeq[s] + Held(s) + 1
    BY <2>1 DEF Core, Pipeline
  <2>4. QED
    BY <2>1, <2>2, <2>3 DEF Core, Pipeline, Gate, KeptRequest
<1>2. QED
  BY <1>1, CoreInvariant, GateInvariant, PTL

\* After n ACKs that opened the gate at most 2n + 1 chunks were sent.
THEOREM Window == Spec => []WindowPerAck
<1>1. Core /\ Gate => WindowPerAck
  <2>1. SUFFICES ASSUME Core, Gate, NEW s \in Session
                 PROVE  downSeq[s] <= 1 + 2 * opened[s]
    BY DEF WindowPerAck
  <2>2. downSeq[s] \in Nat /\ opened[s] \in Nat
    BY <2>1 DEF Core, TypeOK
  <2>3. Permits(s) \in Nat
    BY DEF Permits
  <2>4. downSeq[s] + Permits(s) <= 1 + 2 * opened[s]
    BY <2>1 DEF Gate, Allowance
  <2>5. QED
    BY <2>2, <2>3, <2>4
<1>2. QED
  BY <1>1, CoreInvariant, GateInvariant, PTL

-----------------------------------------------------------------------------
(* The refinement of Forwarding.                                           *)

promised == <<copies, sent \cup (IF Taken THEN {Key(loopChunk)} ELSE {}), acked>>

\* A step that changes neither the cache nor the chunk being forwarded maps to
\* a stutter.
LEMMA Stutters ==
    ASSUME UNCHANGED <<copies, sent, acked>>,
           \/ Taken /\ Taken' /\ loopChunk' = loopChunk
           \/ ~Taken /\ ~Taken'
    PROVE  UNCHANGED promised
BY DEF promised, Key

LEMMA PromiseStep ==
    ASSUME Core, [Next]_vars
    PROVE  Promise!Next \/ UNCHANGED promised
<1> USE DEF Core, TypeOK, PoolTypeOK
<1>1. ASSUME NEW s \in Session, Conn(s), WriterReceives(s)
      PROVE  Promise!Next
  <2>1. /\ ~Taken /\ loop = "forward" /\ loopSess = s
        /\ loopChunk = inOffer[s] /\ loopChunk \in Chunk
        /\ Key(loopChunk) \notin sent
    BY <1>1 DEF WriterReceives, InHandler, Taken
  <2>2. Taken' /\ UNCHANGED <<loopChunk, sent, acked>>
    BY <1>1, <2>1 DEF Conn, WriterReceives, Taken
  <2>3. copies' = [copies EXCEPT ![loopChunk] = @ + 1]
    BY <1>1, <2>1 DEF WriterReceives
  <2>4. Promise!Hand(loopChunk)
    BY <2>1, <2>2, <2>3 DEF Promise!Hand, Key
  <2>5. QED
    BY <2>1, <2>4 DEF Promise!Next
<1>2. ASSUME NEW s \in Session, Conn(s), ~WriterReceives(s)
      PROVE  UNCHANGED promised
  <2>1. UNCHANGED <<copies, inOffer>>
    BY <1>2 DEF Conn, ReadPool, Reader, ReaderEnds, ReaderResumes,
       ReaderPanics, PoolHangsUp, Writer, WriterChecks, WriterSeesClose,
       WriterWrites, WriterFails
  <2>2. QED
    BY <1>2, <2>1, Stutters, ElsewhereStep DEF Taken
<1>3. ASSUME NEW s \in Session, Dispatch(s)
      PROVE  UNCHANGED promised
  <2>1. UNCHANGED <<copies, inOffer>>
    BY <1>3 DEF Dispatch, DispLoop, DispReady, DispTimeout, DispLate,
       DispResend, DispTakes, DispOutputClosed, DispTick, DispSend, DispSaves,
       DispUnready, Return, Take, CloseInput
  <2>2. QED
    BY <1>3, <2>1, Stutters, ElsewhereStep DEF Taken
<1>4. ASSUME NEW m \in Miner, RecvLogin(m) \/ RecvClose(m)
      PROVE  UNCHANGED promised
  BY <1>4, Stutters DEF RecvLogin, RecvClose, Receive, LoginAgain,
     LoginDialFails, LoginCreates, Dial, CloseInput, Taken
<1>5. ASSUME NEW m \in Miner, RecvAck(m)
      PROVE  UNCHANGED promised
  BY <1>5, Stutters DEF RecvAck, Receive, Taken
<1>6. ASSUME NEW c \in Chunk, RecvData(c)
      PROVE  Promise!Next \/ UNCHANGED promised
  <2>1. ~Taken
    BY <1>6 DEF RecvData, Receive, Taken
  <2>2. CASE DataNeedsLogin(c)
    BY <1>6, <2>1, <2>2, Stutters DEF RecvData, DataNeedsLogin, Taken
  <2>3. CASE DataIsSend(c)
    <3>1. ~Taken' /\ UNCHANGED <<copies, sent>>
      BY <1>6, <2>1, <2>3 DEF RecvData, DataIsSend, Taken
    <3>2. Promise!Answer(c)
      BY <2>1, <2>3, <3>1 DEF DataIsSend, Promise!Answer, Key
    <3>3. QED
      BY <3>2 DEF Promise!Next
  <2>4. CASE DataForward(c)
    <3>1. c[1] \in Miner /\ c # NoChunk
      BY DEF Chunk
    <3>2. ~Taken'
      BY <2>4, <3>1 DEF DataForward, Offer, Live, Taken
    <3>3. QED
      BY <1>6, <2>1, <2>4, <3>2, Stutters DEF RecvData, DataForward, Offer
  <2>5. QED
    BY <1>6, <2>2, <2>3, <2>4 DEF RecvData
<1>7. CASE ForwardDone
  <2>1. Taken /\ ~Taken' /\ loopChunk \in Chunk
    BY <1>7 DEF ForwardDone, Idle, Taken, InHandler
  <2>2. Promise!Answer(loopChunk)
    BY <1>7, <2>1 DEF ForwardDone, Promise!Answer, Key
  <2>3. QED
    BY <2>1, <2>2 DEF Promise!Next
<1>8. CASE \/ ForwardPanics
           \/ SetReadyClears \/ SetReadyStores \/ SetReadyReturns
  BY <1>8, Stutters DEF ForwardPanics, Withdraw, SetReadyClears,
     SetReadyStores, SetReadyReturns, Idle, Taken
<1>9. CASE Expire
  <2>1. PICK k \in sent \ expired : sent' = sent \ {k}
    BY <1>9 DEF Expire
  <2>2. /\ Taken' = Taken /\ UNCHANGED <<copies, acked, loopChunk>>
        /\ Taken => Key(loopChunk) \notin sent
    BY <1>9 DEF Expire, Taken, InHandler
  <2>3. Promise!Forget(k)
    BY <2>1, <2>2 DEF Promise!Forget, Key
  <2>4. QED
    BY <2>1, <2>3 DEF Promise!Next
<1>10. CASE UNCHANGED vars \/ \E m \in Miner : Peer(m) \/ Sweep(m)
  BY <1>10, Stutters DEF vars, Sweep, Peer, Taken
<1>11. QED
  BY <1>1, <1>2, <1>3, <1>4, <1>5, <1>6, <1>7, <1>8, <1>9, <1>10
  DEF Next, React, Handler

\* The server session implements the atomic forwarder.
THEOREM Implements == Spec => ForwardsAsPromised
<1>1. Init => Promise!Init
  BY DEF Init, PoolInit, Promise!Init, Taken
<1>2. Core /\ [Next]_vars => [Promise!Next]_promised
  BY PromiseStep
<1>3. QED
  BY <1>1, <1>2, CoreInvariant, PTL DEF Spec, Promise!Spec,
     ForwardsAsPromised, promised

=============================================================================
