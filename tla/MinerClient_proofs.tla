------------------------- MODULE MinerClient_proofs -------------------------
(***************************************************************************)
(* Theorems about MinerClient, for every number of sessions, tunnels,      *)
(* requests and chunks.                                                    *)
(***************************************************************************)
EXTENDS MinerClient, TLAPS

USE ClientAssumption
USE DEF gateVars, cacheVars, srvVars

-----------------------------------------------------------------------------
(* Types.                                                                  *)

\* A reader between a chunk and its ACK holds that chunk.
InHand ==
    \A m \in Miner : reader[m] \in {"deliver", "mark", "ack"} => hand[m] # 0

\* Before its LOGIN was sent, a session has no reader and sent nothing.
Early ==
    \A m \in Miner : run[m] \in {"off", "login"} =>
        /\ reader[m] = "off"
        /\ seq[m] = 0
        /\ ~readyOffer[m]
        /\ run[m] = "login" => last[m] = 0 /\ ~ready[m]

Core == TypeOK /\ InHand /\ Early

LEMMA CoreInit == Init => Core
BY DEF Init, Core, TypeOK, InHand, Early, Chunk

LEMMA RunType ==
    ASSUME Core, NEW m \in Miner, Run(m)
    PROVE  TypeOK'
<1> USE DEF Core, TypeOK, RunKeeps, RunTo, Close
<1>1. CASE Accept(m)
  BY <1>1 DEF Accept
<1>2. CASE Login(m)
  <2>1. up' \in SUBSET UpFrame
    BY <1>2 DEF Login, SendToServer, Request, F, UpFrame
  <2>2. QED
    BY <1>2, <2>1 DEF Login, ReaderTo
<1>3. CASE RunChecks(m) \/ RunTimeout(m) \/ RunLate(m) \/ RunReadFails(m)
  BY <1>3 DEF RunChecks, RunTimeout, RunLate, RunReadFails
<1>4. CASE RunReady(m)
  BY <1>4 DEF RunReady
<1>5. CASE RunResends(m)
  <2>1. up' \in SUBSET UpFrame
    BY <1>5 DEF RunResends, Request, F, UpFrame
  <2>2. QED
    BY <1>5, <2>1 DEF RunResends
<1>6. CASE RunReads(m)
  BY <1>6 DEF RunReads
<1>7. CASE RunStores(m)
  BY <1>7 DEF RunStores
<1>8. CASE RunSends(m)
  <2>1. up' \in SUBSET UpFrame
    BY <1>8 DEF RunSends, SendToServer, Request, F, UpFrame
  <2>2. QED
    BY <1>8, <2>1 DEF RunSends
<1>9. CASE RunSaysBye(m)
  <2>1. up' \in SUBSET UpFrame
    BY <1>9 DEF RunSaysBye, SendToServer, F, UpFrame
  <2>2. QED
    BY <1>9, <2>1 DEF RunSaysBye
<1>10. QED
  BY <1>1, <1>2, <1>3, <1>4, <1>5, <1>6, <1>7, <1>8, <1>9 DEF Run

LEMMA ReaderType ==
    ASSUME Core, NEW m \in Miner, Reader(m)
    PROVE  TypeOK'
<1> USE DEF Core, TypeOK, ReaderKeeps, ReaderTo, Close
<1>1. CASE ReaderChecks(m) \/ ReaderTicks(m) \/ ReaderResumes(m)
  BY <1>1 DEF ReaderChecks, ReaderTicks, ReaderResumes
<1>2. ASSUME NEW t \in Tunnel, ReaderTakes(m, t)
      PROVE  TypeOK'
  <2>1. tunnel[t] \in DownFrame /\ tunnel[t].miner = m
    BY <1>2 DEF ReaderTakes
  <2>2. tunnel[t].type = "DATA" => tunnel[t].seq \in 1..MaxDown
    BY <2>1 DEF DownFrame
  <2>3. CASE tunnel[t].type = "DATA"
    <3>1. UNCHANGED <<closed, gateVars, sent, delivered, acked, up>>
          /\ hand' = [hand EXCEPT ![m] = tunnel[t].seq]
          /\ reader' = [reader EXCEPT ![m] = "deliver"]
      BY <1>2, <2>3 DEF ReaderTakes
    <3>2. hand' \in [Miner -> 0..MaxDown]
      BY <2>2, <2>3, <3>1
    <3>3. QED
      BY <1>2, <3>1, <3>2 DEF ReaderTakes
  <2>4. CASE tunnel[t].type # "DATA"
    BY <1>2, <2>4 DEF ReaderTakes
  <2>5. QED
    BY <2>3, <2>4
<1>3. CASE ReaderClears(m)
  BY <1>3 DEF ReaderClears
<1>10. CASE ReaderStores(m)
  BY <1>10 DEF ReaderStores
<1>4. <<m, hand[m]>> \in Chunk
      <=> hand[m] # 0
  BY DEF Chunk
<1>5. CASE ReaderKnows(m)
  <2>1. <<m, hand[m]>> \in Chunk
    BY <1>4, <1>5 DEF InHand, ReaderKnows
  <2>2. QED
    BY <1>5, <2>1 DEF ReaderKnows
<1>6. CASE ReaderWrites(m)
  <2>1. <<m, hand[m]>> \in Chunk
    BY <1>4, <1>6 DEF InHand, ReaderWrites
  <2>2. delivered' \in [Chunk -> Nat]
    <3>1. \/ delivered' = delivered
          \/ delivered' = [delivered EXCEPT ![<<m, hand[m]>>] = @ + 1]
      BY <1>6 DEF ReaderWrites
    <3>2. delivered \in [Chunk -> Nat]
      OBVIOUS
    <3>3. QED
      BY <2>1, <3>1, <3>2
  <2>3. closed' \in [Miner -> BOOLEAN] /\ hand' \in [Miner -> 0..MaxDown]
    <3>1. /\ closed' = closed \/ closed' = [closed EXCEPT ![m] = TRUE]
          /\ hand' = hand \/ hand' = [hand EXCEPT ![m] = 0]
      BY <1>6 DEF ReaderWrites
    <3>2. closed' \in [Miner -> BOOLEAN]
      BY <3>1
    <3>3. hand' \in [Miner -> 0..MaxDown]
      BY <3>1
    <3>4. QED
      BY <3>2, <3>3
  <2>4. UNCHANGED <<gateVars, tunnel, sent, acked, up, run, seq, down, expired,
                    srvVars>>
        /\ \/ reader' = [reader EXCEPT ![m] = "mark"]
           \/ reader' = [reader EXCEPT ![m] = "done"]
    BY <1>6 DEF ReaderWrites
  <2>5. QED
    BY <2>2, <2>3, <2>4
<1>7. CASE ReaderMarks(m)
  <2>1. <<m, hand[m]>> \in Chunk /\ hand[m] \in 1..MaxDown
    BY <1>4, <1>7 DEF InHand, ReaderMarks
  <2>2. Key(<<m, hand[m]>>) \in (1..MaxDown) \X {Payload[c] : c \in Chunk}
    BY <2>1 DEF Key
  <2>3. QED
    BY <1>7, <2>1, <2>2 DEF ReaderMarks
<1>8. CASE ReaderAcks(m)
  <2>1. up' \in SUBSET UpFrame
    BY <1>8 DEF ReaderAcks, SendToServer, F, UpFrame
  <2>2. closed' \in [Miner -> BOOLEAN] /\ hand' \in [Miner -> 0..MaxDown]
    <3>1. /\ closed' = closed \/ closed' = [closed EXCEPT ![m] = TRUE]
          /\ hand' = hand \/ hand' = [hand EXCEPT ![m] = 0]
      BY <1>8 DEF ReaderAcks
    <3>2. closed' \in [Miner -> BOOLEAN]
      BY <3>1
    <3>3. hand' \in [Miner -> 0..MaxDown]
      BY <3>1
    <3>4. QED
      BY <3>2, <3>3
  <2>3. UNCHANGED <<gateVars, tunnel, sent, delivered, acked, run, seq, down,
                    expired, srvVars>>
        /\ \/ reader' = [reader EXCEPT ![m] = "check"]
           \/ reader' = [reader EXCEPT ![m] = "done"]
    BY <1>8 DEF ReaderAcks
  <2>4. QED
    BY <2>1, <2>2, <2>3
<1>9. QED
  BY <1>1, <1>2, <1>3, <1>5, <1>6, <1>7, <1>8, <1>10 DEF Reader

LEMMA SrvType ==
    ASSUME Core, NEW m \in Miner, Srv(m)
    PROVE  TypeOK'
<1> USE DEF Core, TypeOK, SrvKeeps
<1>1. ASSUME NEW k \in 0..MaxUp, SrvReceives(m, k)
      PROVE  TypeOK'
  <2>1. down' \in SUBSET DownFrame
    BY <1>1 DEF SrvReceives, Send, F, DownFrame
  <2>2. up' \in SUBSET UpFrame
    BY <1>1 DEF SrvReceives
  <2>3. told' \in SUBSET [type : {"ACK", "DATA"}, miner : Miner]
    BY <1>1 DEF SrvReceives, Send
  <2>4. QED
    BY <1>1, <2>1, <2>2, <2>3 DEF SrvReceives
<1>2. CASE SrvAcked(m)
  BY <1>2 DEF SrvAcked
<1>3. CASE SrvSends(m)
  <2>1. down' \in SUBSET DownFrame
    BY <1>3 DEF SrvSends, Send, F, DownFrame
  <2>2. told' \in SUBSET [type : {"ACK", "DATA"}, miner : Miner]
    BY <1>3 DEF SrvSends, Send
  <2>3. QED
    BY <1>3, <2>1, <2>2 DEF SrvSends
<1>4. CASE SrvResends(m) \/ SrvCloses(m)
  <2>1. down' \in SUBSET DownFrame
    BY <1>4 DEF SrvResends, SrvCloses, Send, F, DownFrame
  <2>2. told' \in SUBSET [type : {"ACK", "DATA"}, miner : Miner]
    BY <1>4 DEF SrvResends, SrvCloses, Send
  <2>3. QED
    BY <1>4, <2>1, <2>2 DEF SrvResends, SrvCloses
<1>5. QED
  BY <1>1, <1>2, <1>3, <1>4 DEF Srv

\* What changes outside the goroutines of the sessions.
Outside ==
    \/ \E m \in Miner : Srv(m)
    \/ \E t \in Tunnel : \E f \in down : TunnelReads(t, f)
    \/ \E t \in Tunnel, m \in Miner : TunnelCloses(t, m)
    \/ Expire
    \/ UNCHANGED vars

LEMMA OutsideStep ==
    ASSUME Core, Outside
    PROVE  /\ TypeOK'
           /\ UNCHANGED <<run, reader, gateVars, seq, hand, delivered, acked>>
<1> USE DEF Core
<1>1. ASSUME NEW m \in Miner, Srv(m)
      PROVE  UNCHANGED <<run, reader, gateVars, seq, hand, delivered, acked>>
  BY <1>1 DEF Srv, SrvReceives, SrvAcked, SrvSends, SrvResends, SrvCloses,
     SrvKeeps
<1>2. ASSUME NEW t \in Tunnel, NEW f \in down, TunnelReads(t, f)
      PROVE  /\ TypeOK'
             /\ UNCHANGED <<run, reader, gateVars, seq, hand, delivered, acked>>
  BY <1>2 DEF TunnelReads, TypeOK
<1>3. ASSUME NEW t \in Tunnel, NEW m \in Miner, TunnelCloses(t, m)
      PROVE  /\ TypeOK'
             /\ UNCHANGED <<run, reader, gateVars, seq, hand, delivered, acked>>
  BY <1>3 DEF TunnelCloses, Close, TypeOK
<1>4. CASE Expire
  BY <1>4 DEF Expire, TypeOK
<1>5. CASE UNCHANGED vars
  BY <1>5 DEF vars, TypeOK
<1>6. QED
  BY <1>1, <1>2, <1>3, <1>4, <1>5, SrvType DEF Outside

LEMMA CoreStep ==
    ASSUME Core, [Next]_vars
    PROVE  Core'
<1>1. ASSUME NEW m \in Miner, Run(m)
      PROVE  Core'
  <2>1. TypeOK'
    BY <1>1, RunType
  <2>2. InHand'
    BY <1>1 DEF Core, TypeOK, InHand, Run, Accept, Login, ReaderTo, RunChecks,
       RunReady, RunTimeout, RunLate, RunResends, RunReads, RunReadFails,
       RunStores, RunSends, RunSaysBye, RunKeeps
  <2>3. Early'
    BY <1>1 DEF Core, TypeOK, Early, Run, Accept, Login, ReaderTo, RunChecks,
       RunReady, RunTimeout, RunLate, RunResends, RunReads, RunReadFails,
       RunStores, RunSends, RunSaysBye, RunKeeps, RunTo
  <2>4. QED
    BY <2>1, <2>2, <2>3 DEF Core
<1>2. ASSUME NEW m \in Miner, Reader(m)
      PROVE  Core'
  <2>1. TypeOK'
    BY <1>2, ReaderType
  <2>2. InHand'
    <3>1. ASSUME NEW t \in Tunnel, ReaderTakes(m, t)
          PROVE  InHand'
      <4>1. tunnel[t] \in DownFrame
        BY <3>1 DEF ReaderTakes, Core, TypeOK
      <4>2. tunnel[t].type = "DATA" => tunnel[t].seq # 0
        BY <4>1 DEF DownFrame
      <4>3. QED
        BY <3>1, <4>2 DEF ReaderTakes, Core, TypeOK, InHand, ReaderTo
    <3>2. CASE ~ \E t \in Tunnel : ReaderTakes(m, t)
      BY <1>2, <3>2 DEF Core, TypeOK, InHand, Reader, ReaderChecks,
         ReaderTicks, ReaderClears, ReaderStores, ReaderResumes, ReaderKnows,
         ReaderWrites, ReaderMarks, ReaderAcks, ReaderTo
    <3>3. QED
      BY <3>1, <3>2
  <2>3. run[m] \notin {"off", "login"} /\ UNCHANGED <<run, seq>>
        /\ \A q \in Miner \ {m} : /\ reader'[q] = reader[q]
                                  /\ readyOffer'[q] = readyOffer[q]
                                  /\ last'[q] = last[q]
                                  /\ ready'[q] = ready[q]
    BY <1>2 DEF Core, TypeOK, Early, Reader, ReaderChecks, ReaderTicks,
       ReaderTakes, ReaderClears, ReaderStores, ReaderResumes, ReaderKnows,
       ReaderWrites, ReaderMarks, ReaderAcks, ReaderTo, ReaderKeeps
  <2>4. Early'
    BY <2>3 DEF Core, Early
  <2>5. QED
    BY <2>1, <2>2, <2>4 DEF Core
<1>3. CASE Outside
  BY <1>3, OutsideStep DEF Core, InHand, Early
<1>4. QED
  BY <1>1, <1>2, <1>3 DEF Next, Outside

\* Core is an invariant.
THEOREM CoreInvariant == Spec => []Core
BY CoreInit, CoreStep, PTL DEF Spec

\* Every reachable state is of the declared types: no frame, Seq or chunk
\* out of range, whatever the tunnels deliver.
THEOREM TypeCorrect == Spec => []TypeOK
<1>1. Core => TypeOK
  BY DEF Core
<1>2. QED
  BY <1>1, CoreInvariant, PTL

-----------------------------------------------------------------------------
(* No half-dead session.                                                   *)

\* A reader or a Run that returned has closed the session.
Whole ==
    \A m \in Miner :
        /\ run[m] = "done" => closed[m]
        /\ reader[m] = "done" => closed[m]
        /\ reader[m] = "off" => run[m] \in {"off", "login"} \/ closed[m]

LEMMA WholeStep ==
    ASSUME Core, Whole, [Next]_vars
    PROVE  Whole'
<1> USE DEF Core, TypeOK, Whole
<1>1. ASSUME NEW m \in Miner, Run(m)
      PROVE  Whole'
  BY <1>1 DEF Run, Accept, Login, ReaderTo, RunChecks, RunReady, RunTimeout, RunLate,
     RunResends, RunReads, RunReadFails, RunStores, RunSends, RunSaysBye, RunKeeps, RunTo, Close
<1>2. ASSUME NEW m \in Miner, Reader(m)
      PROVE  Whole'
  BY <1>2 DEF Reader, ReaderChecks, ReaderTicks, ReaderTakes, ReaderClears, ReaderStores,
     ReaderResumes, ReaderKnows, ReaderWrites, ReaderMarks, ReaderAcks, ReaderTo, ReaderKeeps, Close
<1>3. CASE Outside
  <2>1. UNCHANGED <<run, reader>>
    BY <1>3, OutsideStep
  <2>2. \A m \in Miner : closed[m] => closed'[m]
    BY <1>3 DEF Outside, Srv, SrvReceives, SrvAcked, SrvSends, SrvResends, SrvCloses, SrvKeeps,
       TunnelReads, TunnelCloses, Close, Expire, vars
  <2>3. QED
    BY <2>1, <2>2
<1>4. QED
  BY <1>1, <1>2, <1>3 DEF Next, Outside

\* A registered session has both of its goroutines: neither Run nor readServerData
\* returns but by Close.
THEOREM Attended == Spec => []OpenIsAttended
<1>1. Init => Whole
  BY DEF Init, Whole
<1>2. Core /\ Whole => OpenIsAttended
  BY DEF Core, TypeOK, Whole, OpenIsAttended, Registered
<1>3. QED
  BY <1>1, <1>2, CoreInvariant, WholeStep, PTL DEF Spec

-----------------------------------------------------------------------------
(* The gate.                                                               *)

\* What Run may still read from the miner without a further ACK: one request
\* for the flag, one for the token, one if it passed Wait on a token.
Permits(m) ==
    (IF ready[m] /\ run[m] # "off" THEN 1 ELSE 0)
    + (IF readyOffer[m] THEN 1 ELSE 0)
    + (IF ~ready[m] /\ run[m] = "read" THEN 1 ELSE 0)

Allowance == \A m \in Miner : seq[m] + Permits(m) <= 2 * opened[m]

Gate == RetransmitsNewest /\ Allowance

\* Run reads a request at the price of a permit, and stores it in last before
\* it can retransmit.
LEMMA GateRun ==
    ASSUME Core, Gate, NEW m \in Miner, Run(m)
    PROVE  Gate'
<1> USE DEF Core, TypeOK
<1>1. \A q \in Miner \ {m} : /\ run'[q] = run[q] /\ ready'[q] = ready[q]
                            /\ readyOffer'[q] = readyOffer[q]
                            /\ last'[q] = last[q] /\ seq'[q] = seq[q]
                            /\ opened'[q] = opened[q]
  BY DEF Run, Accept, Login, RunChecks, RunReady, RunTimeout, RunLate,
     RunResends, RunReads, RunReadFails, RunStores, RunSends, RunSaysBye,
     RunKeeps, RunTo
<1>2. run'[m] \in {"send", "check", "wait", "late", "resend"}
          => last'[m] \in {-1, seq'[m]}
  BY DEF Gate, RetransmitsNewest, Early, Run, Accept, Login, RunChecks,
     RunReady, RunTimeout, RunLate, RunResends, RunReads, RunReadFails,
     RunStores, RunSends, RunSaysBye, RunKeeps, RunTo
<1>3. opened'[m] = opened[m] /\ seq'[m] + Permits(m)' <= seq[m] + Permits(m)
  <2>1. CASE RunReads(m)
    BY <2>1 DEF RunReads, RunKeeps, RunTo, Permits
  <2>2. CASE RunReady(m)
    BY <2>2 DEF RunReady, RunTo, Permits
  <2>3. CASE RunChecks(m)
    BY <2>3 DEF RunChecks, RunTo, RunKeeps, Permits
  <2>4. CASE Accept(m)
    BY <2>4 DEF Accept, RunTo, Permits
  <2>5. CASE Login(m)
    BY <2>5 DEF Login, RunTo, Permits
  <2>6. CASE RunTimeout(m) \/ RunLate(m) \/ RunResends(m)
    BY <2>6 DEF RunTimeout, RunLate, RunResends, RunTo, RunKeeps, Permits
  <2>7. CASE RunReadFails(m) \/ RunStores(m) \/ RunSends(m) \/ RunSaysBye(m)
    BY <2>7 DEF RunReadFails, RunStores, RunSends, RunSaysBye, RunTo,
       RunKeeps, Permits
  <2>8. QED
    BY <2>1, <2>2, <2>3, <2>4, <2>5, <2>6, <2>7 DEF Run
<1>4. \A q \in Miner : seq[q] + Permits(q) <= 2 * opened[q]
  BY DEF Gate, Allowance
<1>5. seq'[m] + Permits(m)' <= 2 * opened'[m]
  <2>1. seq[m] + Permits(m) <= 2 * opened[m]
    BY <1>4
  <2>2. seq'[m] \in Int /\ seq[m] \in Int /\ opened[m] \in Int
    BY RunType
  <2>3. Permits(m) \in Int /\ Permits(m)' \in Int
    BY DEF Permits
  <2>4. QED
    BY <1>3, <2>1, <2>2, <2>3
<1>6. \A q \in Miner \ {m} : Permits(q)' = Permits(q)
  BY <1>1 DEF Permits
<1>7. Allowance'
  BY <1>1, <1>4, <1>5, <1>6 DEF Allowance
<1>8. RetransmitsNewest'
  BY <1>1, <1>2 DEF Gate, RetransmitsNewest
<1>9. QED
  BY <1>7, <1>8 DEF Gate

\* Only SetReady adds permits, two at a time.
LEMMA GateReader ==
    ASSUME Core, Gate, NEW m \in Miner, Reader(m)
    PROVE  Gate'
<1> USE DEF Core, TypeOK, ReaderKeeps, ReaderTo
<1>1. CASE ReaderClears(m)
  BY <1>1 DEF ReaderClears, Gate, RetransmitsNewest, Allowance, Permits
<1>2. CASE ReaderStores(m)
  <2>1. RetransmitsNewest'
    BY <1>2 DEF ReaderStores, Gate, RetransmitsNewest
  <2>2. ASSUME NEW q \in Miner
        PROVE  seq'[q] + Permits(q)' <= 2 * opened'[q]
    <3>1. seq[q] + Permits(q) <= 2 * opened[q]
      BY DEF Gate, Allowance
    <3>2. CASE q = m
      BY <1>2, <3>1, <3>2 DEF ReaderStores, Permits
    <3>3. CASE q # m
      BY <1>2, <3>1, <3>3 DEF ReaderStores, Permits
    <3>4. QED
      BY <3>2, <3>3
  <2>3. QED
    BY <2>1, <2>2 DEF Gate, Allowance
<1>3. CASE ~ReaderClears(m) /\ ~ReaderStores(m)
  <2>1. UNCHANGED <<run, gateVars, seq>>
    BY <1>3 DEF Reader, ReaderChecks, ReaderTicks, ReaderTakes, ReaderResumes,
       ReaderKnows, ReaderWrites, ReaderMarks, ReaderAcks
  <2>2. QED
    BY <2>1 DEF Gate, RetransmitsNewest, Allowance, Permits
<1>4. QED
  BY <1>1, <1>2, <1>3

LEMMA GateInvariant == Spec => []Gate
<1>1. Init => Gate
  BY DEF Init, Gate, RetransmitsNewest, Allowance, Permits
<1>2. ASSUME Core, Gate, [Next]_vars
      PROVE  Gate'
  <2>1. CASE Outside
    BY <1>2, <2>1, OutsideStep DEF Gate, RetransmitsNewest, Allowance, Permits
  <2>2. ASSUME NEW m \in Miner, Run(m) \/ Reader(m)
        PROVE  Gate'
    BY <1>2, <2>2, GateRun, GateReader
  <2>3. QED
    BY <1>2, <2>1, <2>2 DEF Next, Outside
<1>3. QED
  BY <1>1, <1>2, CoreInvariant, PTL DEF Spec

\* SendTryLastRequest never sends anything but the newest request, wherever
\* SetReady falls between the stores of SetWait.
THEOREM Newest == Spec => []RetransmitsNewest
<1>1. Gate => RetransmitsNewest
  BY DEF Gate
<1>2. QED
  BY <1>1, GateInvariant, PTL

\* The client is at most two requests ahead per ACK that opened its gate.
THEOREM Window == Spec => []RequestsPerAck
<1>1. Core /\ Gate => RequestsPerAck
  <2>1. ASSUME Core, Gate, NEW m \in Miner
        PROVE  seq[m] <= 2 * opened[m]
    <3>1. seq[m] + Permits(m) <= 2 * opened[m]
      BY <2>1 DEF Gate, Allowance
    <3>2. QED
      BY <2>1, <3>1 DEF Core, TypeOK, Permits
  <2>2. QED
    BY <2>1 DEF RequestsPerAck
<1>2. QED
  BY <1>1, CoreInvariant, GateInvariant, PTL

-----------------------------------------------------------------------------
(* Delivery.                                                               *)

\* No two chunks have the same Seq and bytes.
CollisionFree == \A c, d \in Chunk : Key(c) = Key(d) => c = d

\* What is remembered, marked or answered was written to its miner.
Delivered ==
    /\ \A c \in Chunk : Key(c) \in sent \/ c \in acked => delivered[c] > 0
    /\ \A m \in Miner : reader[m] = "mark" => delivered[<<m, hand[m]>>] > 0

LEMMA DeliveredElsewhere ==
    ASSUME Delivered, UNCHANGED <<reader, hand, delivered, acked>>,
           sent' \subseteq sent
    PROVE  Delivered'
BY DEF Delivered, Key

LEMMA DeliveredStep ==
    ASSUME CollisionFree, Core, Delivered, [Next]_vars
    PROVE  Delivered'
<1> USE DEF Core, TypeOK
<1>1. ASSUME NEW m \in Miner, ReaderWrites(m)
      PROVE  Delivered'
  <2>1. hand[m] \in 1..MaxDown /\ <<m, hand[m]>> \in Chunk
    BY <1>1 DEF InHand, ReaderWrites, Chunk
  <2>2. /\ UNCHANGED <<sent, acked>>
        /\ \A c \in Chunk : delivered'[c] >= delivered[c]
        /\ \A q \in Miner \ {m} : reader'[q] = reader[q] /\ hand'[q] = hand[q]
    BY <1>1, <2>1 DEF ReaderWrites, ReaderTo
  <2>3. reader'[m] = "mark" =>
            hand'[m] = hand[m] /\ delivered'[<<m, hand[m]>>] > 0
    BY <1>1, <2>1 DEF ReaderWrites, ReaderTo
  <2>4. ASSUME NEW c \in Chunk, Key(c)' \in sent' \/ c \in acked'
        PROVE  delivered'[c] > 0
    <3>1. delivered[c] > 0
      BY <2>2, <2>4 DEF Delivered, Key
    <3>2. delivered[c] \in Nat /\ delivered'[c] \in Nat /\ delivered'[c] >= delivered[c]
      BY <1>1, <2>2, ReaderType DEF Reader
    <3>3. QED
      BY <3>1, <3>2
  <2>5. ASSUME NEW q \in Miner, q # m, reader'[q] = "mark"
        PROVE  delivered'[<<q, hand'[q]>>] > 0
    <3>1. reader[q] = "mark" /\ hand'[q] = hand[q]
      BY <2>2, <2>5
    <3>2. <<q, hand[q]>> \in Chunk
      BY <3>1 DEF InHand, Chunk
    <3>3. delivered[<<q, hand[q]>>] > 0
      BY <3>1 DEF Delivered
    <3>4. delivered'[<<q, hand[q]>>] >= delivered[<<q, hand[q]>>]
      BY <2>2, <3>2
    <3>5. delivered'[<<q, hand[q]>>] \in Nat /\ delivered[<<q, hand[q]>>] \in Nat
      BY <1>1, <2>1, <3>2 DEF ReaderWrites
    <3>6. QED
      BY <3>1, <3>3, <3>4, <3>5
  <2>6. QED
    BY <2>3, <2>4, <2>5 DEF Delivered
<1>2. ASSUME NEW m \in Miner, ReaderMarks(m)
      PROVE  Delivered'
  <2>1. <<m, hand[m]>> \in Chunk /\ delivered[<<m, hand[m]>>] > 0
    BY <1>2 DEF ReaderMarks, InHand, Chunk, Delivered
  <2>2. ASSUME NEW c \in Chunk, Key(c) \in sent' \/ c \in acked'
        PROVE  delivered[c] > 0
    BY <1>2, <2>1, <2>2 DEF ReaderMarks, Delivered, CollisionFree
  <2>3. UNCHANGED <<delivered, hand>>
        /\ \A q \in Miner : reader'[q] = "mark" => reader[q] = "mark"
    BY <1>2 DEF ReaderMarks, ReaderTo
  <2>4. QED
    BY <2>2, <2>3 DEF Delivered, Key
<1>3. ASSUME NEW m \in Miner, ReaderKnows(m)
      PROVE  Delivered'
  <2>1. <<m, hand[m]>> \in Chunk /\ delivered[<<m, hand[m]>>] > 0
    BY <1>3 DEF ReaderKnows, InHand, Chunk, Delivered
  <2>2. UNCHANGED <<delivered, hand, sent>>
        /\ acked' = acked \cup {<<m, hand[m]>>}
        /\ \A q \in Miner : reader'[q] = "mark" => reader[q] = "mark"
    BY <1>3 DEF ReaderKnows, ReaderTo
  <2>3. QED
    BY <2>1, <2>2 DEF Delivered, Key
<1>4. ASSUME NEW m \in Miner, Reader(m),
             ~ReaderWrites(m), ~ReaderMarks(m), ~ReaderKnows(m)
      PROVE  Delivered'
  <2>1. UNCHANGED <<delivered, sent, acked>>
        /\ \A q \in Miner : reader'[q] = "mark" =>
               reader[q] = "mark" /\ hand'[q] = hand[q]
    BY <1>4 DEF Reader, ReaderChecks, ReaderTicks, ReaderTakes, ReaderClears,
       ReaderStores, ReaderResumes, ReaderAcks, ReaderTo
  <2>2. QED
    BY <2>1 DEF Delivered, Key
<1>5. ASSUME NEW m \in Miner, Run(m)
      PROVE  Delivered'
  <2>1. UNCHANGED <<delivered, sent, acked, hand>>
        /\ \A q \in Miner : reader'[q] = "mark" => reader[q] = "mark"
    BY <1>5 DEF Run, Accept, Login, ReaderTo, RunChecks, RunReady, RunTimeout,
       RunLate, RunResends, RunReads, RunReadFails, RunStores, RunSends,
       RunSaysBye, RunKeeps
  <2>2. QED
    BY <2>1 DEF Delivered, Key
<1>6. CASE Outside
  <2>1. sent' \subseteq sent
    BY <1>6 DEF Outside, Srv, SrvReceives, SrvAcked, SrvSends, SrvResends,
       SrvCloses, SrvKeeps, TunnelReads, TunnelCloses, Expire, vars
  <2>2. QED
    BY <1>6, <2>1, OutsideStep, DeliveredElsewhere
<1>7. QED
  BY <1>1, <1>2, <1>3, <1>4, <1>5, <1>6 DEF Next, Outside

\* A chunk is ACKed only if its miner got it, whatever is repeated, reordered
\* or closed - provided no two chunks share Seq and bytes.
THEOREM AckKept ==
    ASSUME CollisionFree
    PROVE  Spec => []AckMeansDelivered
<1>1. Init => Delivered
  BY DEF Init, Delivered
<1>2. Core /\ Delivered /\ [Next]_vars => Delivered'
  BY DeliveredStep
<1>3. Core /\ Delivered => AckMeansDelivered
  BY DEF Core, TypeOK, Delivered, AckMeansDelivered
<1>4. QED
  BY <1>1, <1>2, <1>3, CoreInvariant, PTL DEF Spec

-----------------------------------------------------------------------------
(* The refinement of Forwarding.                                           *)

\* The keys of chunks that are written and not yet marked.
marking == {Key(<<m, hand[m]>>) : m \in Written}
known == sent \cup marking
promised == <<delivered, known, acked>>

LEMMA SameMarking ==
    ASSUME Written' = Written, \A q \in Written : hand'[q] = hand[q]
    PROVE  marking' = marking
<1>1. \A q \in Written : Key(<<q, hand[q]>>)' = Key(<<q, hand[q]>>)
  BY DEF Key
<1>2. \A k : k \in marking' <=> k \in marking
  BY <1>1 DEF marking
<1>3. QED
  BY <1>2

LEMMA PromiseStep ==
    ASSUME CollisionFree, Core, [Next]_vars
    PROVE  Promise!Next \/ UNCHANGED promised
<1> USE DEF Core, TypeOK
<1>1. ASSUME NEW m \in Miner, ReaderWrites(m)
      PROVE  Promise!Next \/ UNCHANGED promised
  <2>1. <<m, hand[m]>> \in Chunk /\ m \notin Written
    BY <1>1 DEF InHand, ReaderWrites, Chunk, Written
  <2>2. CASE reader'[m] = "done"
    <3>1. UNCHANGED <<delivered, sent, acked>>
          /\ Written' = Written
          /\ \A q \in Written : hand'[q] = hand[q]
      BY <1>1, <2>1, <2>2 DEF ReaderWrites, ReaderTo, Written
    <3>2. known' = known
      BY <3>1, SameMarking DEF known
    <3>3. QED
      BY <3>1, <3>2 DEF promised
  <2>3. CASE reader'[m] # "done"
    <3>1. /\ delivered' = [delivered EXCEPT ![<<m, hand[m]>>] = @ + 1]
          /\ reader' = [reader EXCEPT ![m] = "mark"]
          /\ UNCHANGED <<sent, acked, hand>>
          /\ Key(<<m, hand[m]>>) \notin sent
      BY <1>1, <2>3 DEF ReaderWrites, ReaderTo
    <3>2. Written' = Written \cup {m}
      BY <3>1 DEF Written
    <3>3. known' = known \cup {Key(<<m, hand[m]>>)}
      BY <3>1, <3>2 DEF known, marking, Key
    <3>4. ASSUME NEW q \in Written
          PROVE  Key(<<q, hand[q]>>) # Key(<<m, hand[m]>>)
      <4>1. <<q, hand[q]>> \in Chunk /\ q # m
        BY <2>1 DEF Written, InHand, Chunk
      <4>2. QED
        BY <2>1, <4>1 DEF CollisionFree
    <3>5. Key(<<m, hand[m]>>) \notin known
      BY <3>1, <3>4 DEF known, marking
    <3>6. Promise!Hand(<<m, hand[m]>>)
      BY <2>1, <3>1, <3>3, <3>5 DEF Promise!Hand, known, marking
    <3>7. QED
      BY <2>1, <3>6 DEF Promise!Next
  <2>4. QED
    BY <2>2, <2>3
<1>2. ASSUME NEW m \in Miner, ReaderMarks(m)
      PROVE  Promise!Next
  <2>1. <<m, hand[m]>> \in Chunk /\ m \in Written
    BY <1>2 DEF InHand, ReaderMarks, Chunk, Written
  <2>2. /\ sent' = sent \cup {Key(<<m, hand[m]>>)}
        /\ acked' = acked \cup {<<m, hand[m]>>}
        /\ UNCHANGED <<delivered, hand>>
        /\ Written' = Written \ {m}
    BY <1>2 DEF ReaderMarks, ReaderTo, Written
  <2>3. known' = known
    BY <2>1, <2>2 DEF known, marking, Key
  <2>4. Promise!Answer(<<m, hand[m]>>)
    BY <2>1, <2>2, <2>3 DEF Promise!Answer, known, marking
  <2>5. QED
    BY <2>1, <2>4 DEF Promise!Next
<1>3. ASSUME NEW m \in Miner, ReaderKnows(m)
      PROVE  Promise!Next
  <2>1. <<m, hand[m]>> \in Chunk /\ Key(<<m, hand[m]>>) \in known
    BY <1>3 DEF InHand, ReaderKnows, Chunk, known
  <2>2. /\ acked' = acked \cup {<<m, hand[m]>>}
        /\ UNCHANGED <<delivered, hand, sent>>
        /\ Written' = Written
    BY <1>3 DEF ReaderKnows, ReaderTo, Written
  <2>3. known' = known
    BY <2>2, SameMarking DEF known
  <2>4. Promise!Answer(<<m, hand[m]>>)
    BY <2>1, <2>2, <2>3 DEF Promise!Answer, known, marking
  <2>5. QED
    BY <2>1, <2>4 DEF Promise!Next
<1>4. ASSUME NEW m \in Miner, Reader(m),
             ~ReaderWrites(m), ~ReaderMarks(m), ~ReaderKnows(m)
      PROVE  UNCHANGED promised
  <2>1. UNCHANGED <<delivered, sent, acked>>
        /\ Written' = Written
        /\ \A q \in Written : hand'[q] = hand[q]
    BY <1>4 DEF Reader, ReaderChecks, ReaderTicks, ReaderTakes, ReaderClears,
       ReaderStores, ReaderResumes, ReaderAcks, ReaderTo, Written
  <2>2. known' = known
    BY <2>1, SameMarking DEF known
  <2>3. QED
    BY <2>1, <2>2 DEF promised
<1>5. ASSUME NEW m \in Miner, Run(m)
      PROVE  UNCHANGED promised
  <2>1. UNCHANGED <<delivered, sent, acked, hand>>
        /\ Written' = Written
    BY <1>5 DEF Run, Accept, Login, ReaderTo, RunChecks, RunReady, RunTimeout,
       RunLate, RunResends, RunReads, RunReadFails, RunStores, RunSends,
       RunSaysBye, RunKeeps, Written, Early
  <2>2. QED
    BY <2>1, SameMarking DEF promised, known
<1>6. CASE Expire
  <2>1. PICK k \in sent : sent' = sent \ {k}
    BY <1>6 DEF Expire
  <2>2. UNCHANGED <<delivered, acked, hand>> /\ Written' = Written
    BY <1>6 DEF Expire, Written
  <2>3. CASE k \in marking
    <3>1. known' = known
      BY <2>1, <2>2, <2>3, SameMarking DEF known
    <3>2. QED
      BY <2>2, <3>1 DEF promised
  <2>4. CASE k \notin marking
    <3>1. known' = known \ {k} /\ k \in known
      BY <2>1, <2>2, <2>4, SameMarking DEF known
    <3>2. Promise!Forget(k)
      BY <2>2, <3>1 DEF Promise!Forget, known, marking
    <3>3. QED
      BY <3>1, <3>2 DEF Promise!Next, known, marking
  <2>5. QED
    BY <2>3, <2>4
<1>7. CASE Outside /\ ~Expire
  <2>1. UNCHANGED <<delivered, acked, hand, sent, reader>>
    BY <1>7 DEF Outside, Srv, SrvReceives, SrvAcked, SrvSends, SrvResends,
       SrvCloses, SrvKeeps, TunnelReads, TunnelCloses, vars
  <2>2. QED
    BY <2>1, SameMarking DEF promised, known, Written
<1>8. QED
  BY <1>1, <1>2, <1>3, <1>4, <1>5, <1>6, <1>7 DEF Next, Outside

\* The readers of all sessions implement the atomic forwarder, provided no two
\* chunks share Seq and bytes.
THEOREM Implements ==
    ASSUME CollisionFree
    PROVE  Spec => DeliversAsPromised
<1>1. Init => Promise!Init
  BY DEF Init, Promise!Init, Written
<1>2. Core /\ [Next]_vars => [Promise!Next]_promised
  BY PromiseStep
<1>3. QED
  BY <1>1, <1>2, CoreInvariant, PTL DEF Spec, Promise!Spec,
     DeliversAsPromised, promised, known, marking

-----------------------------------------------------------------------------
(* What the server gets to see.                                            *)

\* Nothing the client holds was not sent by the server: a frame in flight or in a
\* tunnel, an ACK that opens or opened the gate, a chunk in a reader's hand.
Heard ==
    /\ \A f \in down : f.type # "CLOSE" => Side!Told(f.type, f.miner)
    /\ \A t \in Tunnel : tunnel[t] \in DownFrame /\ tunnel[t].type # "CLOSE"
                             => Side!Told(tunnel[t].type, tunnel[t].miner)
    /\ \A m \in Miner :
           /\ opened[m] > 0 \/ reader[m] \in {"clear", "store"} => Side!Told("ACK", m)
           /\ reader[m] \in {"deliver", "mark", "ack"} => Side!Told("DATA", m)

\* The server says more and more, and says what it sends.
LEMMA HeardSrv ==
    ASSUME Core, Heard, NEW m \in Miner, Srv(m)
    PROVE  Heard' /\ told \subseteq told' /\ up' \subseteq up
<1> USE DEF Core, TypeOK
<1>1. /\ UNCHANGED <<run, reader, gateVars, tunnel>>
      /\ told \subseteq told' /\ up' \subseteq up
  BY DEF Srv, SrvReceives, SrvAcked, SrvSends, SrvResends, SrvCloses, SrvKeeps, Send
<1>2. ASSUME NEW f \in down', f.type # "CLOSE"
      PROVE  f \in down \/ [type |-> f.type, miner |-> f.miner] \in told'
  BY <1>2 DEF Srv, SrvReceives, SrvAcked, SrvSends, SrvResends, SrvCloses, Send, F
<1>3. QED
  BY <1>1, <1>2 DEF Heard, Side!Told

LEMMA HeardStep ==
    ASSUME Core, Heard, [Next]_vars
    PROVE  Heard'
<1> USE DEF Core, TypeOK
<1>1. ASSUME NEW m \in Miner, Run(m)
      PROVE  Heard'
  <2>1. UNCHANGED <<opened, tunnel, down, told>>
        /\ \A q \in Miner : reader'[q] \in {reader[q], "check"}
    BY <1>1 DEF Run, Accept, Login, ReaderTo, RunChecks, RunReady, RunTimeout, RunLate,
       RunResends, RunReads, RunReadFails, RunStores, RunSends, RunSaysBye, RunKeeps
  <2>2. QED
    BY <2>1 DEF Heard, Side!Told
<1>2. ASSUME NEW m \in Miner, NEW t \in Tunnel, ReaderTakes(m, t)
      PROVE  Heard'
  <2>1. tunnel[t] \in DownFrame /\ tunnel[t].miner = m
    BY <1>2 DEF ReaderTakes
  <2>2. /\ UNCHANGED <<opened, down, told>>
        /\ tunnel' = [tunnel EXCEPT ![t] = NoFrame]
        /\ \/ reader' = [reader EXCEPT ![m] = "done"] \/ reader' = [reader EXCEPT ![m] = "check"]
           \/ tunnel[t].type = "ACK" /\ reader' = [reader EXCEPT ![m] = "clear"]
           \/ tunnel[t].type = "DATA" /\ reader' = [reader EXCEPT ![m] = "deliver"]
    BY <1>2 DEF ReaderTakes, ReaderTo, ReaderKeeps
  <2>3. tunnel[t].type # "CLOSE" => Side!Told(tunnel[t].type, m)
    BY <2>1 DEF Heard
  <2>4. QED
    BY <2>2, <2>3 DEF Heard, Side!Told
<1>3. ASSUME NEW m \in Miner, ReaderStores(m)
      PROVE  Heard'
  BY <1>3 DEF ReaderStores, ReaderTo, ReaderKeeps, Heard, Side!Told
<1>4. ASSUME NEW m \in Miner, Reader(m), ~ReaderStores(m), ~ \E t \in Tunnel : ReaderTakes(m, t)
      PROVE  Heard'
  <2>1. UNCHANGED <<opened, tunnel, down, told>>
        /\ \A q \in Miner :
               \/ reader'[q] \in {reader[q], "check", "recv", "done"}
               \/ reader[q] = "clear" /\ reader'[q] = "store"
               \/ reader'[q] = "signal"
               \/ reader[q] \in {"deliver", "mark"} /\ reader'[q] \in {"mark", "ack"}
    BY <1>4 DEF Reader, ReaderChecks, ReaderTicks, ReaderClears, ReaderResumes, ReaderKnows,
       ReaderWrites, ReaderMarks, ReaderAcks, ReaderTo, ReaderKeeps
  <2>2. QED
    BY <2>1 DEF Heard, Side!Told
<1>5. ASSUME NEW t \in Tunnel, NEW f \in down, TunnelReads(t, f)
      PROVE  Heard'
  <2>1. /\ UNCHANGED <<reader, opened, told>> /\ down' \subseteq down
        /\ \A u \in Tunnel : tunnel'[u] \in {tunnel[u], f}
    BY <1>5 DEF TunnelReads
  <2>2. QED
    BY <2>1 DEF Heard, Side!Told
<1>6. CASE Expire \/ UNCHANGED vars \/ \E t \in Tunnel, m \in Miner : TunnelCloses(t, m)
  BY <1>6 DEF Expire, vars, TunnelCloses, Heard, Side!Told
<1>7. QED
  BY <1>1, <1>2, <1>3, <1>4, <1>5, <1>6, HeardSrv DEF Next

-----------------------------------------------------------------------------
(* The client keeps what ServerSession counts on.                          *)

spoken == <<said, connected, up, told>>

\* A step that leaves the session's requests and its end alone, and sends nothing.
LEMMA Silent ==
    ASSUME Core, UNCHANGED <<run, seq, up, told>>
    PROVE  UNCHANGED spoken
BY DEF spoken, said, connected

LEMMA SpeaksRun ==
    ASSUME Core, Gate, Heard, NEW m \in Miner, Run(m)
    PROVE  Side!Acts(m) \/ UNCHANGED spoken
<1> USE DEF Core, TypeOK, RunTo
<1>1. CASE Accept(m)
  <2>1. /\ run[m] = "off" /\ run' = [run EXCEPT ![m] = "login"]
        /\ seq[m] = 0 /\ UNCHANGED <<seq, up, told>>
    BY <1>1 DEF Accept, Early
  <2>2. said' = [said EXCEPT ![m] = @ + 1] /\ said[m] = -1
    <3>1. said \in [Miner -> Int] /\ said[m] = -1 /\ said'[m] = 0
      BY <2>1 DEF said
    <3>2. \A q \in Miner \ {m} : said'[q] = said[q]
      BY <2>1 DEF said
    <3>3. said' = [q \in Miner |-> said'[q]]
      BY DEF said
    <3>4. QED
      BY <3>1, <3>2, <3>3
  <2>3. connected' = connected /\ connected[m]
    BY <2>1 DEF connected
  <2>4. QED
    BY <2>1, <2>2, <2>3 DEF Side!Acts, Side!Numbers
<1>2. CASE RunReads(m)
  <2>1. opened[m] > 0
    BY <1>2 DEF RunReads, Gate, Allowance, Permits
  <2>2. /\ said' = [said EXCEPT ![m] = @ + 1] /\ said[m] = seq[m] /\ connected[m]
        /\ connected' = connected /\ UNCHANGED <<up, told>>
    BY <1>2 DEF RunReads, RunKeeps, said, connected
  <2>3. QED
    BY <1>2, <2>1, <2>2 DEF Side!Acts, Side!Numbers, RunReads, Heard
<1>3. ASSUME up' = up \cup {Request(m, seq[m])}, UNCHANGED <<seq, told>>,
             run[m] \in {"login", "send", "resend"}, run' = [run EXCEPT ![m] = "check"]
      PROVE  Side!Says(m)
  <2>1. UNCHANGED <<said, connected>> /\ said[m] = seq[m] /\ connected[m]
    BY <1>3 DEF said, connected
  <2>2. Request(m, seq[m]) = Side!Request(m, seq[m])
    BY DEF Request, F, Side!Request
  <2>3. QED
    BY <1>3, <2>1, <2>2 DEF Side!Says
<1>4. ASSUME run[m] \notin {"off", "done"}, run' = [run EXCEPT ![m] = "done"],
             UNCHANGED <<seq, told>>, up' \in {up, up \cup {F("CLOSE", m, 0)}}
      PROVE  Side!Ends(m)
  <2>1. said' = said /\ said[m] # -1
    BY <1>4 DEF said
  <2>2. connected[m] /\ connected' = [connected EXCEPT ![m] = FALSE]
    BY <1>4 DEF connected
  <2>3. F("CLOSE", m, 0) = Side!Plain("CLOSE", m)
    BY DEF F, Side!Plain
  <2>4. QED
    BY <1>4, <2>1, <2>2, <2>3 DEF Side!Ends
<1>5. CASE Login(m)
  <2>1. seq[m] = 0
    BY <1>5 DEF Login, Early
  <2>2. QED
    BY <1>3, <1>4, <1>5, <2>1 DEF Login, SendToServer, Side!Acts
<1>6. CASE RunSends(m) \/ RunSaysBye(m)
  BY <1>3, <1>4, <1>6 DEF RunSends, RunSaysBye, RunKeeps, SendToServer, Side!Acts
<1>7. ASSUME UNCHANGED <<seq, up, told>>, run[m] \notin {"off", "done"},
             run' = [run EXCEPT ![m] = run'[m]], run'[m] \notin {"off", "done"}
      PROVE  UNCHANGED spoken
  BY <1>7 DEF spoken, said, connected
<1>8. CASE RunResends(m)
  <2>1. last[m] \in {-1, seq[m]}
    BY <1>8 DEF RunResends, Gate, RetransmitsNewest
  <2>2. QED
    BY <1>3, <1>4, <1>7, <1>8, <2>1 DEF RunResends, RunKeeps, Side!Acts
<1>9. CASE RunChecks(m)
  BY <1>4, <1>7, <1>9 DEF RunChecks, RunKeeps, Side!Acts
<1>10. CASE RunReady(m) \/ RunTimeout(m) \/ RunLate(m) \/ RunReadFails(m) \/ RunStores(m)
  BY <1>7, <1>10 DEF RunReady, RunTimeout, RunLate, RunReadFails, RunStores, RunKeeps
<1>11. QED
  BY <1>1, <1>2, <1>5, <1>6, <1>8, <1>9, <1>10 DEF Run

LEMMA SpeaksStep ==
    ASSUME Core, Gate, Heard, [Next]_vars
    PROVE  Side!Next \/ UNCHANGED spoken
<1> USE DEF Core, TypeOK
<1>1. ASSUME NEW m \in Miner, Run(m)
      PROVE  Side!Next \/ UNCHANGED spoken
  BY <1>1, SpeaksRun DEF Side!Next
<1>2. ASSUME NEW m \in Miner, Reader(m)
      PROVE  Side!Next \/ UNCHANGED spoken
  <2>1. UNCHANGED <<run, seq, told>>
    BY <1>2 DEF Reader, ReaderChecks, ReaderTicks, ReaderTakes, ReaderClears, ReaderStores,
       ReaderResumes, ReaderKnows, ReaderWrites, ReaderMarks, ReaderAcks, ReaderKeeps
  <2>2. CASE up' = up
    BY <2>1, <2>2, Silent
  <2>3. CASE up' # up
    <3>1. reader[m] = "ack" /\ up' = up \cup {F("ACK", m, 0)}
      BY <1>2, <2>3 DEF Reader, ReaderChecks, ReaderTicks, ReaderTakes, ReaderClears,
         ReaderStores, ReaderResumes, ReaderKnows, ReaderWrites, ReaderMarks, ReaderAcks,
         SendToServer
    <3>2. UNCHANGED <<said, connected>>
      BY <2>1 DEF said, connected
    <3>3. F("ACK", m, 0) = Side!Plain("ACK", m)
      BY DEF F, Side!Plain
    <3>4. Side!Acks(m)
      BY <2>1, <3>1, <3>2, <3>3 DEF Side!Acks, Heard
    <3>5. QED
      BY <3>4 DEF Side!Next, Side!Acts
  <2>4. QED
    BY <2>2, <2>3
<1>3. CASE Outside
  <2>1. UNCHANGED <<said, connected>>
    BY <1>3, OutsideStep DEF said, connected
  <2>2. up' \subseteq up /\ told \subseteq told'
    BY <1>3, HeardSrv DEF Outside, TunnelReads, TunnelCloses, Expire, vars
  <2>3. QED
    BY <2>1, <2>2 DEF Side!Next, Side!Others
<1>4. QED
  BY <1>1, <1>2, <1>3 DEF Next, Outside

\* Run and readServerData of any number of sessions, over any tunnels, say to the
\* server only what ServerSession expects of a client.
THEOREM Speaks == Spec => SpeaksAsPromised
<1>1. Init => Heard /\ Side!Init
  <2>1. Init => Heard
    BY DEF Init, Heard
  <2>2. ASSUME Init
        PROVE  Side!Init
    <3>1. \A m \in Miner : run[m] = "off"
      BY <2>2 DEF Init
    <3>2. said = [m \in Miner |-> -1]
      BY <3>1 DEF said
    <3>3. connected = [m \in Miner |-> TRUE]
      BY <3>1 DEF connected
    <3>4. QED
      BY <2>2, <3>2, <3>3 DEF Init, Side!Init
  <2>3. QED
    BY <2>1, <2>2
<1>2. Core /\ Heard /\ [Next]_vars => Heard'
  BY HeardStep
<1>3. Core /\ Gate /\ Heard /\ [Next]_vars => [Side!Next]_spoken
  BY SpeaksStep
<1>4. QED
  BY <1>1, <1>2, <1>3, CoreInvariant, GateInvariant, PTL
  DEF Spec, SpeaksAsPromised, Side!Spec, spoken

=============================================================================
