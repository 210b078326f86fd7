-------------------------- MODULE Registry_proofs --------------------------
(***************************************************************************)
(* Theorems about Registry, for every number of miners, tunnels and frames *)
(* on the way.                                                             *)
(***************************************************************************)
EXTENDS Registry, TLAPS

USE RegistryAssumption DEF history, Lapse, Tell

-----------------------------------------------------------------------------
(* The inductive invariant.                                                *)

\* A LOGIN or a PING names miners that were accepted, a PONG those that left.
Names(f) ==
    \A m \in f.who : /\ f.type \in {"LOGIN", "PING"} => miner[m] # "new"
                     /\ f.type = "PONG" => miner[m] = "off"

\* Only a miner that was accepted gets a session.
Origins ==
    /\ \A m \in Miner : session[m] # "none" => miner[m] # "new"
    /\ \A f \in net : Names(f)

Inv == TypeOK /\ Origins

LEMMA InvInit == Init => Inv
BY DEF Init, Inv, TypeOK, Origins

-----------------------------------------------------------------------------
(* Frames.                                                                 *)

LEMMA SendsFrame ==
    ASSUME TypeOK, NEW m \in Miner, NEW type \in {"LOGIN", "DATA", "BYE", "CLOSE"}, Sends(type, m)
    PROVE  /\ net' \subseteq Frame
           /\ \A f \in net' : f \in net \/ (f.type = type /\ f.who = {m} /\ link[f.on] # "down")
BY DEF Sends, Send, TypeOK, Frame

LEMMA AnswerFrame ==
    ASSUME TypeOK, NEW f \in net, NEW type \in {"ACK", "CLOSE", "PONG"}, NEW who \in SUBSET Miner,
           Answer(f, type, who)
    PROVE  /\ net' \subseteq Frame
           /\ \A g \in net' : g \in net \/ (g.type = type /\ g.who = who /\ g.on = f.on)
BY DEF Answer, Send, TypeOK, Frame

\* Miners and sessions move forward, and the new frames name whom they should.
LEMMA OriginsStep ==
    ASSUME Origins, TypeOK,
           \A m \in Miner : /\ miner[m] # "new" => miner'[m] # "new"
                            /\ miner[m] = "off" => miner'[m] = "off"
                            /\ session'[m] # "none" => session[m] # "none" \/ miner[m] # "new",
           \A f \in net' : f \in net \/ Names(f)'
    PROVE  Origins'
<1>1. \A f \in net : f.who \subseteq Miner
  BY DEF TypeOK, Frame
<1>2. \A f \in net : Names(f)'
  BY <1>1 DEF Origins, Names
<1>3. QED
  BY <1>2 DEF Origins

-----------------------------------------------------------------------------
(* The steps of the client.                                                *)

LEMMA LinkStep ==
    ASSUME Inv, NEW t \in Tunnel, Dials(t) \/ Breaks(t)
    PROVE  Inv'
<1> USE DEF Inv, Dials, Breaks, clientVars, serverVars
<1>1. TypeOK'
  BY DEF TypeOK, Frame, Registered
<1>2. Origins'
  BY DEF Origins, Names
<1>3. QED
  BY <1>1, <1>2

LEMMA MinerStep ==
    ASSUME Inv, NEW m \in Miner, Accepts(m) \/ Speaks(m) \/ Resends(m) \/ Leaves(m)
    PROVE  Inv'
<1> USE DEF Inv, Accepts, Speaks, Resends, Leaves, Close, clientVars, serverVars, linkVars
<1>1. PICK type \in {"LOGIN", "DATA", "BYE"} : Sends(type, m) /\ (type = "LOGIN" => miner'[m] # "new")
  BY DEF TypeOK
<1>2. /\ net' \subseteq Frame
      /\ \A f \in net' : f \in net \/ (f.type = type /\ f.who = {m} /\ link[f.on] # "down")
  BY <1>1, SendsFrame
<1>3. /\ miner' \in [Miner -> {"new", "on", "off"}]
      /\ \A k \in Miner : /\ miner[k] # "new" => miner'[k] # "new"
                          /\ miner[k] = "off" => miner'[k] = "off"
  BY DEF TypeOK
<1>4. /\ wait' \in [Miner -> {"none", "LOGIN", "DATA"}]
      /\ forgot' \subseteq Miner /\ lapsed' \subseteq Miner
      /\ early' \subseteq Miner
  BY DEF TypeOK
<1>5. UNCHANGED <<session, used, loose, link, listed, off>>
  OBVIOUS
<1>6. TypeOK'
  BY <1>2, <1>3, <1>4, <1>5 DEF TypeOK
<1>7. \A f \in net' : f \in net \/ Names(f)'
  BY <1>1, <1>2 DEF Names
<1>8. Origins'
  BY <1>3, <1>5, <1>7, OriginsStep
<1>9. QED
  BY <1>6, <1>8

LEMMA RecvMandateStep ==
    ASSUME Inv, NEW f \in net, RecvMandate(f)
    PROVE  Inv'
<1> USE DEF Inv, RecvMandate, Arrives, Close, serverVars, linkVars
<1>1. f.who \subseteq Miner /\ f.on \in Tunnel
  BY DEF TypeOK, Frame
<1>2. /\ miner' \in [Miner -> {"new", "on", "off"}]
      /\ \A k \in Miner : /\ miner[k] # "new" => miner'[k] # "new"
                          /\ miner[k] = "off" => miner'[k] = "off"
  BY DEF TypeOK
<1>3. /\ wait' \in [Miner -> {"none", "LOGIN", "DATA"}]
      /\ forgot' \subseteq Miner /\ lapsed' \subseteq Miner /\ early' \subseteq Miner
  BY DEF TypeOK
<1>4. net' \subseteq Frame /\ \A g \in net' : g \in net \/ (g.type = "BYE" /\ g.on = f.on)
  BY <1>1 DEF TypeOK, Frame, Send, Registered
<1>5. TypeOK'
  BY <1>2, <1>3, <1>4 DEF TypeOK
<1>6. Origins'
  BY <1>2, <1>4, OriginsStep DEF Names
<1>7. QED
  BY <1>5, <1>6

LEMMA RecvAckStep ==
    ASSUME Inv, NEW f \in net, RecvAck(f)
    PROVE  Inv'
<1> USE DEF Inv, RecvAck, serverVars, linkVars
<1>1. TypeOK'
  BY DEF TypeOK
<1>2. Origins'
  BY DEF Origins, Names
<1>3. QED
  BY <1>1, <1>2

LEMMA RecvPingStep ==
    ASSUME Inv, NEW f \in net, RecvPing(f)
    PROVE  Inv'
<1> USE DEF Inv, RecvPing, Arrives, clientVars, serverVars, linkVars
<1> DEFINE unknown == f.who \ Registered
<1>1. f.who \subseteq Miner /\ Names(f)
  BY DEF TypeOK, Frame, Origins
<1>2. \A m \in unknown : miner[m] = "off"
  BY <1>1 DEF Names, Registered, TypeOK
<1>3. CASE unknown = {}
  <2>1. net' \subseteq net
    BY <1>3
  <2>2. QED
    BY <2>1 DEF TypeOK, Origins, Names
<1>4. CASE unknown # {}
  <2>1. /\ net' \subseteq Frame
        /\ \A g \in net' : g \in net \/ (g.type = "PONG" /\ g.who = unknown /\ g.on = f.on)
    <3>1. Answer(f, "PONG", unknown) /\ unknown \in SUBSET Miner
      BY <1>1, <1>4
    <3> HIDE DEF unknown
    <3>2. QED
      BY <3>1, AnswerFrame
  <2>2. TypeOK'
    BY <2>1 DEF TypeOK
  <2> HIDE DEF unknown
  <2>3. Origins'
    BY <1>2, <2>1 DEF Origins, Names
  <2>4. QED
    BY <2>2, <2>3
<1>5. QED
  BY <1>3, <1>4

-----------------------------------------------------------------------------
(* The steps of the server.                                                *)

\* A frame is taken and answered, or only taken; sessions of its miners change.
LEMMA TakeStep ==
    ASSUME Inv, NEW f \in net, UNCHANGED <<clientVars, loose, linkVars, off>>,
           session' \in [Miner -> {"none", "open", "closed"}],
           \A m \in Miner : session'[m] # "none" => session[m] # "none" \/ miner[m] # "new",
           used' \subseteq Miner, forgot' \subseteq Miner, lapsed' \subseteq Miner,
           early' \subseteq Miner,
           \/ net' = net \ {f}
           \/ \E type \in {"ACK", "CLOSE"}, who \in SUBSET Miner : Answer(f, type, who)
    PROVE  Inv'
<1> USE DEF Inv, clientVars, linkVars
<1>1. CASE net' = net \ {f}
  <2>1. TypeOK'
    BY <1>1 DEF TypeOK
  <2>2. Origins'
    BY <1>1, OriginsStep
  <2>3. QED
    BY <2>1, <2>2
<1>2. CASE \E type \in {"ACK", "CLOSE"}, who \in SUBSET Miner : Answer(f, type, who)
  <2>1. PICK type \in {"ACK", "CLOSE"}, who \in SUBSET Miner : Answer(f, type, who)
    BY <1>2
  <2>2. /\ net' \subseteq Frame
        /\ \A g \in net' : g \in net \/ (g.type = type /\ g.who = who /\ g.on = f.on)
    BY <2>1, AnswerFrame
  <2>3. TypeOK'
    BY <2>2 DEF TypeOK
  <2>4. \A g \in net' : g \in net \/ Names(g)'
    BY <2>2 DEF Names
  <2>5. Origins'
    BY <2>4, OriginsStep
  <2>6. QED
    BY <2>3, <2>5
<1>3. QED
  BY <1>1, <1>2

LEMMA RecvLoginStep ==
    ASSUME Inv, NEW f \in net, RecvLogin(f)
    PROVE  Inv'
<1> USE DEF Inv, RecvLogin, Arrives
<1>1. PICK m \in f.who :
          \/ m \in Open /\ Answer(f, "ACK", {m}) /\ UNCHANGED <<session, used, forgot>>
          \/ /\ m \notin Open
             /\ session' = [session EXCEPT ![m] = "open"]
             /\ used' = used \ {m}
             /\ forgot' = forgot \ {m}
             /\ Answer(f, "ACK", {m})
          \/ m \notin Open /\ Answer(f, "CLOSE", {m}) /\ UNCHANGED <<session, used, forgot>>
  OBVIOUS
<1>2. m \in Miner /\ miner[m] # "new"
  BY DEF TypeOK, Frame, Origins, Names
<1>3. session' \in [Miner -> {"none", "open", "closed"}]
  BY <1>1, <1>2 DEF TypeOK
<1>4. \A k \in Miner : session'[k] # "none" => session[k] # "none" \/ miner[k] # "new"
  BY <1>1, <1>2 DEF TypeOK
<1>5. /\ used' \subseteq Miner /\ forgot' \subseteq Miner
      /\ lapsed' \subseteq Miner /\ early' \subseteq Miner
  BY <1>1 DEF TypeOK, Registered
<1>6. \E type \in {"ACK", "CLOSE"}, who \in SUBSET Miner : Answer(f, type, who)
  BY <1>1, <1>2
<1>7. UNCHANGED <<clientVars, loose, linkVars, off>>
  OBVIOUS
<1> HIDE DEF RecvLogin, Inv
<1>8. QED
  BY <1>3, <1>4, <1>5, <1>6, <1>7, TakeStep

LEMMA RecvDataStep ==
    ASSUME Inv, NEW f \in net, RecvData(f)
    PROVE  Inv'
<1> USE DEF Inv, RecvData, Arrives
<1>1. f.who \in SUBSET Miner
  BY DEF TypeOK, Frame
<1>2. /\ session' = session /\ used' \subseteq Miner /\ forgot' \subseteq Miner
      /\ lapsed' \subseteq Miner /\ early' \subseteq Miner
  BY <1>1 DEF TypeOK
<1>3. session' \in [Miner -> {"none", "open", "closed"}]
  BY <1>2 DEF TypeOK
<1>4. \E type \in {"ACK", "CLOSE"}, who \in SUBSET Miner : Answer(f, type, who)
  BY <1>1
<1>5. UNCHANGED <<clientVars, loose, linkVars, off>>
  OBVIOUS
<1> HIDE DEF RecvData, Inv
<1>6. QED
  BY <1>2, <1>3, <1>4, <1>5, TakeStep

LEMMA RecvCloseStep ==
    ASSUME Inv, NEW f \in net, RecvBye(f) \/ RecvPong(f)
    PROVE  Inv'
<1> USE DEF Inv, RecvBye, RecvPong, Arrives
<1>1. PICK ms \in SUBSET Open : CloseSessions(ms)
  OBVIOUS
<1>2. session' \in [Miner -> {"none", "open", "closed"}]
  BY <1>1 DEF CloseSessions, TypeOK
<1>3. \A m \in Miner : session'[m] # "none" => session[m] # "none"
  BY <1>1 DEF CloseSessions, Open
<1>4. /\ used' \subseteq Miner /\ forgot' \subseteq Miner
      /\ lapsed' \subseteq Miner /\ early' \subseteq Miner
  BY <1>1 DEF CloseSessions, Registered, TypeOK
<1>5. net' = net \ {f} /\ UNCHANGED <<clientVars, loose, linkVars, off>>
  OBVIOUS
<1> HIDE DEF RecvBye, RecvPong, Inv
<1>6. QED
  BY <1>2, <1>3, <1>4, <1>5, TakeStep

LEMMA RecvInitStep ==
    ASSUME Inv, NEW t \in Tunnel, RecvInit(t)
    PROVE  Inv'
<1> USE DEF Inv, RecvInit, Send, clientVars, serverVars
<1>1. /\ net' \subseteq Frame
      /\ \A f \in net' : f \in net \/ (f.type = "CLOSE" /\ f.on = t)
  BY DEF TypeOK, Frame
<1>2. TypeOK'
  BY <1>1 DEF TypeOK, Registered
<1>3. Origins'
  BY <1>1, OriginsStep DEF Names
<1>4. QED
  BY <1>2, <1>3

LEMMA TickStep ==
    ASSUME Inv, NEW t \in Tunnel, Tick(t)
    PROVE  Inv'
<1> USE DEF Inv, Tick, Send, clientVars, serverVars, linkVars
<1>1. \A m \in Open : m \in Miner /\ miner[m] # "new"
  BY DEF Open, Origins
<1>2. Send("PING", Open, t) \in Frame
  BY DEF Frame, Open
<1>3. TypeOK'
  BY <1>2 DEF TypeOK
<1>4. \A f \in net' : f \in net \/ (f.type = "PING" /\ f.who = Open)
  OBVIOUS
<1>5. \A f \in net' : f \in net \/ Names(f)'
  BY <1>1, <1>4 DEF Names
<1>6. Origins'
  BY <1>5, OriginsStep
<1>7. QED
  BY <1>3, <1>6

LEMMA SessionEndsStep ==
    ASSUME Inv, NEW m \in Miner, SessionEnds(m)
    PROVE  Inv'
<1> USE DEF Inv, SessionEnds, CloseSessions, clientVars, linkVars
<1>1. /\ net' \subseteq Frame
      /\ \A f \in net' : f \in net \/ (f.type = "CLOSE" /\ f.who = {m} /\ link[f.on] # "down")
  BY SendsFrame
<1>2. /\ session' \in [Miner -> {"none", "open", "closed"}]
      /\ \A k \in Miner : session'[k] # "none" => session[k] # "none"
      /\ loose' \subseteq Miner
  BY DEF TypeOK, Open
<1>3. TypeOK'
  BY <1>1, <1>2 DEF TypeOK
<1>4. \A f \in net' : f \in net \/ Names(f)'
  BY <1>1 DEF Names
<1>5. Origins'
  BY <1>2, <1>4, OriginsStep
<1>6. QED
  BY <1>3, <1>5

LEMMA RestartStep ==
    ASSUME Inv, Restart
    PROVE  Inv'
BY DEF Inv, Restart, TypeOK, Origins, Registered, clientVars

\* The steps of the server that leave the frames alone, and of Show.
LEMMA QuietStep ==
    ASSUME Inv, \/ \E m \in Miner : PoolSpeaks(m) \/ Show(m)
                \/ \E shown \in BOOLEAN : ClientInfo(shown)
    PROVE  Inv'
<1> USE DEF Inv, clientVars, linkVars
<1>1. UNCHANGED <<clientVars, linkVars, net, forgot, early>> /\ lapsed' \subseteq Miner
  BY DEF PoolSpeaks, Show, ClientInfo, Delete, Lapse, history, TypeOK
<1>2. /\ session' \in [Miner -> {"none", "open", "closed"}]
      /\ \A k \in Miner : session'[k] # "none" => session[k] # "none"
  BY DEF PoolSpeaks, Show, ClientInfo, Delete, TypeOK
<1>3. used' \subseteq Miner /\ loose' \subseteq Miner /\ off' \subseteq Miner
  BY DEF PoolSpeaks, Show, ClientInfo, Delete, Open, Closed, TypeOK
<1>4. TypeOK'
  BY <1>1, <1>2, <1>3 DEF TypeOK
<1>5. Origins'
  BY <1>1, <1>2, OriginsStep
<1>6. QED
  BY <1>4, <1>5

-----------------------------------------------------------------------------
(* A miner past its LOGIN has a session, or had one.                       *)

Backed(m) == session[m] = "open" \/ m \in lapsed

\* What a frame says of the miners it names.
Vouches(f) ==
    /\ f.type = "ACK" => \A m \in f.who : miner[m] = "off" \/ Backed(m)
    /\ f.type = "DATA" => \A m, n \in f.who : m = n

Grounded ==
    /\ \A m \in Miner : miner[m] = "on" /\ wait[m] # "LOGIN" => Backed(m)
    /\ \A m \in lapsed : miner[m] = "on"
    /\ \A m \in loose : miner[m] = "off" \/ m \in lapsed
    /\ \A f \in net : Vouches(f)

\* Nobody loses the backing but by leaving.
Clings ==
    \A m \in Miner : /\ Backed(m) => Backed(m)' \/ miner'[m] = "off"
                     /\ miner[m] = "off" => miner'[m] = "off"
                     /\ m \in lapsed' => miner'[m] = "on"
                     /\ m \in lapsed => m \in lapsed' \/ miner'[m] = "off"
                     /\ m \in loose' => m \in loose \/ m \in lapsed' \/ miner'[m] = "off"

LEMMA GroundedStep ==
    ASSUME TypeOK, TypeOK', Grounded, Clings,
           \A m \in Miner : miner'[m] = "on" /\ wait'[m] # "LOGIN" =>
               \/ miner[m] = "on" /\ wait[m] # "LOGIN"
               \/ \E f \in net : f.type = "ACK" /\ m \in f.who,
           \A f \in net' : f \in net \/ Vouches(f)'
    PROVE  Grounded'
<1>1. \A f \in net : f.who \subseteq Miner
  BY DEF TypeOK, Frame
<1>2. \A m \in Miner : miner'[m] = "on" /\ wait'[m] # "LOGIN" => Backed(m)
  BY DEF Grounded, Vouches, Clings
<1>3. \A m \in Miner : miner'[m] = "on" /\ wait'[m] # "LOGIN" => Backed(m)'
  BY <1>2 DEF Clings
<1>4. \A m \in lapsed' : miner'[m] = "on"
  BY DEF Clings, TypeOK
<1>5. \A f \in net : Vouches(f)'
  BY <1>1 DEF Grounded, Vouches, Clings
<1>6. \A m \in loose' : miner'[m] = "off" \/ m \in lapsed'
  BY DEF Clings, Grounded, TypeOK
<1>7. QED
  BY <1>3, <1>4, <1>5, <1>6 DEF Grounded

\* A step of the server, and of nobody: the miners stay as they are.
LEMMA ServerGrounded ==
    ASSUME TypeOK, TypeOK', Grounded, UNCHANGED clientVars,
           \A m \in Miner : Backed(m) => Backed(m)' \/ miner[m] # "on",
           \A m \in Miner : session[m] # "none" => miner[m] # "new",
           lapsed \subseteq lapsed', lapsed' \subseteq lapsed \cup Registered,
           \A m \in loose' : m \in loose \/ m \in lapsed' \/ miner[m] = "off",
           \A f \in net' : f \in net \/ Vouches(f)'
    PROVE  Grounded'
<1>1. \A m \in Miner : Backed(m) => miner[m] # "new"
  BY DEF Backed, Grounded
<1>2. Clings
  BY <1>1 DEF Clings, clientVars, Grounded, Registered, TypeOK
<1>3. QED
  BY <1>2, GroundedStep DEF clientVars

LEMMA LinkGrounded ==
    ASSUME TypeOK, TypeOK', Origins, Grounded,
           \/ \E t \in Tunnel : Dials(t) \/ Breaks(t) \/ RecvInit(t) \/ Tick(t)
           \/ \E m \in Miner : PoolSpeaks(m)
           \/ \E f \in net : RecvPing(f)
    PROVE  Grounded'
<1> USE DEF Dials, Breaks, RecvInit, Tick, PoolSpeaks, RecvPing, serverVars
<1>1. UNCHANGED <<clientVars, session, lapsed>>
  OBVIOUS
<1>2. \A f \in net' : f \in net \/ f.type \in {"CLOSE", "PING", "PONG"}
  BY DEF Answer, Send
<1>3. \A f \in net' : f \in net \/ Vouches(f)'
  BY <1>2 DEF Vouches
<1>4. QED
  BY <1>1, <1>3, ServerGrounded DEF Origins, Backed

LEMMA MinerGrounded ==
    ASSUME Inv, TypeOK', Grounded,
           NEW m \in Miner, Accepts(m) \/ Speaks(m) \/ Resends(m) \/ Leaves(m)
    PROVE  Grounded'
<1> USE DEF Inv, Accepts, Speaks, Resends, Leaves, Close, clientVars, serverVars, linkVars
<1>1. \A f \in net' : f \in net \/ (f.type \in {"LOGIN", "DATA", "BYE"} /\ f.who = {m})
  BY DEF Sends, Send, TypeOK
<1>2. \A f \in net' : f \in net \/ Vouches(f)'
  BY <1>1 DEF Vouches
<1>3. session' = session /\ lapsed' \in {lapsed, lapsed \ {m}} /\ (lapsed' # lapsed => miner'[m] = "off")
  BY DEF TypeOK
<1>4. \A k \in Miner : /\ miner'[k] = "on" => miner[k] = "on" \/ k = m
                       /\ miner[k] = "off" => miner'[k] = "off"
                       /\ miner[k] = "on" => miner'[k] = "on" \/ (k = m /\ miner'[m] = "off" /\ m \notin lapsed')
  BY DEF TypeOK
<1>5. Clings
  BY <1>3, <1>4 DEF Clings, Backed, Grounded
<1>6. \A k \in Miner : miner'[k] = "on" /\ wait'[k] # "LOGIN" => miner[k] = "on" /\ wait[k] # "LOGIN"
  BY DEF TypeOK
<1>7. QED
  BY <1>2, <1>5, <1>6, GroundedStep

LEMMA RecvMandateGrounded ==
    ASSUME Inv, TypeOK', Grounded, NEW f \in net, RecvMandate(f)
    PROVE  Grounded'
<1> USE DEF Inv, RecvMandate, Arrives, Close, serverVars, linkVars
<1>1. \A g \in net' : g \in net \/ g.type = "BYE"
  BY DEF Send
<1>2. \A g \in net' : g \in net \/ Vouches(g)'
  BY <1>1 DEF Vouches
<1>3. Clings
  BY DEF Clings, Backed, Grounded, TypeOK
<1>4. \A k \in Miner : miner'[k] = "on" => miner[k] = "on" /\ wait'[k] = wait[k]
  BY DEF TypeOK
<1>5. QED
  BY <1>2, <1>3, <1>4, GroundedStep

LEMMA RecvAckGrounded ==
    ASSUME Inv, TypeOK', Grounded, NEW f \in net, RecvAck(f)
    PROVE  Grounded'
<1> USE DEF Inv, RecvAck, Arrives, serverVars
<1>1. Clings
  BY DEF Clings, Backed, Grounded
<1>2. \A k \in Miner : wait'[k] # "LOGIN" => wait[k] # "LOGIN" \/ k \in f.who
  BY DEF TypeOK
<1>3. QED
  BY <1>1, <1>2, GroundedStep

LEMMA RecvLoginGrounded ==
    ASSUME Inv, TypeOK', Grounded, NEW f \in net, RecvLogin(f)
    PROVE  Grounded'
<1> USE DEF Inv, RecvLogin, Arrives, clientVars
<1>1. PICK m \in f.who :
          \/ m \in Open /\ Answer(f, "ACK", {m}) /\ UNCHANGED session
          \/ session' = [session EXCEPT ![m] = "open"] /\ Answer(f, "ACK", {m})
          \/ Answer(f, "CLOSE", {m}) /\ UNCHANGED session
  OBVIOUS
<1>m. m \in Miner
  BY DEF TypeOK, Frame
<1>2. \A g \in net' : g \in net \/ (g.who = {m} /\ g.type \in {"ACK", "CLOSE"} /\ (g.type = "ACK" => session'[m] = "open"))
  BY <1>1, <1>m DEF Answer, Send, Open, TypeOK
<1>3. \A g \in net' : g \in net \/ Vouches(g)'
  BY <1>2 DEF Vouches, Backed
<1>4. lapsed' = lapsed /\ loose' = loose
  OBVIOUS
<1>5. \A k \in Miner : Backed(k) => Backed(k)'
  BY <1>1, <1>m, <1>4 DEF Backed, TypeOK
<1>6. QED
  BY <1>3, <1>4, <1>5, ServerGrounded DEF Origins

LEMMA RecvDataGrounded ==
    ASSUME Inv, TypeOK', Grounded, NEW f \in net, RecvData(f)
    PROVE  Grounded'
<1> USE DEF Inv, RecvData, Arrives
<1>1. UNCHANGED <<clientVars, session, lapsed>>
  OBVIOUS
<1>2. \A g \in net' : g \in net \/ (g.who = f.who /\ g.type \in {"ACK", "CLOSE"} /\ (g.type = "ACK" => f.who \subseteq Open))
  BY DEF Answer, Send
<1>3. \A g \in net' : g \in net \/ Vouches(g)'
  BY <1>1, <1>2 DEF Vouches, Backed, Open
<1>4. QED
  BY <1>1, <1>3, ServerGrounded DEF Origins, Backed

\* The steps in which sessions end or are lost.
LEMMA EndGrounded ==
    ASSUME Inv, TypeOK', Grounded,
           \/ \E f \in net : RecvBye(f) \/ RecvPong(f)
           \/ \E m \in Miner : SessionEnds(m) \/ Show(m)
           \/ \E shown \in BOOLEAN : ClientInfo(shown)
           \/ Restart
    PROVE  Grounded'
<1> USE DEF Inv
<1>1. UNCHANGED clientVars /\ (\A f \in net' : f \in net \/ f.type = "CLOSE")
  <2>1. CASE \E f \in net : RecvBye(f) \/ RecvPong(f)
    BY <2>1 DEF RecvBye, RecvPong
  <2>2. CASE \E m \in Miner : SessionEnds(m)
    BY <2>2 DEF SessionEnds, Sends, Send
  <2>3. CASE \/ \E m \in Miner : Show(m)
             \/ \E shown \in BOOLEAN : ClientInfo(shown)
             \/ Restart
    BY <2>3 DEF Show, ClientInfo, Restart
  <2>4. QED
    BY <2>1, <2>2, <2>3
<1>2. /\ \A k \in Miner : session[k] = "open" => \/ session'[k] = "open"
                                                 \/ k \in lapsed'
                                                 \/ k \notin Registered
      /\ lapsed \subseteq lapsed' /\ lapsed' \subseteq lapsed \cup Registered
      /\ \A k \in loose' : k \in loose \/ k \in lapsed' \/ (session[k] # "none" /\ k \notin Registered)
  <2>1. CASE \E f \in net : RecvBye(f) \/ RecvPong(f)
    BY <2>1 DEF RecvBye, RecvPong, CloseSessions, Open
  <2>2. CASE \E m \in Miner : SessionEnds(m)
    BY <2>2 DEF SessionEnds, CloseSessions, Open
  <2>3. CASE \E m \in Miner : Show(m)
    BY <2>3 DEF Show, Delete, TypeOK, Open
  <2>4. CASE \E shown \in BOOLEAN : ClientInfo(shown)
    BY <2>4 DEF ClientInfo, Open
  <2>5. CASE Restart
    BY <2>5 DEF Restart, Open
  <2>6. QED
    BY <2>1, <2>2, <2>3, <2>4, <2>5
<1>3. \A k \in Miner : Backed(k) => Backed(k)' \/ miner[k] # "on"
  BY <1>2 DEF Backed, Registered
<1>4. \A k \in loose' : k \in loose \/ k \in lapsed' \/ miner[k] = "off"
  BY <1>2 DEF Origins, Registered, TypeOK
<1>5. \A f \in net' : f \in net \/ Vouches(f)'
  BY <1>1 DEF Vouches
<1>6. QED
  BY <1>1, <1>2, <1>3, <1>4, <1>5, ServerGrounded DEF Origins

-----------------------------------------------------------------------------
(* The theorems.                                                           *)

LEMMA InvNext == Inv /\ [Next]_vars => Inv'
<1> SUFFICES ASSUME Inv, [Next]_vars PROVE Inv'
  OBVIOUS
<1>1. CASE \E t \in Tunnel : Dials(t) \/ Breaks(t) \/ RecvInit(t) \/ Tick(t)
  BY <1>1, LinkStep, RecvInitStep, TickStep
<1>2. CASE \E m \in Miner : \/ Accepts(m) \/ Speaks(m) \/ Resends(m) \/ Leaves(m)
                            \/ SessionEnds(m) \/ PoolSpeaks(m) \/ Show(m)
  BY <1>2, MinerStep, SessionEndsStep, QuietStep
<1>3. CASE \E f \in net : \/ RecvMandate(f) \/ RecvAck(f) \/ RecvPing(f)
                          \/ RecvLogin(f) \/ RecvData(f) \/ RecvBye(f) \/ RecvPong(f)
  BY <1>3, RecvMandateStep, RecvAckStep, RecvPingStep, RecvLoginStep, RecvDataStep, RecvCloseStep
<1>4. CASE Restart \/ \E shown \in BOOLEAN : ClientInfo(shown)
  BY <1>4, RestartStep, QuietStep
<1>5. CASE UNCHANGED vars
  BY <1>5 DEF vars, clientVars, serverVars, linkVars, history, Inv, TypeOK, Origins, Names
<1>6. QED
  BY <1>1, <1>2, <1>3, <1>4, <1>5 DEF Next

LEMMA GroundedNext == Inv /\ Inv' /\ Grounded /\ [Next]_vars => Grounded'
<1> SUFFICES ASSUME Inv, Inv', Grounded, [Next]_vars PROVE Grounded'
  OBVIOUS
<1>1. TypeOK /\ TypeOK' /\ Origins
  BY DEF Inv
<1>2. CASE \E t \in Tunnel : Dials(t) \/ Breaks(t) \/ RecvInit(t) \/ Tick(t)
  BY <1>1, <1>2, LinkGrounded
<1>3. CASE \E m \in Miner : \/ Accepts(m) \/ Speaks(m) \/ Resends(m) \/ Leaves(m)
                            \/ SessionEnds(m) \/ PoolSpeaks(m) \/ Show(m)
  BY <1>1, <1>3, MinerGrounded, EndGrounded, LinkGrounded
<1>4. CASE \E f \in net : \/ RecvMandate(f) \/ RecvAck(f) \/ RecvPing(f)
                          \/ RecvLogin(f) \/ RecvData(f) \/ RecvBye(f) \/ RecvPong(f)
  BY <1>1, <1>4, RecvMandateGrounded, RecvAckGrounded, LinkGrounded, RecvLoginGrounded,
     RecvDataGrounded, EndGrounded
<1>5. CASE Restart \/ \E shown \in BOOLEAN : ClientInfo(shown)
  BY <1>1, <1>5, EndGrounded
<1>6. CASE UNCHANGED vars
  BY <1>6 DEF vars, clientVars, serverVars, Grounded, Vouches, Backed
<1>7. QED
  BY <1>2, <1>3, <1>4, <1>5, <1>6 DEF Next

\* No frame names a miner it must not name.
THEOREM Invariant == Spec => []Inv
<1>1. Init => Inv
  BY InvInit
<1>2. Inv /\ [Next]_vars => Inv'
  BY InvNext
<1>3. QED
  BY <1>1, <1>2, PTL DEF Spec

\* The two registries of miners and the frames between them keep their types.
THEOREM TypeCorrect == Spec => []TypeOK
<1>1. Inv => TypeOK
  BY DEF Inv
<1>2. QED
  BY <1>1, Invariant, PTL

\* ping (server.go) closes no session of a miner that is connected, whatever was
\* lost, late or restarted before.
THEOREM Spared == Spec => PongSparesConnected
<1> DEFINE Spares == \A f \in net : RecvPong(f) =>
        \A m \in f.who : session[m] = "open" /\ session'[m] = "closed" => miner[m] = "off"
<1>1. Inv => Spares
  BY DEF Inv, Origins, Names, RecvPong, Arrives
<1>2. Spec => [][Spares]_vars
  BY <1>1, Invariant, PTL DEF Spec
<1>3. QED
  BY <1>2 DEF PongSparesConnected

\* A miner past its LOGIN had a session, and an ACK was sent for one.
THEOREM AlwaysGrounded == Spec => []Grounded
<1>1. Init => Grounded
  BY DEF Init, Grounded, Vouches
<1>2. QED
  BY <1>1, Invariant, GroundedNext, PTL DEF Spec

\* Whoever is past its LOGIN and told to hang up has lost its session.
LEMMA Emitted ==
    Inv /\ Grounded /\ Next =>
        \A f \in net' \ net : f.type = "CLOSE" =>
            \A m \in f.who : Serving(m) => m \in lapsed'
<1> SUFFICES ASSUME Inv, Grounded, Next, NEW f \in net' \ net, f.type = "CLOSE",
                    NEW m \in f.who, Serving(m)
             PROVE  m \in lapsed'
  OBVIOUS
<1> USE DEF Inv
<1>1. Inv'
  BY InvNext
<1>2. m \in Miner
  BY <1>1 DEF TypeOK, Frame
<1>3. Backed(m)
  BY <1>2 DEF Grounded, Serving
<1>4. CASE \E t \in Tunnel : RecvInit(t)
  BY <1>3, <1>4 DEF RecvInit, Send, Backed
<1>5. CASE \E g \in net : RecvLogin(g)
  <2>1. PICK g \in net : RecvLogin(g)
    BY <1>5
  <2>2. \E k \in g.who : k \notin Open /\ Answer(g, "CLOSE", {k})
    BY <2>1 DEF RecvLogin, Answer, Send
  <2>3. m \notin Open /\ lapsed' = lapsed
    BY <2>1, <2>2 DEF RecvLogin, Answer, Send
  <2>4. QED
    BY <1>2, <1>3, <2>3 DEF Backed, Open
<1>6. CASE \E g \in net : RecvData(g)
  <2>1. PICK g \in net : RecvData(g)
    BY <1>6
  <2>2. f.who = g.who /\ ~(g.who \subseteq Open) /\ lapsed' = lapsed /\ g.type = "DATA"
    BY <2>1 DEF RecvData, Arrives, Answer, Send
  <2>3. g.who = {m} /\ m \notin Open
    BY <2>2 DEF Grounded, Vouches
  <2>4. QED
    BY <1>2, <1>3, <2>2, <2>3 DEF Backed, Open
<1>7. CASE \E k \in Miner : SessionEnds(k)
  <2>1. PICK k \in Miner : SessionEnds(k)
    BY <1>7
  <2>2. k = m
    BY <2>1 DEF SessionEnds, Sends, Send
  <2>3. CASE m \in Open /\ CloseSessions({m})
    BY <1>2, <2>3 DEF CloseSessions, Registered, Serving
  <2>4. CASE m \in loose /\ lapsed' = lapsed
    BY <2>4 DEF Grounded, Serving
  <2>5. QED
    BY <2>1, <2>2, <2>3, <2>4 DEF SessionEnds
<1>8. CASE \E t \in Tunnel : Dials(t) \/ Breaks(t) \/ Tick(t)
  BY <1>8 DEF Dials, Breaks, Tick, Send
<1>9. CASE \E k \in Miner : Accepts(k) \/ Speaks(k) \/ Resends(k) \/ Leaves(k)
  <2>1. \E k \in Miner, type \in {"LOGIN", "DATA", "BYE"} : Sends(type, k)
    BY <1>9 DEF Accepts, Speaks, Resends, Leaves, TypeOK
  <2>2. QED
    BY <2>1 DEF Sends, Send
<1>10. CASE \/ \E k \in Miner : PoolSpeaks(k) \/ Show(k)
            \/ \E shown \in BOOLEAN : ClientInfo(shown)
            \/ Restart
  BY <1>10 DEF PoolSpeaks, Show, ClientInfo, Restart
<1>11. CASE \E g \in net : \/ RecvMandate(g) \/ RecvAck(g) \/ RecvPing(g)
                           \/ RecvBye(g) \/ RecvPong(g)
  BY <1>11 DEF RecvMandate, RecvAck, RecvPing, RecvBye, RecvPong, Answer, Send
<1>12. QED
  BY <1>4, <1>5, <1>6, <1>7, <1>8, <1>9, <1>10, <1>11 DEF Next

-----------------------------------------------------------------------------
(* What a CLOSE that is on the way has to do with the miners it names.     *)

Tale(f) ==
    \A m \in f.who :
        /\ f.type = "DATA" => miner[m] = "off" \/ Serving(m)
        /\ f.type = "CLOSE" => miner[m] = "off" \/ (miner[m] = "on" /\ m \in lapsed \cup early)

Told ==
    /\ \A f \in net : Tale(f)
    /\ \A t \in Tunnel : \A m \in listed[t] : miner[m] # "new"

\* What is said of a miner stays true until it leaves.
Stays ==
    \A m \in Miner :
        /\ miner[m] # "new" => miner'[m] # "new"
        /\ miner[m] = "off" => miner'[m] = "off"
        /\ Serving(m) => Serving(m)' \/ miner'[m] = "off"
        /\ miner[m] = "on" /\ m \in lapsed \cup early =>
              miner'[m] = "off" \/ (miner'[m] = "on" /\ m \in lapsed' \cup early')

LEMMA ToldStep ==
    ASSUME TypeOK, Told, Stays,
           \A f \in net' : f \in net \/ Tale(f)',
           \A t \in Tunnel : \A m \in listed'[t] : m \in listed[t] \/ miner'[m] # "new"
    PROVE  Told'
<1>1. \A f \in net : f.who \subseteq Miner /\ Tale(f)
  BY DEF TypeOK, Frame, Told
<1>2. \A f \in net : Tale(f)'
  BY <1>1 DEF Tale, Stays
<1>3. \A t \in Tunnel : \A m \in listed'[t] : miner'[m] # "new"
  BY DEF Told, Stays, TypeOK
<1>4. QED
  BY <1>2, <1>3 DEF Told

LEMMA ClientTold ==
    ASSUME Inv, Told,
           \/ \E m \in Miner : Accepts(m) \/ Speaks(m) \/ Resends(m) \/ Leaves(m)
           \/ \E f \in net : RecvMandate(f) \/ RecvAck(f)
    PROVE  Told'
<1> USE DEF Inv
<1>1. CASE \E m \in Miner : Accepts(m) \/ Speaks(m) \/ Resends(m) \/ Leaves(m)
  <2>1. PICK m \in Miner : Accepts(m) \/ Speaks(m) \/ Resends(m) \/ Leaves(m)
    BY <1>1
  <2> USE <2>1 DEF Accepts, Speaks, Resends, Leaves, Close, clientVars, linkVars
  <2>2. Stays
    BY DEF Stays, Serving, TypeOK
  <2>3. \A f \in net' : \/ f \in net
                        \/ f.type \in {"LOGIN", "BYE"}
                        \/ f.type = "DATA" /\ f.who = {m} /\ miner'[m] = "on" /\ wait'[m] = "DATA"
    BY DEF Sends, Send, TypeOK
  <2>4. \A f \in net' : f \in net \/ Tale(f)'
    BY <2>3 DEF Tale, Serving
  <2>5. listed' = listed
    OBVIOUS
  <2> HIDE <2>1
  <2>6. QED
    BY <2>2, <2>4, <2>5, ToldStep
<1>2. CASE \E f \in net : RecvMandate(f) \/ RecvAck(f)
  <2>1. PICK f \in net : RecvMandate(f) \/ RecvAck(f)
    BY <1>2
  <2> USE <2>1 DEF RecvMandate, RecvAck, Close, linkVars
  <2>2. Stays
    BY DEF Stays, Serving, TypeOK
  <2>3. \A g \in net' : g \in net \/ g.type = "BYE"
    BY DEF Send
  <2>4. \A g \in net' : g \in net \/ Tale(g)'
    BY <2>3 DEF Tale
  <2>5. listed' = listed
    OBVIOUS
  <2> HIDE <2>1
  <2>6. QED
    BY <2>2, <2>4, <2>5, ToldStep
<1>3. QED
  BY <1>1, <1>2

\* A step in which the server finds no session for some of ms, and says so.
LEMMA ServerTold ==
    ASSUME Inv, Grounded, Told, Next, UNCHANGED clientVars, early \subseteq early',
           lapsed \subseteq lapsed',
           \A t \in Tunnel : \A m \in listed'[t] : m \in listed[t] \/ miner[m] # "new",
           \A f \in net' \ net : f.type # "DATA",
           \A f \in net' \ net : f.type = "CLOSE" =>
               \A m \in f.who : \/ miner[m] = "off" \/ Serving(m)
                                \/ miner[m] = "on" /\ m \in lapsed' \cup early'
    PROVE  Told'
<1>1. Stays
  BY DEF Stays, Serving, clientVars
<1>2. \A f \in net' \ net : f.type = "CLOSE" => \A m \in f.who : Serving(m) => m \in lapsed'
  BY Emitted
<1>3. \A f \in net' : f \in net \/ Tale(f)'
  BY <1>2 DEF Tale, Serving, clientVars
<1>4. \A t \in Tunnel : \A m \in listed'[t] : m \in listed[t] \/ miner'[m] # "new"
  BY DEF clientVars
<1>5. QED
  BY <1>1, <1>3, <1>4, ToldStep DEF Inv

LEMMA ToldNext == Inv /\ Grounded /\ Told /\ [Next]_vars => Told'
<1> SUFFICES ASSUME Inv, Grounded, Told, [Next]_vars PROVE Told'
  OBVIOUS
<1> USE DEF Inv, clientVars, linkVars
<1>1. CASE UNCHANGED vars
  BY <1>1 DEF vars, serverVars, Told, Tale, Serving
<1>2. CASE Next /\ \E t \in Tunnel : RecvInit(t)
  <2>1. PICK t \in Tunnel : RecvInit(t)
    BY <1>2
  <2>2. \A u \in Tunnel : listed'[u] \subseteq listed[u]
    BY <2>1 DEF RecvInit, TypeOK
  <2>3. \A f \in net' \ net : /\ f.type = "CLOSE"
                              /\ f.who = {m \in listed[t] : session[m] = "none"}
    BY <2>1 DEF RecvInit, Send
  <2>4. early' = early \cup {m \in listed[t] \cap Registered : session[m] = "none" /\ wait[m] = "LOGIN"}
    BY <2>1 DEF RecvInit
  <2>5. \A m \in listed[t] : /\ miner[m] # "new"
                             /\ session[m] = "none" => \/ miner[m] = "off" \/ Serving(m)
                                                       \/ miner[m] = "on" /\ m \in early'
    BY <2>4 DEF Told, TypeOK, Registered, Serving
  <2>6. UNCHANGED <<clientVars, lapsed>>
    BY <2>1 DEF RecvInit
  <2>7. QED
    BY <1>2, <2>2, <2>3, <2>4, <2>5, <2>6, ServerTold
<1>3. CASE Next /\ \E f \in net : RecvLogin(f)
  <2>1. PICK f \in net : RecvLogin(f)
    BY <1>3
  <2>2. f.who \subseteq Miner /\ \A m \in f.who : miner[m] # "new"
    BY <2>1 DEF RecvLogin, Arrives, Origins, Names, TypeOK, Frame
  <2>3. UNCHANGED <<clientVars, lapsed, listed>> /\ early \subseteq early'
    BY <2>1 DEF RecvLogin
  <2>4. \A g \in net' \ net : \/ g.type = "ACK"
                              \/ /\ g.type = "CLOSE" /\ g.who \subseteq f.who
                                 /\ early' = early \cup {m \in g.who \cap Registered : wait[m] = "LOGIN"}
    BY <2>1 DEF RecvLogin, Answer, Send
  <2>5. \A g \in net' \ net : g.type = "CLOSE" =>
            \A m \in g.who : \/ miner[m] = "off" \/ Serving(m)
                             \/ miner[m] = "on" /\ m \in early'
    BY <2>2, <2>4 DEF TypeOK, Registered, Serving
  <2>6. QED
    BY <1>3, <2>3, <2>4, <2>5, ServerTold
<1>4. CASE Next /\ \E f \in net : RecvData(f)
  <2>1. PICK f \in net : RecvData(f)
    BY <1>4
  <2>2. \A m \in f.who : miner[m] = "off" \/ Serving(m)
    BY <2>1 DEF RecvData, Arrives, Told, Tale
  <2>3. UNCHANGED <<clientVars, lapsed, early, listed>>
    BY <2>1 DEF RecvData
  <2>4. \A g \in net' \ net : g.type # "DATA" /\ g.who = f.who
    BY <2>1 DEF RecvData, Answer, Send
  <2>5. QED
    BY <1>4, <2>2, <2>3, <2>4, ServerTold
<1>5. CASE Next /\ \E m \in Miner : SessionEnds(m)
  <2>1. PICK m \in Miner : SessionEnds(m)
    BY <1>5
  <2>2. UNCHANGED <<clientVars, early, listed>> /\ lapsed \subseteq lapsed'
    BY <2>1 DEF SessionEnds, CloseSessions
  <2>3. \A g \in net' \ net : g.type = "CLOSE" /\ g.who = {m}
    BY <2>1 DEF SessionEnds, Sends, Send
  <2>4. miner[m] = "off" \/ (miner[m] = "on" /\ m \in lapsed')
    <3>1. CASE m \in Open /\ CloseSessions({m})
      BY <3>1 DEF CloseSessions, Open, Registered, Origins, TypeOK
    <3>2. CASE m \in loose /\ lapsed' = lapsed
      BY <3>2 DEF Grounded
    <3>3. QED
      BY <2>1, <3>1, <3>2 DEF SessionEnds
  <2>5. QED
    BY <1>5, <2>2, <2>3, <2>4, ServerTold
<1>6. CASE Next /\ (\/ \E t \in Tunnel : Dials(t) \/ Breaks(t) \/ Tick(t)
                    \/ \E m \in Miner : PoolSpeaks(m) \/ Show(m)
                    \/ \E f \in net : RecvPing(f) \/ RecvBye(f) \/ RecvPong(f)
                    \/ Restart \/ \E shown \in BOOLEAN : ClientInfo(shown))
  <2>1. UNCHANGED <<clientVars, early>> /\ lapsed \subseteq lapsed'
    <3>1. CASE \E t \in Tunnel : Dials(t) \/ Breaks(t) \/ Tick(t)
      BY <3>1 DEF Dials, Breaks, Tick
    <3>2. CASE \E m \in Miner : PoolSpeaks(m) \/ Show(m)
      BY <3>2 DEF PoolSpeaks, Show, Delete
    <3>3. CASE \E f \in net : RecvPing(f) \/ RecvBye(f) \/ RecvPong(f)
      BY <3>3 DEF RecvPing, RecvBye, RecvPong, CloseSessions
    <3>4. CASE Restart \/ \E shown \in BOOLEAN : ClientInfo(shown)
      BY <3>4 DEF Restart, ClientInfo
    <3>5. QED
      BY <1>6, <3>1, <3>2, <3>3, <3>4
  <2>2. \A f \in net' \ net : f.type \in {"PING", "PONG"}
    <3>1. CASE \E t \in Tunnel : Dials(t) \/ Breaks(t) \/ Tick(t)
      BY <3>1 DEF Dials, Breaks, Tick, Send
    <3>2. CASE \E f \in net : RecvPing(f) \/ RecvBye(f) \/ RecvPong(f)
      BY <3>2 DEF RecvPing, RecvBye, RecvPong, Answer, Send
    <3>3. CASE \/ \E m \in Miner : PoolSpeaks(m) \/ Show(m)
               \/ Restart \/ \E shown \in BOOLEAN : ClientInfo(shown)
      BY <3>3 DEF PoolSpeaks, Show, Restart, ClientInfo
    <3>4. QED
      BY <1>6, <3>1, <3>2, <3>3
  <2>3. \A t \in Tunnel : listed'[t] \subseteq listed[t] \cup Registered
    <3>1. CASE \E t \in Tunnel : Dials(t) \/ Breaks(t) \/ Tick(t)
      BY <3>1 DEF Dials, Breaks, Tick, TypeOK
    <3>2. CASE \/ \E m \in Miner : PoolSpeaks(m) \/ Show(m)
               \/ \E f \in net : RecvPing(f) \/ RecvBye(f) \/ RecvPong(f)
               \/ Restart \/ \E shown \in BOOLEAN : ClientInfo(shown)
      BY <3>2 DEF PoolSpeaks, Show, RecvPing, RecvBye, RecvPong, Restart, ClientInfo
    <3>3. QED
      BY <1>6, <3>1, <3>2
  <2>4. \A t \in Tunnel : \A m \in listed'[t] : m \in listed[t] \/ miner[m] # "new"
    BY <2>3 DEF Registered
  <2>5. QED
    BY <1>6, <2>1, <2>2, <2>4, ServerTold
<1>7. CASE \/ \E m \in Miner : Accepts(m) \/ Speaks(m) \/ Resends(m) \/ Leaves(m)
           \/ \E f \in net : RecvMandate(f) \/ RecvAck(f)
  BY <1>7, ClientTold
<1>8. QED
  BY <1>1, <1>2, <1>3, <1>4, <1>5, <1>6, <1>7 DEF Next

\* No miner past its LOGIN is told to hang up whose session lives (init, proxy,
\* getOrCreateClient), and none hangs up on a CLOSE whose session lives, but for
\* one that was sent while its LOGIN was under way (NewServer of the client).
THEOREM Reasoned == Spec => CloseHasReason
<1> DEFINE Reason ==
             /\ \A f \in net' \ net : f.type = "CLOSE" =>
                   \A m \in f.who : Serving(m) => m \in lapsed'
             /\ \A f \in net : RecvMandate(f) =>
                   \A m \in f.who : Serving(m) => m \in lapsed \/ m \in early
<1>1. Told => \A f \in net : RecvMandate(f) =>
                   \A m \in f.who : Serving(m) => m \in lapsed \/ m \in early
  BY DEF Told, Tale, Serving, RecvMandate, Arrives
<1>2. Inv /\ Grounded /\ Told /\ [Next]_vars => [Reason]_vars
  BY <1>1, Emitted
<1>3. Init => Told
  BY DEF Init, Told
<1>4. Spec => []Told
  BY <1>3, ToldNext, Invariant, AlwaysGrounded, PTL DEF Spec
<1>5. Spec => [][Reason]_vars
  BY <1>2, <1>4, Invariant, AlwaysGrounded, PTL DEF Spec
<1>6. QED
  BY <1>5 DEF CloseHasReason
=============================================================================
