------------------------------ MODULE Registry ------------------------------
(***************************************************************************)
(* How the two registries of miners agree: `clients' of the client process *)
(* (proxy/client/client.go) and `clients' of the server (server.go).       *)
(*                                                                         *)
(*   client   registers a miner, sends LOGIN and DATA until they are       *)
(*            answered, CLOSE when the miner hangs up, and on each new     *)
(*            tunnel INIT with all the miners it has                       *)
(*   server   opens a session on LOGIN; answers INIT with CLOSE for the    *)
(*            miners it has not registered; Tick sends the open sessions   *)
(*            in a PING, the PONG names those to be closed                 *)
(*   Show     every minute walks the registry (ClientInfo), reports the    *)
(*            closed sessions as off line and deletes them; the web page   *)
(*            calls ClientInfo, too                                        *)
(*                                                                         *)
(* Frames arrive in any order, since each takes a tunnel of its own; but   *)
(* INIT is the first on its tunnel.  A tunnel that breaks takes its frames *)
(* along; a restart of the server breaks them all.  Inside a session there *)
(* is only what matters here: ServerSession and MinerClient have the rest. *)
(* connDelay is left out; a PONG never comes before the PING that sets it. *)
(***************************************************************************)
EXTENDS FiniteSets, Integers

CONSTANTS Miner,    \* bound: miner connections ever accepted; each has a new id
          Past,     \* those that logged in and left, and whose CLOSE was lost
          IpOf,     \* address of a miner
          Tunnel,
          InFlight  \* bound: frames on the way

ASSUME RegistryAssumption == Past \subseteq Miner /\ InFlight \in Nat \ {0}

VARIABLES
    miner,   \* at the client: "new", "on" (registered), "off"
    wait,    \* type of the miner's lastSendReq, "none" after an answer
    session, \* the server's entry: "none", "open", "closed"
    used,    \* entries with dataSize > 0
    loose,   \* miners with an open session that is in no registry
    link,    \* a tunnel: "down", "dialled" (INIT is on the way), "up"
    listed,  \* the miners in that INIT
    net,     \* frames on the way
    off,     \* closed sessions that Show found and has not reported yet
    forgot,  \* history: miners whose session a restart took
    lapsed,  \* history: registered miners whose session ended or was lost
    early    \* history: registered miners the server found no session of, and
             \* told to hang up, while their LOGIN was under way

clientVars == <<miner, wait>>
serverVars == <<session, used, loose>>
linkVars   == <<link, listed>>
history    == <<forgot, lapsed, early>>
vars == <<clientVars, serverVars, linkVars, net, off, history>>

\* ERROR counts as CLOSE, the answer to LOGIN as ACK: so the client takes them.
Frame == [type : {"LOGIN", "DATA", "BYE", "ACK", "CLOSE", "PING", "PONG"},
          who : SUBSET Miner, on : Tunnel]

TypeOK ==
    /\ miner \in [Miner -> {"new", "on", "off"}]
    /\ wait \in [Miner -> {"none", "LOGIN", "DATA"}]
    /\ session \in [Miner -> {"none", "open", "closed"}]
    /\ used \subseteq Miner /\ loose \subseteq Miner
    /\ forgot \subseteq Miner /\ lapsed \subseteq Miner /\ early \subseteq Miner
    /\ link \in [Tunnel -> {"down", "dialled", "up"}]
    /\ listed \in [Tunnel -> SUBSET Miner]
    /\ net \subseteq Frame
    /\ \A f \in net : link[f.on] # "down"
    /\ off \subseteq Miner

Init ==
    /\ miner = [m \in Miner |-> IF m \in Past THEN "off" ELSE "new"]
    /\ wait = [m \in Miner |-> "none"]
    /\ session = [m \in Miner |-> IF m \in Past THEN "open" ELSE "none"]
    /\ used \in SUBSET Past /\ loose = {}
    /\ link = [t \in Tunnel |-> "down"]
    /\ listed = [t \in Tunnel |-> {}]
    /\ net = {}
    /\ off = {}
    /\ forgot = {} /\ lapsed = {} /\ early = {}

-----------------------------------------------------------------------------
(* Tunnels.                                                                *)

Registered == {m \in Miner : miner[m] = "on"}

\* NewServer; INIT names the miners registered by then.
Dials(t) ==
    /\ link[t] = "down"
    /\ link' = [link EXCEPT ![t] = "dialled"]
    /\ listed' = [listed EXCEPT ![t] = Registered]
    /\ UNCHANGED <<clientVars, serverVars, net, off, history>>

Breaks(t) ==
    /\ link[t] # "down"
    /\ link' = [link EXCEPT ![t] = "down"]
    /\ listed' = [listed EXCEPT ![t] = {}]
    /\ net' = {f \in net : f.on # t}
    /\ UNCHANGED <<clientVars, serverVars, off, history>>

Send(type, who, t) == [type |-> type, who |-> who, on |-> t]

Room == Cardinality(net) < InFlight

\* Mutant: a tunnel that is down is taken, too.
SendsBlindly(type, m) ==
    \/ net' = net
    \/ Room /\ \E t \in Tunnel : net' = net \cup {Send(type, {m}, t)}

\* A frame of either side takes any tunnel, or is lost with one.
Sends(type, m) ==
    \/ net' = net
    \/ Room /\ \E t \in Tunnel : link[t] # "down" /\ net' = net \cup {Send(type, {m}, t)}

\* The server sees no frame of a tunnel before its INIT.
Arrives(f, type) == f \in net /\ f.type = type /\ link[f.on] = "up"

Answer(f, type, who) == net' = (net \ {f}) \cup {Send(type, who, f.on)}

-----------------------------------------------------------------------------
(* A miner at the client.                                                  *)

\* newClient: clients.Store, then Login.
Accepts(m) ==
    /\ miner[m] = "new"
    /\ miner' = [miner EXCEPT ![m] = "on"]
    /\ wait' = [wait EXCEPT ![m] = "LOGIN"]
    /\ Sends("LOGIN", m)
    /\ UNCHANGED <<serverVars, linkVars, off, history>>

\* Run reads the miner.
Speaks(m) ==
    /\ miner[m] = "on" /\ wait[m] = "none"
    /\ wait' = [wait EXCEPT ![m] = "DATA"]
    /\ Sends("DATA", m)
    /\ UNCHANGED <<miner, serverVars, linkVars, off, history>>

\* SendTryLastRequest, 3 s later; an attempt that fails is no step.
Resends(m) ==
    /\ miner[m] = "on" /\ wait[m] # "none"
    /\ Sends(wait[m], m) /\ net' # net
    /\ UNCHANGED <<clientVars, serverVars, linkVars, off, history>>

Close(ms) ==
    /\ miner' = [m \in Miner |-> IF m \in ms /\ miner[m] = "on" THEN "off" ELSE miner[m]]
    /\ wait' = [m \in Miner |-> IF m \in ms THEN "none" ELSE wait[m]]
    /\ forgot' = forgot \ ms
    /\ lapsed' = lapsed \ ms
    /\ early' = early \ ms

\* The miner hangs up, or the send of LOGIN or DATA failed.
Leaves(m) ==
    /\ miner[m] = "on"
    /\ Close({m})
    /\ Sends("BYE", m)
    /\ UNCHANGED <<serverVars, linkVars, off>>

\* ERROR or CLOSE.  Run, if it is reading the miner, says CLOSE to the server.
RecvMandate(f) ==
    /\ Arrives(f, "CLOSE")
    /\ Close(f.who)
    /\ \E bye \in SUBSET (f.who \cap Registered) :
          net' = (net \ {f}) \cup {Send("BYE", {m}, f.on) : m \in bye}
    /\ UNCHANGED <<serverVars, linkVars, off>>

\* SetReady.
RecvAck(f) ==
    /\ Arrives(f, "ACK")
    /\ wait' = [m \in Miner |-> IF m \in f.who THEN "none" ELSE wait[m]]
    /\ net' = net \ {f}
    /\ UNCHANGED <<miner, serverVars, linkVars, off, history>>

\* Mutant: a miner counts when its LOGIN was answered.
RecvPingEarly(f) ==
    /\ Arrives(f, "PING")
    /\ LET unknown == {m \in f.who : m \notin Registered \/ wait[m] = "LOGIN"}
       IN  IF unknown = {} THEN net' = net \ {f} ELSE Answer(f, "PONG", unknown)
    /\ UNCHANGED <<clientVars, serverVars, linkVars, off, history>>

\* A PONG that names nobody changes nothing.
RecvPing(f) ==
    /\ Arrives(f, "PING")
    /\ LET unknown == f.who \ Registered
       IN  IF unknown = {} THEN net' = net \ {f} ELSE Answer(f, "PONG", unknown)
    /\ UNCHANGED <<clientVars, serverVars, linkVars, off, history>>

-----------------------------------------------------------------------------
(* The server.                                                             *)

Open == {m \in Miner : session[m] = "open"}

\* The sessions of ms end or are lost.
Lapse(ms) == lapsed' = lapsed \cup (ms \cap Open \cap Registered)

\* ms are told to hang up, for they have no session.
Tell(ms) == early' = early \cup {m \in ms \cap Registered : wait[m] = "LOGIN"}

CloseSessions(ms) ==
    /\ session' = [m \in Miner |-> IF m \in ms THEN "closed" ELSE session[m]]
    /\ Lapse(ms)

\* Mutant: the answer does not wait for the pool.
RecvLoginBlind(f) ==
    /\ Arrives(f, "LOGIN")
    /\ \E m \in f.who : /\ session' \in {session, [session EXCEPT ![m] = "open"]}
                        /\ Answer(f, "ACK", {m})
    /\ UNCHANGED <<clientVars, used, loose, linkVars, off, history>>

\* login: an open session is kept; else the pool is dialled.
RecvLogin(f) ==
    /\ Arrives(f, "LOGIN")
    /\ \E m \in f.who :
          \/ m \in Open /\ Answer(f, "ACK", {m}) /\ UNCHANGED <<session, used, history>>
          \/ /\ m \notin Open
             /\ session' = [session EXCEPT ![m] = "open"]
             /\ used' = used \ {m}
             /\ forgot' = forgot \ {m} /\ UNCHANGED <<lapsed, early>>
             /\ Answer(f, "ACK", {m})
          \/ /\ m \notin Open
             /\ Answer(f, "CLOSE", {m}) /\ Tell({m})
             /\ UNCHANGED <<session, used, forgot, lapsed>>
    /\ UNCHANGED <<clientVars, loose, linkVars, off>>

\* Mutant: without a session there is no answer.
RecvDataSilently(f) ==
    /\ Arrives(f, "DATA")
    /\ IF f.who \subseteq Open
       THEN used' = used \cup f.who /\ Answer(f, "ACK", f.who)
       ELSE net' = net \ {f} /\ UNCHANGED used
    /\ UNCHANGED <<clientVars, session, loose, linkVars, off, history>>

\* proxy: an ERROR asks for a LOGIN.
RecvData(f) ==
    /\ Arrives(f, "DATA")
    /\ IF f.who \subseteq Open
       THEN used' = used \cup f.who /\ Answer(f, "ACK", f.who)
       ELSE Answer(f, "CLOSE", f.who) /\ UNCHANGED used
    /\ UNCHANGED <<clientVars, session, loose, linkVars, off, history>>

RecvBye(f) ==
    /\ Arrives(f, "BYE")
    /\ CloseSessions(f.who \cap Open)
    /\ net' = net \ {f}
    /\ UNCHANGED <<clientVars, used, loose, linkVars, off, forgot, early>>

\* Mutant: the list is not looked at.
RecvInitOnly(t) ==
    /\ link[t] = "dialled"
    /\ link' = [link EXCEPT ![t] = "up"]
    /\ listed' = [listed EXCEPT ![t] = {}]
    /\ UNCHANGED <<clientVars, serverVars, net, off, history>>

\* init: a closed session that is still registered counts.
RecvInit(t) ==
    /\ link[t] = "dialled"
    /\ link' = [link EXCEPT ![t] = "up"]
    /\ listed' = [listed EXCEPT ![t] = {}]
    /\ LET closeMiner == {m \in listed[t] : session[m] = "none"}
       IN  /\ net' = net \cup (IF closeMiner = {} THEN {} ELSE {Send("CLOSE", closeMiner, t)})
           /\ Tell(closeMiner)
    /\ UNCHANGED <<clientVars, serverVars, off, forgot, lapsed>>

\* Mutant: the sessions that are closed are sent.
TickClosed(t) ==
    /\ link[t] = "up" /\ Room
    /\ \A f \in net : f.type \notin {"PING", "PONG"}
    /\ LET clientMap == {m \in Miner : session[m] = "closed"}
       IN  clientMap # {} /\ net' = net \cup {Send("PING", clientMap, t)}
    /\ UNCHANGED <<clientVars, serverVars, linkVars, off, history>>

\* Tick.  A session closed while Tick collects the list is as one closed while
\* the PING is on the way.  A PING is answered long before the next one.
Tick(t) ==
    /\ link[t] = "up" /\ Room
    /\ \A f \in net : f.type \notin {"PING", "PONG"}
    /\ Open # {} /\ net' = net \cup {Send("PING", Open, t)}
    /\ UNCHANGED <<clientVars, serverVars, linkVars, off, history>>

\* ping: it takes the list from its head, and returns at the first miner whose
\* session is not open.
RecvPong(f) ==
    /\ Arrives(f, "PONG")
    /\ \E head \in SUBSET (f.who \cap Open) :
          /\ f.who \subseteq Open => head = f.who
          /\ CloseSessions(head)
    /\ net' = net \ {f}
    /\ UNCHANGED <<clientVars, used, loose, linkVars, off, forgot, early>>

\* The dispatch goroutine of a session ends: the pool hung up, or a send to the
\* client failed.  It may have sent a CLOSE.
SessionEnds(m) ==
    /\ \/ m \in Open /\ CloseSessions({m}) /\ UNCHANGED loose
       \/ m \in loose /\ loose' = loose \ {m} /\ UNCHANGED <<session, lapsed>>
    /\ Sends("CLOSE", m)
    /\ UNCHANGED <<clientVars, used, linkVars, off, forgot, early>>

\* A chunk of the pool was sent to the client.
PoolSpeaks(m) ==
    /\ m \in Open
    /\ used' = used \cup {m}
    /\ UNCHANGED <<clientVars, session, loose, linkVars, net, off, history>>

\* The server process ends and is started again.
Restart ==
    /\ session' = [m \in Miner |-> "none"]
    /\ used' = {} /\ loose' = {}
    /\ link' = [t \in Tunnel |-> "down"]
    /\ listed' = [t \in Tunnel |-> {}]
    /\ net' = {}
    /\ off' = {}
    /\ forgot' = forgot \cup {m \in Registered : session[m] # "none"}
    /\ Lapse(Miner)
    /\ UNCHANGED <<clientVars, early>>

-----------------------------------------------------------------------------
(* ClientInfo and Show, in a goroutine of their own.                       *)

Closed == {m \in Miner : session[m] = "closed"}

Connected == \E t \in Tunnel : link[t] = "up"

\* clients.Delete(key), whatever the entry is by now.
Delete(m) ==
    /\ loose' = IF m \in Open THEN loose \cup {m} ELSE loose
    /\ session' = [session EXCEPT ![m] = "none"]
    /\ Lapse({m})
    /\ used' = used \ {m}

\* ClientInfo visits the entries in any order.  A closed one is deleted if one
\* of its address that is on line was visited before, any if 30 s passed
\* without data.  An entry that changes meanwhile is as one that changes before
\* or after, but for the race of Delete, which Show has, too.  A web page does
\* no more; Show goes on with the clients that have an entry in conns.
ClientInfo(shown) ==
    /\ off = {}
    /\ \E gone \in SUBSET {m \in Miner : session[m] # "none"} :
          /\ gone # {} \/ Closed # {}
          /\ \A m \in gone : m \in used =>
                m \in Closed /\ \E n \in Open \ gone : IpOf[n] = IpOf[m]
          /\ session' = [m \in Miner |-> IF m \in gone THEN "none" ELSE session[m]]
          /\ used' = used \ gone
          /\ loose' = loose \cup (gone \cap Open)
          /\ Lapse(gone)
          /\ off' = IF shown /\ Connected THEN Closed \ gone ELSE {}
    /\ UNCHANGED <<clientVars, linkVars, net, forgot, early>>

\* Mutant: the entry stays.
ShowKeeps(m) ==
    /\ m \in off
    /\ off' = off \ {m}
    /\ UNCHANGED <<clientVars, serverVars, linkVars, net, history>>

\* Show: reported as off line, and deleted.
Show(m) ==
    /\ m \in off
    /\ off' = off \ {m}
    /\ Delete(m)
    /\ UNCHANGED <<clientVars, linkVars, net, forgot, early>>

-----------------------------------------------------------------------------
Next ==
    \/ \E t \in Tunnel : Dials(t) \/ Breaks(t) \/ RecvInit(t) \/ Tick(t)
    \/ \E m \in Miner : \/ Accepts(m) \/ Speaks(m) \/ Resends(m) \/ Leaves(m)
                        \/ SessionEnds(m) \/ PoolSpeaks(m) \/ Show(m)
    \/ \E f \in net : \/ RecvMandate(f) \/ RecvAck(f) \/ RecvPing(f)
                      \/ RecvLogin(f) \/ RecvData(f) \/ RecvBye(f) \/ RecvPong(f)
    \/ Restart \/ \E shown \in BOOLEAN : ClientInfo(shown)

Spec == Init /\ [][Next]_vars

\* Every goroutine runs, and a frame that is not lost arrives; what is sent again
\* and again is not lost every time.
Fairness ==
    /\ \A t \in Tunnel : WF_vars(Dials(t)) /\ WF_vars(RecvInit(t)) /\ SF_vars(Tick(t))
    /\ \A m \in Miner :
          /\ SF_vars(Resends(m))
          /\ WF_vars(\E f \in net : m \in f.who /\ (RecvLogin(f) \/ RecvData(f) \/ RecvBye(f)))
          /\ WF_vars(\E f \in net : m \in f.who /\ (RecvAck(f) \/ RecvMandate(f)))
    /\ WF_vars(\E f \in net : RecvPing(f)) /\ WF_vars(\E f \in net : RecvPong(f))
    /\ WF_vars(ClientInfo(TRUE) \/ \E m \in Miner : Show(m))

\* The last tunnel breaks and the last restart comes some day.
Calm == <>[][~Restart /\ \A t \in Tunnel : ~Breaks(t)]_vars

FairSpec == Spec /\ Fairness /\ Calm

-----------------------------------------------------------------------------
(* Properties.                                                             *)

\* A PONG, however late, closes no session of a miner that is connected.
PongSparesConnected ==
    [][\A f \in net : RecvPong(f) =>
          \A m \in f.who : session[m] = "open" /\ session'[m] = "closed" => miner[m] = "off"]_vars

Serving(m) == miner[m] = "on" /\ wait[m] # "LOGIN"

\* The server tells a miner past its LOGIN to hang up (init, proxy, login, the
\* dispatch goroutine) only if its session ended or was lost; and the client
\* hangs up on one (NewServer) only for that, or for a CLOSE that was sent before
\* the LOGIN was answered.  That one is real, and may be late: a new tunnel's
\* INIT lists the miner before its LOGIN arrived, and the CLOSE in reply meets
\* a miner whose session lives by then.  Nothing else does that: no frame that was
\* lost, is late or was sent twice.
CloseHasReason ==
    [][/\ \A f \in net' \ net : f.type = "CLOSE" =>
             \A m \in f.who : Serving(m) => m \in lapsed'
       /\ \A f \in net : RecvMandate(f) =>
             \A m \in f.who : Serving(m) => m \in lapsed \/ m \in early]_vars

\* A session whose miner left is closed, when the CLOSE was lost, too (Tick and
\* ping; the early return only delays it), or swept.
LeftMinerEnds ==
    \A m \in Miner :
        (session[m] = "open" /\ miner[m] = "off") ~> session[m] # "open"

\* A request is answered, or the miner is told that its session is gone: after a
\* lost frame, an end of the session, a sweep, a restart of the server.
RequestAnswered ==
    \A m \in Miner : wait[m] # "none" ~> wait[m] = "none"

\* A miner whose session was lost in a restart is disconnected, or logs in anew,
\* even if it says nothing (init).
RestartNoticed ==
    \A m \in Miner : m \in forgot ~> m \notin forgot

\* A session that ended leaves the registry (ClientInfo and Show).
EndedLeaves ==
    \A m \in Miner : session[m] = "closed" ~> session[m] # "closed"
=============================================================================
