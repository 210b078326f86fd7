------------------------------ MODULE Dispatch ------------------------------
(***************************************************************************)
(* The server's tables of tunnels (proxy/server/client.go and the handlers *)
(* of server.go): conns finds the ClientDispatch of a client, which lists  *)
(* its tunnels twice, in the sync.Map conns and in the slice connIds;      *)
(* connId2Id names the client of a tunnel.  Working on them are            *)
(*                                                                         *)
(*   loop     the gnet event loop: React decodes the first frame of a      *)
(*            tunnel and runs init; OnClosed runs when a connection ended  *)
(*   tick     Tick, every 20 s, in a goroutine of its own                  *)
(*   senders  the dispatch goroutines of the sessions, in SendToClient     *)
(*                                                                         *)
(* A ClientDispatch is named after the tunnel whose INIT created it.       *)
(* Frames other than INIT change none of these tables.                     *)
(***************************************************************************)
EXTENDS Codec

CONSTANTS Conn,       \* bound: tunnels ever accepted
          Client,     \* client processes, by ClientId
          ClientOf,   \* whose tunnel it is
          Downloaded, \* clients started by the script of the server's page
          Sender,     \* goroutines in SendToClient
          ServesFor,  \* the client a sender's session belongs to
          Flags,      \* values of the server's flag -k
          Bodies,     \* byte strings of INIT
          Counts,     \* values of the client's confusion counter
          None

ASSUME DispatchAssumption ==
    /\ ClientOf \in [Conn -> Client]
    /\ ServesFor \in [Sender -> Client]
    /\ Downloaded \subseteq Client
    /\ None \notin Conn
    /\ Zero \in STRING /\ Flags \subseteq Seq(STRING)
    /\ \A f \in Flags : Len(f) <= MaxKey
    /\ Bodies \subseteq Seq(0..255) /\ Counts \subseteq Nat

VARIABLES
    tunnel,    \* "new", "up", "in" (INIT handled), "gone" (ended), "closed"
    conns,     \* ClientId -> ClientDispatch
    table,     \* ClientDispatch.conns
    ids,       \* ClientDispatch.connIds
    connId2Id, \* tunnels with an entry; its value is ClientOf
    loop,      \* where the event loop stands
    lt, ld,    \* the tunnel and the dispatch it works on
    body, got, \* the INIT a client wrote, and what DecryptData made of it
    tick,      \* where Tick stands
    te, td, tx,\* the entry it visits, the dispatch, a tunnel it removes
    send,      \* where a sender stands
    sd, sc,    \* the dispatch and the tunnel it got
    flag,      \* the server's flag -k
    orphan     \* history: dispatches that Tick took out of conns

tableVars == <<conns, table, ids, connId2Id>>
loopVars  == <<loop, lt, ld, body, got>>
tickVars  == <<tick, te, td, tx>>
sendVars  == <<send, sd, sc>>
vars == <<tunnel, tableVars, loopVars, tickVars, sendVars, flag, orphan>>

OrNone == Conn \cup {None}

TypeOK ==
    /\ tunnel \in [Conn -> {"new", "up", "in", "gone", "closed"}]
    /\ conns \in [Client -> OrNone]
    /\ table \in [Conn -> SUBSET Conn]
    /\ ids \in [Conn -> SUBSET Conn]
    /\ connId2Id \in SUBSET Conn
    /\ loop \in {"idle", "refuse", "admit", "store", "append", "enter",
                 "drop", "unlist", "count", "forget"}
    /\ lt \in OrNone /\ ld \in OrNone
    /\ loop \in {"idle", "refuse", "admit"} <=> ld = None
    /\ tick \in {"idle", "load", "count", "hide", "forget", "range",
                 "unstore", "unlist"}
    /\ te \in OrNone /\ td \in OrNone /\ tx \in OrNone
    /\ send \in [Sender -> {"load", "get", "write"}]
    /\ sd \in [Sender -> OrNone] /\ sc \in [Sender -> OrNone]
    /\ orphan \in SUBSET Conn

Init ==
    /\ tunnel = [t \in Conn |-> "new"]
    /\ conns = [c \in Client |-> None]
    /\ table = [d \in Conn |-> {}] /\ ids = [d \in Conn |-> {}]
    /\ connId2Id = {}
    /\ loop = "idle" /\ lt = None /\ ld = None
    /\ body = << >> /\ got = << >>
    /\ tick = "idle" /\ te = None /\ td = None /\ tx = None
    /\ send = [s \in Sender |-> "load"]
    /\ sd = [s \in Sender |-> None] /\ sc = [s \in Sender |-> None]
    /\ flag \in Flags
    /\ orphan = {}

-----------------------------------------------------------------------------
(* Connections.                                                            *)

\* NewServer of a client: dial, and INIT is written.  A script without a key
\* starts no client, but a server.
Connects(t) ==
    /\ tunnel[t] = "new"
    /\ ClientOf[t] \in Downloaded => ~ LosesKey(flag)
    /\ tunnel' = [tunnel EXCEPT ![t] = "up"]
    /\ UNCHANGED <<tableVars, loopVars, tickVars, sendVars, flag, orphan>>

\* The connection breaks, or the client closes it.
Ends(t) ==
    /\ tunnel[t] \in {"up", "in"}
    /\ ~(loop # "idle" /\ lt = t /\ tunnel[t] = "up")
    /\ tunnel' = [tunnel EXCEPT ![t] = "gone"]
    /\ UNCHANGED <<tableVars, loopVars, tickVars, sendVars, flag, orphan>>

-----------------------------------------------------------------------------
(* React and init, in the event loop.                                      *)

ServerKey == PadKey(flag)

ClientKey(c) == PadKey(IF c \in Downloaded THEN DownloadKey(flag) ELSE flag)

\* WriteFrame of a client.
WriteFrame(c, count, b) == EncryptionData(ClientKey(c), count, b)

\* Mutant: INIT is repeated on a tunnel.
ReactAgain(t) ==
    /\ loop = "idle" /\ tunnel[t] \in {"up", "in"}
    /\ lt' = t
    /\ \E b \in Bodies, count \in Counts :
          LET frame == WriteFrame(ClientOf[t], count, b)
          IN  IF DecryptFails(ServerKey, frame)
              THEN loop' = "refuse" /\ UNCHANGED <<body, got>>
              ELSE /\ loop' = "admit"
                   /\ body' = b
                   /\ got' = DecryptData(ServerKey, frame)
    /\ UNCHANGED <<tunnel, tableVars, ld, tickVars, sendVars, flag, orphan>>

\* Protocol.Decode, then React: it ends in init, for INIT is the first frame.
React(t) ==
    /\ loop = "idle" /\ tunnel[t] = "up"
    /\ lt' = t
    /\ \E b \in Bodies, count \in Counts :
          LET frame == WriteFrame(ClientOf[t], count, b)
          IN  IF DecryptFails(ServerKey, frame)
              THEN loop' = "refuse" /\ UNCHANGED <<body, got>>
              ELSE /\ loop' = "admit"
                   /\ body' = b
                   /\ got' = DecryptData(ServerKey, frame)
    /\ UNCHANGED <<tunnel, tableVars, ld, tickVars, sendVars, flag, orphan>>

\* gnet drops a frame its codec refuses; bytes that decode to no request make
\* React close the connection.
Refuse ==
    /\ loop = "refuse"
    /\ \E end \in {"in", "gone"} : tunnel' = [tunnel EXCEPT ![lt] = end]
    /\ loop' = "idle" /\ lt' = None
    /\ UNCHANGED <<tableVars, ld, body, got, tickVars, sendVars, flag, orphan>>

\* conns.LoadOrStore.
InitLoads ==
    /\ loop = "admit"
    /\ LET c == ClientOf[lt]
       IN  /\ ld' = IF conns[c] = None THEN lt ELSE conns[c]
           /\ conns' = [conns EXCEPT ![c] = ld']
    /\ loop' = "store"
    /\ body' = << >> /\ got' = << >>
    /\ UNCHANGED <<tunnel, table, ids, connId2Id, lt, tickVars, sendVars, flag, orphan>>

\* Mutant: SetConn appends before it stores.
InitStoresNothing ==
    /\ loop = "store"
    /\ loop' = "append"
    /\ UNCHANGED <<tunnel, tableVars, lt, ld, body, got, tickVars, sendVars, flag, orphan>>

\* SetConn: conns.Store.
InitStores ==
    /\ loop = "store"
    /\ table' = [table EXCEPT ![ld] = @ \cup {lt}]
    /\ loop' = "append"
    /\ UNCHANGED <<tunnel, conns, ids, connId2Id, lt, ld, body, got, tickVars, sendVars, flag,
                   orphan>>

\* SetConn: the append, under m.
InitAppends ==
    /\ loop = "append"
    /\ ids' = [ids EXCEPT ![ld] = @ \cup {lt}]
    /\ loop' = "enter"
    /\ UNCHANGED <<tunnel, conns, table, connId2Id, lt, ld, body, got, tickVars, sendVars, flag,
                   orphan>>

\* connId2Id.Store, and the answer.
InitEnters ==
    /\ loop = "enter"
    /\ connId2Id' = connId2Id \cup {lt}
    /\ tunnel' = [tunnel EXCEPT ![lt] = "in"]
    /\ loop' = "idle" /\ lt' = None /\ ld' = None
    /\ UNCHANGED <<conns, table, ids, body, got, tickVars, sendVars, flag, orphan>>

-----------------------------------------------------------------------------
(* OnClosed, in the event loop.                                            *)

\* Mutant: a client without a dispatch is not expected.
OnClosedAnyway(t) ==
    /\ loop = "idle" /\ tunnel[t] = "gone"
    /\ LET c == ClientOf[t]
       IN  IF t \notin connId2Id
           THEN /\ tunnel' = [tunnel EXCEPT ![t] = "closed"]
                /\ UNCHANGED <<loop, lt, ld>>
           ELSE /\ lt' = t /\ ld' = conns[c] /\ loop' = "drop"
                /\ UNCHANGED tunnel
    /\ UNCHANGED <<tableVars, body, got, tickVars, sendVars, flag, orphan>>

OnClosed(t) ==
    /\ loop = "idle" /\ tunnel[t] = "gone"
    /\ LET c == ClientOf[t]
       IN  IF t \notin connId2Id \/ conns[c] = None
           THEN /\ tunnel' = [tunnel EXCEPT ![t] = "closed"]
                /\ UNCHANGED <<loop, lt, ld>>
           ELSE /\ lt' = t /\ ld' = conns[c] /\ loop' = "drop"
                /\ UNCHANGED tunnel
    /\ UNCHANGED <<tableVars, body, got, tickVars, sendVars, flag, orphan>>

\* DelConn: conns.Delete.
CloseDrops ==
    /\ loop = "drop"
    /\ table' = [table EXCEPT ![ld] = @ \ {lt}]
    /\ loop' = "unlist"
    /\ UNCHANGED <<tunnel, conns, ids, connId2Id, lt, ld, body, got, tickVars, sendVars, flag,
                   orphan>>

\* Mutant: the id stays.
CloseUnlistsNothing ==
    /\ loop = "unlist"
    /\ loop' = "count"
    /\ UNCHANGED <<tunnel, tableVars, lt, ld, body, got, tickVars, sendVars, flag, orphan>>

\* DelConn: connIds without the id, under m.
CloseUnlists ==
    /\ loop = "unlist"
    /\ ids' = [ids EXCEPT ![ld] = @ \ {lt}]
    /\ loop' = "count"
    /\ UNCHANGED <<tunnel, conns, table, connId2Id, lt, ld, body, got, tickVars, sendVars, flag,
                   orphan>>

\* Mutant: the dispatch goes with its first tunnel.
CloseForgetsClient ==
    /\ loop = "count"
    /\ conns' = [conns EXCEPT ![ClientOf[lt]] = None]
    /\ loop' = "forget"
    /\ UNCHANGED <<tunnel, table, ids, connId2Id, lt, ld, body, got, tickVars, sendVars, flag,
                   orphan>>

\* The last tunnel takes the dispatch with it.
CloseCounts ==
    /\ loop = "count"
    /\ conns' = IF ids[ld] = {} THEN [conns EXCEPT ![ClientOf[lt]] = None] ELSE conns
    /\ loop' = "forget"
    /\ UNCHANGED <<tunnel, table, ids, connId2Id, lt, ld, body, got, tickVars, sendVars, flag,
                   orphan>>

CloseForgets ==
    /\ loop = "forget"
    /\ connId2Id' = connId2Id \ {lt}
    /\ tunnel' = [tunnel EXCEPT ![lt] = "closed"]
    /\ loop' = "idle" /\ lt' = None /\ ld' = None
    /\ UNCHANGED <<conns, table, ids, body, got, tickVars, sendVars, flag, orphan>>

Loop ==
    \/ \E t \in Conn : React(t) \/ OnClosed(t)
    \/ Refuse \/ InitLoads \/ InitStores \/ InitAppends \/ InitEnters
    \/ CloseDrops \/ CloseUnlists \/ CloseCounts \/ CloseForgets

-----------------------------------------------------------------------------
(* Tick.  It visits the entries of connId2Id, and then begins anew.        *)

TickIdles == tick' = "idle" /\ te' = None /\ td' = None /\ tx' = None

TickReads(t) ==
    /\ tick = "idle" /\ t \in connId2Id
    /\ te' = t
    /\ tick' = "load"
    /\ UNCHANGED <<tunnel, tableVars, loopVars, td, tx, sendVars, flag, orphan>>

TickLoads ==
    /\ tick = "load"
    /\ LET d == conns[ClientOf[te]]
       IN  IF d = None THEN TickIdles
           ELSE td' = d /\ tick' = "count" /\ UNCHANGED <<te, tx>>
    /\ UNCHANGED <<tunnel, tableVars, loopVars, sendVars, flag, orphan>>

TickCounts ==
    /\ tick = "count"
    /\ tick' = IF ids[td] = {} THEN "hide" ELSE "range"
    /\ UNCHANGED <<tunnel, tableVars, loopVars, te, td, tx, sendVars, flag, orphan>>

\* conns.Delete, whatever conns holds by now.
TickHides ==
    /\ tick = "hide"
    /\ LET c == ClientOf[te]
       IN  /\ orphan' = orphan \cup ({conns[c]} \ {None})
           /\ conns' = [conns EXCEPT ![c] = None]
    /\ tick' = "forget"
    /\ UNCHANGED <<tunnel, table, ids, connId2Id, loopVars, te, td, tx, sendVars, flag>>

TickForgets ==
    /\ tick = "forget"
    /\ connId2Id' = connId2Id \ {te}
    /\ TickIdles
    /\ UNCHANGED <<tunnel, conns, table, ids, loopVars, sendVars, flag, orphan>>

\* AsyncWrite of PING to one tunnel after the other until one succeeds; it may
\* fail on a connection that ended.
TickPings ==
    /\ tick = "range"
    /\ \/ table[td] = {} /\ TickIdles
       \/ \E t \in table[td] : TickIdles
       \/ \E t \in table[td] :
             /\ tunnel[t] \in {"gone", "closed"}
             /\ tx' = t
             /\ tick' = "unstore"
             /\ UNCHANGED <<te, td>>
    /\ UNCHANGED <<tunnel, tableVars, loopVars, sendVars, flag, orphan>>

TickUnstores ==
    /\ tick = "unstore"
    /\ table' = [table EXCEPT ![td] = @ \ {tx}]
    /\ tick' = "unlist"
    /\ UNCHANGED <<tunnel, conns, ids, connId2Id, loopVars, te, td, tx, sendVars, flag, orphan>>

TickUnlists ==
    /\ tick = "unlist"
    /\ ids' = [ids EXCEPT ![td] = @ \ {tx}]
    /\ tick' = "range"
    /\ tx' = None
    /\ UNCHANGED <<tunnel, conns, table, connId2Id, loopVars, te, td, sendVars, flag, orphan>>

Tick ==
    \/ \E t \in Conn : TickReads(t)
    \/ TickLoads \/ TickCounts \/ TickHides \/ TickForgets \/ TickPings
    \/ TickUnstores \/ TickUnlists

-----------------------------------------------------------------------------
(* SendToClient, tried again until it succeeds.                            *)

SendLoads(s) ==
    /\ send[s] = "load"
    /\ conns[ServesFor[s]] # None
    /\ sd' = [sd EXCEPT ![s] = conns[ServesFor[s]]]
    /\ send' = [send EXCEPT ![s] = "get"]
    /\ UNCHANGED <<tunnel, tableVars, loopVars, tickVars, sc, flag, orphan>>

\* Mutant: the dispatch is kept for the next try.
SendGetsSame(s) ==
    /\ send[s] = "get"
    /\ \/ \E t \in ids[sd[s]] \cap table[sd[s]] :
             /\ sc' = [sc EXCEPT ![s] = t]
             /\ send' = [send EXCEPT ![s] = "write"]
       \/ (ids[sd[s]] = {} \/ ~ ids[sd[s]] \subseteq table[sd[s]]) /\ UNCHANGED <<send, sc>>
    /\ UNCHANGED <<tunnel, tableVars, loopVars, tickVars, sd, flag, orphan>>

\* GetConn: the next id of the list; nil when there is none, or when its
\* tunnel has left the map.
SendGets(s) ==
    /\ send[s] = "get"
    /\ \/ /\ \E t \in ids[sd[s]] \cap table[sd[s]] : sc' = [sc EXCEPT ![s] = t]
          /\ send' = [send EXCEPT ![s] = "write"]
          /\ UNCHANGED sd
       \/ /\ ids[sd[s]] = {} \/ ~ ids[sd[s]] \subseteq table[sd[s]]
          /\ sd' = [sd EXCEPT ![s] = None]
          /\ send' = [send EXCEPT ![s] = "load"]
          /\ UNCHANGED sc
    /\ UNCHANGED <<tunnel, tableVars, loopVars, tickVars, flag, orphan>>

\* AsyncWrite, to whatever the tunnel is by now.
SendWrites(s) ==
    /\ send[s] = "write"
    /\ sd' = [sd EXCEPT ![s] = None]
    /\ sc' = [sc EXCEPT ![s] = None]
    /\ send' = [send EXCEPT ![s] = "load"]
    /\ UNCHANGED <<tunnel, tableVars, loopVars, tickVars, flag, orphan>>

SendToClient(s) == SendLoads(s) \/ SendGets(s) \/ SendWrites(s)

-----------------------------------------------------------------------------
Next ==
    \/ \E t \in Conn : Connects(t) \/ Ends(t)
    \/ Loop \/ Tick
    \/ \E s \in Sender : SendToClient(s)

Spec == Init /\ [][Next]_vars

\* The event loop, Tick and the senders run when they can.
Fairness ==
    /\ WF_vars(Loop) /\ WF_vars(Tick)
    /\ \A s \in Sender : WF_vars(SendToClient(s))

FairSpec == Spec /\ Fairness

-----------------------------------------------------------------------------
(* Properties.                                                             *)

\* Decoding inverts encoding: what init sees is what the client wrote, for all
\* lengths around a block and all states of the confusion counter
\* (EncryptionData, DecryptData).
FrameIntact == loop = "admit" => got = body

\* A client with the server's own flag is never refused, and one that came up
\* with the script of the server's page only if its key lost a whole block of
\* zeros (main.go pads the flag, download.go trims the padded key).  This is
\* about clients: the script of a server whose key is empty or zeros brings up
\* none (LosesKey), and nobody is there to be admitted.
OwnKeyAdmitted ==
    loop = "refuse" => ClientOf[lt] \in Downloaded /\ LosesBlock(flag)

\* GetConn finds the tunnel of the id it picks, but for a tunnel that is just
\* being removed, by OnClosed, by Tick, or by both (SetConn and DelConn change
\* the map first).
IdsKnown ==
    \A d \in Conn : \A t \in ids[d] \ table[d] :
        \/ loop = "unlist" /\ ld = d /\ lt = t
        \/ tick = "unlist" /\ td = d /\ tx = t

\* A tunnel that is up and whose INIT was handled is found by SendToClient,
\* unless Tick took its dispatch out of conns: Tick acts on a count it read
\* before, when init may have added a tunnel in the meantime.
FoundUnlessHidden ==
    \A t \in connId2Id : tunnel[t] = "in" =>
        \E d \in Conn : /\ t \in ids[d] \cap table[d]
                        /\ conns[ClientOf[t]] = d \/ d \in orphan

\* A connection that ended is not offered to senders any more once OnClosed is
\* through, whatever Tick did in between.
DeadForgotten ==
    \A t \in Conn : tunnel[t] = "closed" =>
        \A c \in Client : conns[c] # None => t \notin ids[conns[c]]

\* A sender whose client keeps a tunnel that was not hidden gets through again
\* and again: dead tunnels leave the list, and a dispatch that was replaced is
\* looked up anew.
Reached(s) ==
    LET Stable == \E t \in connId2Id : /\ tunnel[t] = "in"
                                       /\ ClientOf[t] = ServesFor[s]
                                       /\ conns[ServesFor[s]] # None
                                       /\ t \in ids[conns[ServesFor[s]]]
    IN  <>[]Stable => []<><<SendWrites(s) /\ tunnel[sc[s]] = "in">>_vars

AllReached == \A s \in Sender : Reached(s)

-----------------------------------------------------------------------------
(* What the tables promise the senders, and how this module implements it. *)

\* conns finds its dispatch, which has it in the list and in the map.
Offered(t) ==
    LET d == conns[ClientOf[t]]
    IN  d # None /\ t \in ids[d] \cap table[d]

\* INIT put the tunnel into the tables, or never will.
Past(t) == tunnel[t] \in {"in", "gone", "closed"} \/ (loop = "enter" /\ lt = t)

Ended(t) == tunnel[t] \in {"gone", "closed"}

Promise == INSTANCE Offering WITH
    offered <- {t \in Conn : Offered(t)},
    past <- {t \in Conn : Past(t)},
    ended <- {t \in Conn : Ended(t)}

\* The three tables, the event loop and Tick together behave like one list of
\* tunnels: in no interleaving of SetConn, DelConn and Tick's removals does a
\* tunnel that works vanish alone, or one that has left come back.
OffersAsPromised == Promise!Spec
=============================================================================
