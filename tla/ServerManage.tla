---------------------------- MODULE ServerManage ----------------------------
(***************************************************************************)
(* The tunnels of a client process (ServerManage in proxy/client/          *)
(* client.go).  A tunnel is a TCP connection to the server; its goroutine  *)
(* reads frames until the connection fails.  Two tables name the tunnels:  *)
(* the sync.Map conns and the slice connIds, under the RWMutex m.  Working *)
(* on them are                                                             *)
(*                                                                         *)
(*   refill      NewServerManage, then every 5 s as many NewServer as      *)
(*               connIds is short of MaxConn                               *)
(*   senders     the goroutines of all miner sessions, in SendToServer:    *)
(*               GetServer, NewServer when that finds nothing, one write   *)
(*   reader      of each tunnel: DelServerConn and Close when it ends      *)
(*                                                                         *)
(* NewServer starts the reader before it enters the tunnel in the tables,  *)
(* and appends to connIds under m.RLock only: reading the slice and        *)
(* storing it are two steps.  Appends that overlap start from the same     *)
(* slice, the store that comes last wins, and while the backing array has  *)
(* room the entry of one also replaces an entry of another.                *)
(* DelServerConn and SetServerConn hold m.Lock; each is one step, since    *)
(* nobody else's step falls between its two changes with another result.   *)
(*                                                                         *)
(* connIds is a bag: GetServer's round-robin index is shared by all        *)
(* senders, so a sender may get any listed id.  Ids are fresh ksuids.      *)
(***************************************************************************)
EXTENDS Integers, Functions

CONSTANTS Id,       \* bound: tunnels ever made
          NoId,
          Sender,   \* goroutines that send
          Refill,   \* the refill goroutine
          MaxConn   \* flag -n: how many tunnels the client shall have

Proc == Sender \cup {Refill}

ASSUME ManageAssumption ==
    /\ NoId \notin Id
    /\ Refill \notin Sender
    /\ MaxConn \in Nat \ {0}

VARIABLES
    link,    \* the TCP connection: "new", "open", "broken", "closed" by Server.Close
    reader,  \* where the goroutine of a tunnel stands
    conns,   \* ServerManage.conns
    connIds, \* ServerManage.connIds: how often each id is listed
    pc,      \* where a process stands
    caller,  \* whose NewServer it is: the refill loop, GetServer, SendToServer
    cur,     \* the tunnel a process works on
    slice,   \* connIds as an append read it
    want,    \* tunnels the refill loop still wants
    lost     \* history: tunnels whose append was overwritten

vars == <<link, reader, conns, connIds, pc, caller, cur, slice, want, lost>>

Bag == [Id -> Nat]

TypeOK ==
    /\ link \in [Id -> {"new", "open", "broken", "closed"}]
    /\ reader \in [Id -> {"off", "read", "delete", "close", "done"}]
    /\ conns \in SUBSET Id
    /\ connIds \in Bag
    /\ pc \in [Proc -> {"boot", "idle", "load", "drop", "none", "dial", "store",
                        "append", "write", "set", "send", "failed"}]
    /\ caller \in [Proc -> {"nobody", "refill", "get", "send"}]
    /\ cur \in [Proc -> Id \cup {NoId}]
    /\ slice \in [Proc -> Bag]
    /\ want \in 0..MaxConn
    /\ lost \in SUBSET Id

Init ==
    /\ link = [t \in Id |-> "new"]
    /\ reader = [t \in Id |-> "off"]
    /\ conns = {}
    /\ connIds = [t \in Id |-> 0]
    /\ pc = [p \in Proc |-> IF p = Refill THEN "dial" ELSE "boot"]
    /\ caller = [p \in Proc |-> IF p = Refill THEN "refill" ELSE "nobody"]
    /\ cur = [p \in Proc |-> NoId]
    /\ slice = [p \in Proc |-> [t \in Id |-> 0]]
    /\ want = MaxConn
    /\ lost = {}

-----------------------------------------------------------------------------
Listed(t) == connIds[t] > 0

\* len(connIds)
Size == SumFunction(connIds)

Fresh(t) == link[t] = "new"

Goto(p, where) == pc' = [pc EXCEPT ![p] = where]

Appending == {p \in Proc : pc[p] = "write"}

\* Mutant: m is not locked.
NoLock == TRUE

\* m.Lock: no append is under way.
Lock == Appending = {}

DelServerConn(t) ==
    /\ Lock
    /\ conns' = conns \ {t}
    /\ connIds' = [connIds EXCEPT ![t] = 0]

-----------------------------------------------------------------------------
(* NewServer, called by process p.                                         *)

\* Dial and INIT succeed; the reader runs from here on.
Dial(p) ==
    /\ pc[p] = "dial"
    /\ \E t \in Id :
          /\ Fresh(t)
          /\ link' = [link EXCEPT ![t] = "open"]
          /\ reader' = [reader EXCEPT ![t] = "read"]
          /\ cur' = [cur EXCEPT ![p] = t]
    /\ Goto(p, "store")
    /\ UNCHANGED <<conns, connIds, caller, slice, want, lost>>

Booting == \E p \in Sender : pc[p] = "boot"

NilTo(p) == IF caller[p] = "get" THEN "none"
            ELSE IF caller[p] = "refill" /\ Booting THEN "failed" ELSE "idle"

\* Mutant: every failure is charged to the refill loop.
DialFailsCharged(p) ==
    /\ pc[p] = "dial"
    /\ cur' = [cur EXCEPT ![p] = NoId]
    /\ want' = want - 1
    /\ Goto(p, NilTo(p))
    /\ caller' = [caller EXCEPT ![p] = IF @ = "refill" THEN @ ELSE "nobody"]
    /\ UNCHANGED <<link, reader, conns, connIds, slice, lost>>

\* It returns nil.  In NewServerManage that ends the whole ServerManage; a
\* sender whose own NewServer failed sleeps and tries again.
DialFails(p) ==
    /\ pc[p] = "dial"
    /\ cur' = [cur EXCEPT ![p] = NoId]
    /\ want' = IF caller[p] = "refill" THEN want - 1 ELSE want
    /\ Goto(p, NilTo(p))
    /\ caller' = [caller EXCEPT ![p] = IF @ = "refill" THEN @ ELSE "nobody"]
    /\ UNCHANGED <<link, reader, conns, connIds, slice, lost>>

\* Mutant: the tunnel is not stored.
StoreForgets(p) ==
    /\ pc[p] = "store"
    /\ Goto(p, "append")
    /\ UNCHANGED <<link, reader, conns, connIds, caller, cur, slice, want, lost>>

\* s.conns.Store(id, server).
Store(p) ==
    /\ pc[p] = "store"
    /\ conns' = conns \cup {cur[p]}
    /\ Goto(p, "append")
    /\ UNCHANGED <<link, reader, connIds, caller, cur, slice, want, lost>>

\* m.RLock; the operand of append is read.
AppendReads(p) ==
    /\ pc[p] = "append"
    /\ slice' = [slice EXCEPT ![p] = connIds]
    /\ Goto(p, "write")
    /\ UNCHANGED <<link, reader, conns, connIds, caller, cur, want, lost>>

\* The copies other appends work on, when p has written its entry: if q's copy
\* is longer and has the same array, p's entry replaces one of q's.
Copies(p) ==
    LET others == Appending \ {p}
        Longer(q, t) == t # NoId /\ slice[q][t] > slice[p][t]
    IN  {[q \in Proc |->
             IF q = p THEN [t \in Id |-> 0]
             ELSE IF q \in others /\ Longer(q, x[q])
                  THEN [slice[q] EXCEPT ![x[q]] = @ - 1, ![cur[p]] = @ + 1]
                  ELSE slice[q]] : x \in [others -> Id \cup {NoId}]}

\* The result of append is stored, m.RUnlock, and NewServer returns: the
\* refill loop goes on, GetServer calls SetServerConn, SendToServer writes.
AppendWrites(p) ==
    /\ pc[p] = "write"
    /\ connIds' = [slice[p] EXCEPT ![cur[p]] = @ + 1]
    /\ lost' = {t \in Id : (t \in lost \/ Listed(t)) /\ connIds'[t] = 0}
    /\ slice' \in Copies(p)
    /\ \/ /\ caller[p] = "refill"
          /\ want' = want - 1
          /\ cur' = [cur EXCEPT ![p] = NoId]
          /\ Goto(p, "idle")
          /\ UNCHANGED caller
       \/ /\ caller[p] # "refill"
          /\ Goto(p, IF caller[p] = "get" THEN "set" ELSE "send")
          /\ caller' = [caller EXCEPT ![p] = "nobody"]
          /\ UNCHANGED <<want, cur>>
    /\ UNCHANGED <<link, reader, conns>>

NewServer(p) ==
    Dial(p) \/ DialFails(p) \/ Store(p) \/ AppendReads(p) \/ AppendWrites(p)

-----------------------------------------------------------------------------
(* The refill loop.                                                        *)

\* The next turn of the loop `for i := 0; i < maxConn-size; i++'.  When the
\* first loop, in NewServerManage, is through, the senders may start.
RefillNext ==
    /\ pc[Refill] = "idle"
    /\ want > 0
    /\ Goto(Refill, "dial")
    /\ UNCHANGED <<link, reader, conns, connIds, caller, cur, slice, want, lost>>

\* serverManage.Store, and RunClient accepts miners.
Booted ==
    /\ pc[Refill] = "idle" /\ want = 0
    /\ Booting
    /\ pc' = [p \in Proc |-> "idle"]
    /\ UNCHANGED <<link, reader, conns, connIds, caller, cur, slice, want, lost>>

\* Mutant: tunnels are made only when none is left.
RefillWhenEmpty ==
    /\ pc[Refill] = "idle" /\ want = 0
    /\ ~Booting
    /\ Size = 0 /\ want' = MaxConn
    /\ UNCHANGED <<link, reader, conns, connIds, pc, caller, cur, slice, lost>>

\* Every 5 s: len(connIds) under m.RLock.
RefillSizes ==
    /\ pc[Refill] = "idle" /\ want = 0
    /\ ~Booting
    /\ want' \in 1..MaxConn /\ Size + want' = MaxConn
    /\ UNCHANGED <<link, reader, conns, connIds, pc, caller, cur, slice, lost>>

-----------------------------------------------------------------------------
(* GetServer and SendToServer, in a sender.                                *)

GetServer(p) ==
    /\ p \in Sender /\ pc[p] = "idle"
    /\ \/ /\ \A t \in Id : ~Listed(t)
          /\ Goto(p, "none")
          /\ UNCHANGED cur
       \/ /\ \E t \in Id : Listed(t) /\ cur' = [cur EXCEPT ![p] = t]
          /\ Goto(p, "load")
    /\ UNCHANGED <<link, reader, conns, connIds, caller, slice, want, lost>>

\* Mutant: a tunnel that broke is replaced before its reader ended.
GetServerLoadsOpen(p) ==
    /\ pc[p] = "load"
    /\ \/ /\ cur[p] \notin conns
          /\ cur' = [cur EXCEPT ![p] = NoId]
          /\ Goto(p, "none")
       \/ /\ cur[p] \in conns
          /\ Goto(p, IF link[cur[p]] # "open" THEN "drop" ELSE "send")
          /\ UNCHANGED cur
    /\ UNCHANGED <<link, reader, conns, connIds, caller, slice, want, lost>>

\* s.conns.Load(key), server.close.Load().
GetServerLoads(p) ==
    /\ pc[p] = "load"
    /\ \/ /\ cur[p] \notin conns
          /\ cur' = [cur EXCEPT ![p] = NoId]
          /\ Goto(p, "none")
       \/ /\ cur[p] \in conns
          /\ Goto(p, IF link[cur[p]] = "closed" THEN "drop" ELSE "send")
          /\ UNCHANGED cur
    /\ UNCHANGED <<link, reader, conns, connIds, caller, slice, want, lost>>

\* GetServer replaces a closed server.
GetServerDrops(p) ==
    /\ pc[p] = "drop"
    /\ DelServerConn(cur[p])
    /\ cur' = [cur EXCEPT ![p] = NoId]
    /\ caller' = [caller EXCEPT ![p] = "get"]
    /\ Goto(p, "dial")
    /\ UNCHANGED <<link, reader, slice, want, lost>>

\* SetServerConn, for a tunnel NewServer has listed already.
SetServerConn(p) ==
    /\ pc[p] = "set"
    /\ Lock
    /\ conns' = conns \cup {cur[p]}
    /\ connIds' = [connIds EXCEPT ![cur[p]] = @ + 1]
    /\ Goto(p, "send")
    /\ UNCHANGED <<link, reader, caller, cur, slice, want, lost>>

\* GetServer returned nil: SendToServer makes a tunnel of its own.
GetsNone(p) ==
    /\ pc[p] = "none"
    /\ caller' = [caller EXCEPT ![p] = "send"]
    /\ Goto(p, "dial")
    /\ UNCHANGED <<link, reader, conns, connIds, cur, slice, want, lost>>

\* WriteFrame succeeds or fails; the sender tries again, gives up, or waits
\* for the next request.
Write(p) ==
    /\ pc[p] = "send"
    /\ cur' = [cur EXCEPT ![p] = NoId]
    /\ Goto(p, "idle")
    /\ UNCHANGED <<link, reader, conns, connIds, caller, slice, want, lost>>

SendToServer(p) ==
    \/ GetServer(p) \/ GetServerLoads(p) \/ GetServerDrops(p)
    \/ SetServerConn(p) \/ GetsNone(p) \/ Write(p)

-----------------------------------------------------------------------------
(* The goroutine of a tunnel.                                              *)

ReaderFails(t) ==
    /\ reader[t] = "read" /\ link[t] = "broken"
    /\ reader' = [reader EXCEPT ![t] = "delete"]
    /\ UNCHANGED <<link, conns, connIds, pc, caller, cur, slice, want, lost>>

ReaderDeletes(t) ==
    /\ reader[t] = "delete"
    /\ DelServerConn(t)
    /\ reader' = [reader EXCEPT ![t] = "close"]
    /\ UNCHANGED <<link, pc, caller, cur, slice, want, lost>>

ReaderCloses(t) ==
    /\ reader[t] = "close"
    /\ link' = [link EXCEPT ![t] = "closed"]
    /\ reader' = [reader EXCEPT ![t] = "done"]
    /\ UNCHANGED <<conns, connIds, pc, caller, cur, slice, want, lost>>

Reader(t) == ReaderFails(t) \/ ReaderDeletes(t) \/ ReaderCloses(t)

\* The connection breaks, or the server closes it.
Breaks(t) ==
    /\ link[t] = "open"
    /\ link' = [link EXCEPT ![t] = "broken"]
    /\ UNCHANGED <<reader, conns, connIds, pc, caller, cur, slice, want, lost>>

-----------------------------------------------------------------------------
Next ==
    \/ \E p \in Proc : NewServer(p) \/ SendToServer(p)
    \/ RefillNext \/ Booted \/ RefillSizes
    \/ \E t \in Id : Reader(t) \/ Breaks(t)

Spec == Init /\ [][Next]_vars

\* What a process does inside NewServer and GetServer, when all goes well.
Works(p) ==
    \/ Dial(p) \/ Store(p) \/ AppendReads(p) \/ AppendWrites(p)
    \/ GetServerDrops(p) \/ SetServerConn(p)

\* Every goroutine that can run does run, and the refill loop, which dials again
\* and again, is not refused every time.  A sender need not start a request.
Fairness ==
    /\ \A t \in Id : WF_vars(Reader(t))
    /\ \A p \in Sender : WF_vars(Works(p))
    /\ SF_vars(Works(Refill)) /\ WF_vars(RefillNext \/ Booted \/ RefillSizes)

FairSpec == Spec /\ Fairness

-----------------------------------------------------------------------------
(* Properties.                                                             *)

\* GetServer returns nil for a listed id only when that tunnel has ended: a
\* sender never takes a working tunnel for none (NewServer stores in conns
\* before it appends, DelServerConn removes from both).
ListedKnown ==
    \A t \in Id : Listed(t) => t \in conns \/ reader[t] \in {"close", "done"}

\* A process that created the tunnel and still has to list it.
Creating(t) ==
    \E p \in Proc : cur[p] = t /\ pc[p] \in {"store", "append", "write", "set"}

\* A tunnel that was removed is not listed again by anybody's stale copy of the
\* slice: only its own creator can still do that, arriving late, or an append
\* that read the slice before another overwrote the late entry.
NoResurrection ==
    [][\A t \in Id :
          ~Listed(t) /\ Listed(t)' /\ reader[t] \in {"close", "done"}
              => Creating(t) \/ t \in lost]_vars

\* A tunnel that works is used: when NewServer is through it is listed and
\* known until its reader ends, unless a racing append overwrote it.
WorkingListed ==
    \A t \in Id : reader[t] = "read" /\ ~Creating(t)
                      => t \in conns /\ (Listed(t) \/ t \in lost)

\* main.go:450: flag -n says through how many tunnels a client connects.  The
\* refill loop brings the number of entries back to it, unless the start fails
\* or the bound Id is used up - and then it has listed every tunnel there is,
\* but for those that ended or were overwritten.  It counts entries: an id that
\* is listed twice, or a tunnel that ended before NewServer listed it, counts,
\* and the number of tunnels that work stays short as long as it is there.
ShortageEnds ==
    \/ []<>(Size >= MaxConn)
    \/ <>(pc[Refill] = "failed")
    \/ <>[](\A t \in Id : \/ Listed(t) \/ t \in lost
                          \/ reader[t] \in {"close", "done"})

=============================================================================
