------------------------ MODULE ServerManage_proofs ------------------------
(***************************************************************************)
(* Theorems about ServerManage, for every number of tunnels and senders.   *)
(***************************************************************************)
EXTENDS ServerManage, TLAPS

USE ManageAssumption

-----------------------------------------------------------------------------
(* The inductive invariant.                                                *)

\* A tunnel in conns, or one whose reader has been in DelServerConn.
Known(t) == t \in conns \/ reader[t] \in {"close", "done"}

\* The state of a connection and of its reader.
Links ==
    \A t \in Id : /\ link[t] = "new" <=> reader[t] = "off"
                  /\ link[t] = "closed" <=> reader[t] = "done"

\* The tunnel a process works on.
AtWork ==
    \A p \in Proc :
        /\ pc[p] \in {"store", "append", "write", "set", "load", "drop", "send"} => cur[p] \in Id
        /\ pc[p] \in {"store", "append", "write", "set"} => reader[cur[p]] # "off"
        /\ pc[p] \in {"append", "write", "set"} => Known(cur[p])
        /\ pc[p] = "drop" => link[cur[p]] = "closed"

\* The refill loop makes a tunnel only while it wants one.
Refills ==
    /\ \A p \in Proc : caller[p] = "refill" <=> p = Refill
    /\ pc[Refill] \in {"idle", "dial", "store", "append", "write", "failed"}
    /\ pc[Refill] \in {"dial", "store", "append", "write"} => want > 0

\* The senders start together.
Boots == \A p, q \in Sender : pc[p] = "boot" => pc[q] = "boot"

\* What the slice of an append under way may list.
Slices ==
    \A p \in Proc : pc[p] = "write" =>
        \A t \in Id : slice[p][t] > 0 =>
            Known(t) /\ (Listed(t) \/ Creating(t) \/ t \in lost)

Inv ==
    TypeOK /\ Links /\ AtWork /\ Refills /\ Boots /\ Slices /\ ListedKnown /\ WorkingListed

LEMMA InvInit == Init => Inv
<1> SUFFICES ASSUME Init PROVE Inv
  OBVIOUS
<1> USE DEF Init
<1>1. TypeOK
  BY DEF TypeOK, Bag, Proc
<1>2. Links /\ AtWork /\ Refills /\ Boots
  BY DEF Links, AtWork, Refills, Boots, Proc
<1>3. Slices /\ ListedKnown /\ WorkingListed
  BY DEF Slices, ListedKnown, WorkingListed, Listed, Proc
<1>4. QED
  BY <1>1, <1>2, <1>3 DEF Inv

-----------------------------------------------------------------------------
(* NewServer.                                                              *)

LEMMA DialStep ==
    ASSUME Inv, NEW p \in Proc, Dial(p)
    PROVE  Inv'
<1> USE DEF Inv, Dial, Goto
<1> PICK n \in Id : /\ Fresh(n)
                    /\ link' = [link EXCEPT ![n] = "open"]
                    /\ reader' = [reader EXCEPT ![n] = "read"]
                    /\ cur' = [cur EXCEPT ![p] = n]
  OBVIOUS
<1> USE DEF Fresh
<1>1. TypeOK'
  BY DEF TypeOK
<1>2. Links'
  BY DEF Links, TypeOK
<1>3. \A t \in Id : Known(t) => Known(t)'
  BY DEF Known, Links, TypeOK
<1>4. AtWork'
  BY <1>3 DEF AtWork, Links, TypeOK, Known
<1>5. Refills' /\ Boots'
  BY DEF Refills, Boots, TypeOK, Proc
<1>6. \A t \in Id : Creating(t) => Creating(t)'
  BY DEF Creating, TypeOK
<1>7. Slices'
  BY <1>3, <1>6 DEF Slices, TypeOK, Listed
<1>8. ListedKnown'
  BY DEF ListedKnown, Links, TypeOK, Listed
<1>9. Creating(n)'
  BY DEF Creating, TypeOK
<1>10. WorkingListed'
  BY <1>6, <1>9 DEF WorkingListed, TypeOK, Listed
<1>11. QED
  BY <1>1, <1>2, <1>4, <1>5, <1>7, <1>8, <1>10

LEMMA DialFailsStep ==
    ASSUME Inv, NEW p \in Proc, DialFails(p)
    PROVE  Inv'
<1> USE DEF Inv, DialFails, Goto
<1>1. TypeOK'
  <2>1. want' \in 0..MaxConn
    BY DEF TypeOK, Refills
  <2>2. NilTo(p) \in {"none", "failed", "idle"}
    BY DEF NilTo
  <2>3. QED
    BY <2>1, <2>2 DEF TypeOK
<1>2. Links' /\ ListedKnown'
  BY DEF Links, ListedKnown, Listed
<1>3. NilTo(p) \in {"none", "failed", "idle"}
  BY DEF NilTo
<1>4. AtWork'
  BY <1>3 DEF AtWork, TypeOK, Known
<1>5. Refills' /\ Boots'
  BY DEF Refills, Boots, TypeOK, Proc, NilTo
<1>6. \A t \in Id : Creating(t) <=> Creating(t)'
  BY <1>3 DEF Creating, TypeOK
<1>7. Slices'
  BY <1>3, <1>6 DEF Slices, TypeOK, Listed, Known
<1>8. WorkingListed'
  BY <1>6 DEF WorkingListed, Listed
<1>9. QED
  BY <1>1, <1>2, <1>4, <1>5, <1>7, <1>8

LEMMA StoreStep ==
    ASSUME Inv, NEW p \in Proc, Store(p)
    PROVE  Inv'
<1> USE DEF Inv, Store, Goto
<1>1. TypeOK'
  BY DEF TypeOK, AtWork
<1>2. Links' /\ ListedKnown'
  BY DEF Links, ListedKnown, Listed
<1>3. \A t \in Id : Known(t) => Known(t)'
  BY DEF Known
<1>4. AtWork'
  BY <1>3 DEF AtWork, TypeOK, Known
<1>5. Refills' /\ Boots'
  BY DEF Refills, Boots, TypeOK, Proc
<1>6. \A t \in Id : Creating(t) <=> Creating(t)'
  BY DEF Creating, TypeOK
<1>7. Slices'
  BY <1>3, <1>6 DEF Slices, TypeOK, Listed
<1>8. WorkingListed'
  BY <1>6 DEF WorkingListed, Listed
<1>9. QED
  BY <1>1, <1>2, <1>4, <1>5, <1>7, <1>8

LEMMA AppendReadsStep ==
    ASSUME Inv, NEW p \in Proc, AppendReads(p)
    PROVE  Inv'
<1> USE DEF Inv, AppendReads, Goto
<1>1. TypeOK'
  BY DEF TypeOK
<1>2. Links' /\ ListedKnown'
  BY DEF Links, ListedKnown, Listed
<1>3. AtWork'
  BY DEF AtWork, TypeOK, Known
<1>4. Refills' /\ Boots'
  BY DEF Refills, Boots, TypeOK, Proc
<1>5. \A t \in Id : Creating(t) <=> Creating(t)'
  BY DEF Creating, TypeOK
<1>6. Slices'
  BY <1>5 DEF Slices, TypeOK, Listed, Known, ListedKnown
<1>7. WorkingListed'
  BY <1>5 DEF WorkingListed, Listed
<1>8. QED
  BY <1>1, <1>2, <1>3, <1>4, <1>6, <1>7

\* An append changes the copy of another one only by entering its own tunnel.
LEMMA CopiesStep ==
    ASSUME TypeOK, NEW p \in Proc, cur[p] \in Id, slice' \in Copies(p)
    PROVE  /\ slice' \in [Proc -> Bag]
           /\ \A q \in Proc \ {p} : \A t \in Id :
                 slice'[q][t] > 0 => slice[q][t] > 0 \/ t = cur[p]
<1> DEFINE others == Appending \ {p}
           Longer(q, t) == t # NoId /\ slice[q][t] > slice[p][t]
<1> PICK x \in [others -> Id \cup {NoId}] :
            slice' = [q \in Proc |->
                        IF q = p THEN [t \in Id |-> 0]
                        ELSE IF q \in others /\ Longer(q, x[q])
                             THEN [slice[q] EXCEPT ![x[q]] = @ - 1, ![cur[p]] = @ + 1]
                             ELSE slice[q]]
  BY DEF Copies
<1>1. ASSUME NEW q \in Proc \ {p}
      PROVE  /\ slice'[q] \in Bag
             /\ \A t \in Id : slice'[q][t] > 0 => slice[q][t] > 0 \/ t = cur[p]
  <2>1. slice[q] \in [Id -> Nat] /\ slice[p] \in [Id -> Nat]
    BY DEF TypeOK, Bag
  <2>2. CASE q \in others /\ Longer(q, x[q])
    <3>1. x[q] \in Id /\ slice[q][x[q]] > 0
      BY <2>1, <2>2
    <3>2. slice'[q] = [slice[q] EXCEPT ![x[q]] = @ - 1, ![cur[p]] = @ + 1]
      BY <2>2
    <3>3. QED
      BY <2>1, <3>1, <3>2 DEF Bag
  <2>3. CASE ~(q \in others /\ Longer(q, x[q]))
    BY <2>1, <2>3 DEF Bag
  <2>4. QED
    BY <2>2, <2>3
<1>2. slice'[p] \in Bag
  BY DEF Bag
<1>3. QED
  BY <1>1, <1>2

LEMMA AppendWritesStep ==
    ASSUME Inv, NEW p \in Proc, AppendWrites(p)
    PROVE  Inv'
<1> USE DEF Inv, AppendWrites, Goto
<1>1. /\ cur[p] \in Id /\ Known(cur[p])
      /\ slice[p] \in [Id -> Nat]
      /\ connIds' \in [Id -> Nat]
      /\ \A t \in Id : connIds'[t] > 0 <=> slice[p][t] > 0 \/ t = cur[p]
  BY DEF AtWork, TypeOK, Bag
<1>2. /\ slice' \in [Proc -> Bag]
      /\ \A q \in Proc \ {p} : \A t \in Id :
            slice'[q][t] > 0 => slice[q][t] > 0 \/ t = cur[p]
  BY <1>1, CopiesStep
<1>3. /\ pc' \in [Proc -> {"boot", "idle", "load", "drop", "none", "dial", "store",
                           "append", "write", "set", "send", "failed"}]
      /\ pc'[p] \in {"idle", "set", "send"}
      /\ \A q \in Proc \ {p} : pc'[q] = pc[q] /\ cur'[q] = cur[q] /\ caller'[q] = caller[q]
      /\ pc'[p] # "idle" => cur'[p] = cur[p]
  BY DEF TypeOK
<1>4. TypeOK'
  <2>1. want' \in 0..MaxConn
    BY DEF TypeOK, Refills
  <2>2. /\ caller' \in [Proc -> {"nobody", "refill", "get", "send"}]
        /\ cur' \in [Proc -> Id \cup {NoId}]
    BY DEF TypeOK
  <2>3. QED
    BY <1>1, <1>2, <1>3, <2>1, <2>2 DEF TypeOK, Bag
<1>5. Links'
  BY DEF Links
<1>6. \A t \in Id : Known(t) <=> Known(t)'
  BY DEF Known
<1>7. AtWork'
  BY <1>1, <1>3, <1>6 DEF AtWork
<1>8. Refills' /\ Boots'
  BY DEF Refills, Boots, TypeOK, Proc
<1>9. \A t \in Id : Creating(t) => Creating(t)' \/ t = cur[p]
  BY <1>3 DEF Creating
<1>10. \A t \in Id : Listed(t) \/ t \in lost => Listed(t)' \/ t \in lost'
  BY <1>1 DEF Listed
<1>11. Slices'
  <2> SUFFICES ASSUME NEW q \in Proc, pc'[q] = "write",
                      NEW t \in Id, slice'[q][t] > 0
               PROVE  Known(t)' /\ (Listed(t)' \/ Creating(t)' \/ t \in lost')
    BY DEF Slices
  <2>1. q # p /\ pc[q] = "write"
    BY <1>3
  <2>2. CASE t = cur[p]
    BY <1>1, <1>6, <2>2 DEF Listed
  <2>3. CASE t # cur[p]
    <3>1. Known(t) /\ (Listed(t) \/ Creating(t) \/ t \in lost)
      BY <1>2, <2>1, <2>3 DEF Slices
    <3>2. QED
      BY <1>6, <1>9, <1>10, <2>3, <3>1
  <2>4. QED
    BY <2>2, <2>3
<1>12. ListedKnown'
  BY <1>1, <1>6 DEF ListedKnown, Listed, Slices, Known
<1>13. WorkingListed'
  BY <1>1, <1>9, <1>10 DEF WorkingListed, Listed, Known
<1>14. QED
  BY <1>4, <1>5, <1>7, <1>8, <1>11, <1>12, <1>13

-----------------------------------------------------------------------------
(* The refill loop.                                                        *)

LEMMA RefillNextStep == Inv /\ RefillNext => Inv'
<1> SUFFICES ASSUME Inv, RefillNext PROVE Inv'
  OBVIOUS
<1> USE DEF Inv, RefillNext, Goto
<1>1. TypeOK' /\ Links' /\ ListedKnown'
  BY DEF TypeOK, Links, ListedKnown, Listed
<1>2. AtWork' /\ Refills' /\ Boots'
  BY DEF AtWork, Refills, Boots, TypeOK, Known, Proc
<1>3. \A t \in Id : Creating(t) <=> Creating(t)'
  BY DEF Creating, TypeOK
<1>4. Slices' /\ WorkingListed'
  BY <1>3 DEF Slices, WorkingListed, TypeOK, Listed, Known
<1>5. QED
  BY <1>1, <1>2, <1>4

LEMMA BootedStep == Inv /\ Booted => Inv'
<1> SUFFICES ASSUME Inv, Booted PROVE Inv'
  OBVIOUS
<1> USE DEF Inv, Booted
<1>1. TypeOK' /\ Links' /\ ListedKnown'
  BY DEF TypeOK, Links, ListedKnown, Listed
<1>2. AtWork' /\ Refills' /\ Boots' /\ Slices'
  BY DEF AtWork, Refills, Boots, Slices, TypeOK, Proc
<1>3. \A t \in Id : ~Creating(t)
  BY DEF Creating, Booting, Boots, Proc
<1>4. WorkingListed'
  BY <1>3 DEF WorkingListed, Listed
<1>5. QED
  BY <1>1, <1>2, <1>4

LEMMA RefillSizesStep == Inv /\ RefillSizes => Inv'
<1> SUFFICES ASSUME Inv, RefillSizes PROVE Inv'
  OBVIOUS
<1> USE DEF Inv, RefillSizes
<1>1. TypeOK' /\ Links' /\ ListedKnown'
  BY DEF TypeOK, Links, ListedKnown, Listed
<1>2. AtWork' /\ Refills' /\ Boots'
  BY DEF AtWork, Refills, Boots, TypeOK, Known
<1>3. Slices' /\ WorkingListed'
  BY DEF Slices, WorkingListed, Listed, Known, Creating
<1>4. QED
  BY <1>1, <1>2, <1>3

-----------------------------------------------------------------------------
(* DelServerConn, by a sender or by a reader: nobody holds a copy of connIds. *)

LEMMA Removal ==
    ASSUME Inv, NEW u \in Id, reader'[u] \in {"close", "done"}, DelServerConn(u),
           \A t \in Id \ {u} : reader'[t] = reader[t],
           NEW p \in Proc,
           \/ UNCHANGED <<pc, cur, slice, lost>>
           \/ /\ pc[p] = "drop"
              /\ \A q \in Proc \ {p} : pc'[q] = pc[q] /\ cur'[q] = cur[q]
              /\ pc'[p] = "dial"
              /\ UNCHANGED <<slice, lost>>
    PROVE  /\ conns' \in SUBSET Id /\ connIds' \in Bag
           /\ \A t \in Id : Known(t) => Known(t)'
           /\ Slices' /\ ListedKnown' /\ WorkingListed'
<1> USE DEF Inv, DelServerConn
<1>1. conns' \in SUBSET Id /\ connIds' \in Bag
  BY DEF TypeOK, Bag
<1>2. \A t \in Id : Known(t) => Known(t)'
  BY DEF Known
<1>3. Slices'
  BY DEF Slices, Lock, Appending
<1>4. \A t \in Id \ {u} : /\ Listed(t)' <=> Listed(t)
                          /\ t \in conns' <=> t \in conns
  BY DEF Listed, TypeOK, Bag
<1>5. ~ Listed(u)'
  BY DEF Listed, TypeOK, Bag
<1>6. ListedKnown'
  BY <1>4, <1>5 DEF ListedKnown
<1>7. \A t \in Id : Creating(t) => Creating(t)'
  BY DEF Creating
<1>8. WorkingListed'
  BY <1>4, <1>7 DEF WorkingListed
<1>9. QED
  BY <1>1, <1>2, <1>3, <1>6, <1>8

LEMMA GetServerDropsStep ==
    ASSUME Inv, NEW p \in Proc, GetServerDrops(p)
    PROVE  Inv'
<1> USE DEF Inv, GetServerDrops, Goto
<1>1. cur[p] \in Id /\ reader[cur[p]] = "done" /\ p # Refill
  BY DEF AtWork, Links, Refills
<1>2. /\ pc'[p] = "dial"
      /\ \A q \in Proc \ {p} : pc'[q] = pc[q] /\ cur'[q] = cur[q]
  BY DEF TypeOK
<1>3. /\ conns' \in SUBSET Id /\ connIds' \in Bag
      /\ \A t \in Id : Known(t) => Known(t)'
      /\ Slices' /\ ListedKnown' /\ WorkingListed'
  BY <1>1, <1>2, Removal
<1>4. TypeOK' /\ Links'
  BY <1>3 DEF TypeOK, Links
<1>5. AtWork'
  BY <1>2, <1>3 DEF AtWork
<1>6. Refills' /\ Boots'
  BY <1>1 DEF Refills, Boots, TypeOK, Proc
<1>7. QED
  BY <1>3, <1>4, <1>5, <1>6

LEMMA ReaderStep ==
    ASSUME Inv, NEW u \in Id, Reader(u)
    PROVE  Inv'
<1> USE DEF Inv
<1>1. CASE ReaderFails(u)
  <2> USE <1>1 DEF ReaderFails
  <2>1. TypeOK' /\ Links'
    BY DEF TypeOK, Links
  <2>2. \A t \in Id : Known(t) <=> Known(t)'
    BY DEF Known, TypeOK
  <2>3. AtWork' /\ Refills' /\ Boots'
    BY <2>2 DEF AtWork, Refills, Boots, TypeOK
  <2>4. Slices' /\ WorkingListed'
    BY <2>2 DEF Slices, WorkingListed, Listed, Creating, TypeOK
  <2>5. ListedKnown'
    BY DEF ListedKnown, Listed, TypeOK
  <2>6. QED
    BY <2>1, <2>3, <2>4, <2>5
<1>2. CASE ReaderDeletes(u)
  <2> USE <1>2 DEF ReaderDeletes
  <2>1. /\ reader'[u] = "close"
        /\ \A t \in Id \ {u} : reader'[t] = reader[t]
    BY DEF TypeOK
  <2>2. PICK p \in Proc : TRUE
    BY DEF Proc
  <2>3. /\ conns' \in SUBSET Id /\ connIds' \in Bag
        /\ \A t \in Id : Known(t) => Known(t)'
        /\ Slices' /\ ListedKnown' /\ WorkingListed'
    BY <2>1, <2>2, Removal
  <2>4. TypeOK' /\ Links'
    BY <2>3 DEF TypeOK, Links
  <2>5. AtWork' /\ Refills' /\ Boots'
    BY <2>1, <2>3 DEF AtWork, Refills, Boots, TypeOK
  <2>6. QED
    BY <2>3, <2>4, <2>5
<1>3. CASE ReaderCloses(u)
  <2> USE <1>3 DEF ReaderCloses
  <2>1. TypeOK' /\ Links'
    BY DEF TypeOK, Links
  <2>2. \A t \in Id : Known(t) <=> Known(t)'
    BY DEF Known, TypeOK
  <2>3. AtWork' /\ Refills' /\ Boots'
    BY <2>2 DEF AtWork, Refills, Boots, TypeOK
  <2>4. Slices' /\ WorkingListed' /\ ListedKnown'
    BY <2>2 DEF Slices, WorkingListed, ListedKnown, Listed, Creating, TypeOK
  <2>5. QED
    BY <2>1, <2>3, <2>4
<1>4. QED
  BY <1>1, <1>2, <1>3 DEF Reader

LEMMA BreaksStep ==
    ASSUME Inv, NEW u \in Id, Breaks(u)
    PROVE  Inv'
<1> USE DEF Inv, Breaks
<1>1. TypeOK' /\ Links' /\ AtWork' /\ Refills' /\ Boots'
  BY DEF TypeOK, Links, AtWork, Refills, Boots, Known
<1>2. Slices' /\ ListedKnown' /\ WorkingListed'
  BY DEF Slices, ListedKnown, WorkingListed, Listed, Known, Creating
<1>3. QED
  BY <1>1, <1>2

-----------------------------------------------------------------------------
(* The senders.                                                            *)

LEMMA SetServerConnStep ==
    ASSUME Inv, NEW p \in Proc, SetServerConn(p)
    PROVE  Inv'
<1> USE DEF Inv, SetServerConn, Goto
<1>1. cur[p] \in Id /\ Known(cur[p]) /\ p # Refill
  BY DEF AtWork, Refills
<1>2. /\ connIds' \in [Id -> Nat]
      /\ Listed(cur[p])'
      /\ \A t \in Id : Listed(t) => Listed(t)'
      /\ \A t \in Id \ {cur[p]} : Listed(t)' => Listed(t)
  BY <1>1 DEF Listed, TypeOK, Bag
<1>3. TypeOK' /\ Links'
  BY <1>1, <1>2 DEF TypeOK, Links, Bag
<1>4. \A t \in Id : Known(t) => Known(t)'
  BY DEF Known
<1>5. AtWork' /\ Refills' /\ Boots'
  BY <1>1, <1>4 DEF AtWork, Refills, Boots, TypeOK, Proc
<1>6. \A t \in Id : Creating(t) => Creating(t)' \/ t = cur[p]
  BY DEF Creating, TypeOK
<1>7. Slices'
  BY <1>2, <1>4, <1>6 DEF Slices, TypeOK
<1>8. ListedKnown'
  BY <1>1, <1>2 DEF ListedKnown, Known
<1>9. WorkingListed'
  BY <1>1, <1>2, <1>6 DEF WorkingListed
<1>10. QED
  BY <1>3, <1>5, <1>7, <1>8, <1>9

\* The steps of a sender that leave the tables alone and create nothing.
LEMMA SenderStep ==
    ASSUME Inv, NEW p \in Proc,
           GetServer(p) \/ GetServerLoads(p) \/ GetsNone(p) \/ Write(p)
    PROVE  Inv'
<1> USE DEF Inv, Goto
<1>0. /\ UNCHANGED <<link, reader, conns, connIds, slice, want, lost>>
      /\ pc[p] \in {"idle", "load", "none", "send"}
      /\ p # Refill
      /\ cur' \in [Proc -> Id \cup {NoId}]
      /\ \A q \in Proc \ {p} : cur'[q] = cur[q]
  BY DEF GetServer, GetServerLoads, GetsNone, Write, TypeOK, Refills
<1>1. /\ pc'[p] \in {"none", "load", "drop", "send", "dial", "idle"}
      /\ pc' = [pc EXCEPT ![p] = pc'[p]]
      /\ pc'[p] \in {"load", "drop", "send"} => cur'[p] \in Id
      /\ pc'[p] = "drop" => link[cur'[p]] = "closed"
  <2>1. CASE GetServer(p)
    BY <2>1 DEF GetServer, TypeOK
  <2>2. CASE GetServerLoads(p)
    BY <2>2 DEF GetServerLoads, TypeOK, AtWork
  <2>3. CASE GetsNone(p) \/ Write(p)
    BY <2>3 DEF GetsNone, Write, TypeOK
  <2>4. QED
    BY <2>1, <2>2, <2>3
<1>2. /\ caller' \in [Proc -> {"nobody", "refill", "get", "send"}]
      /\ \A q \in Proc : caller'[q] = "refill" <=> caller[q] = "refill"
  BY <1>0 DEF GetServer, GetServerLoads, GetsNone, Write, TypeOK, Refills
<1>3. pc' \in [Proc -> {"boot", "idle", "load", "drop", "none", "dial", "store",
                         "append", "write", "set", "send", "failed"}]
  BY <1>1 DEF TypeOK
<1>4. TypeOK' /\ Links' /\ ListedKnown'
  BY <1>0, <1>2, <1>3 DEF TypeOK, Links, ListedKnown, Listed
<1>5. AtWork'
  BY <1>0, <1>1 DEF AtWork, TypeOK, Known
<1>6. Refills' /\ Boots'
  BY <1>0, <1>1, <1>2 DEF Refills, Boots, TypeOK, Proc
<1>7. \A t \in Id : Creating(t) <=> Creating(t)'
  BY <1>0, <1>1 DEF Creating, TypeOK
<1>8. Slices' /\ WorkingListed'
  BY <1>0, <1>1, <1>7 DEF Slices, WorkingListed, TypeOK, Listed, Known
<1>9. QED
  BY <1>4, <1>5, <1>6, <1>8

-----------------------------------------------------------------------------
(* The theorems.                                                           *)

LEMMA InvNext == Inv /\ [Next]_vars => Inv'
<1> SUFFICES ASSUME Inv, [Next]_vars PROVE Inv'
  OBVIOUS
<1>1. CASE \E p \in Proc : NewServer(p)
  BY <1>1, DialStep, DialFailsStep, StoreStep, AppendReadsStep, AppendWritesStep DEF NewServer
<1>2. CASE \E p \in Proc : SendToServer(p)
  BY <1>2, SenderStep, GetServerDropsStep, SetServerConnStep DEF SendToServer
<1>3. CASE RefillNext \/ Booted \/ RefillSizes
  BY <1>3, RefillNextStep, BootedStep, RefillSizesStep
<1>4. CASE \E t \in Id : Reader(t) \/ Breaks(t)
  BY <1>4, ReaderStep, BreaksStep
<1>5. CASE UNCHANGED vars
  BY <1>5 DEF vars, Inv, TypeOK, Links, AtWork, Refills, Boots, Slices, ListedKnown,
              WorkingListed, Known, Listed, Creating
<1>6. QED
  BY <1>1, <1>2, <1>3, <1>4, <1>5 DEF Next

\* The tables, the goroutines of the tunnels and the copies that appends work
\* on fit together.
THEOREM Invariant == Spec => []Inv
<1>1. Init => Inv
  BY InvInit
<1>2. Inv /\ [Next]_vars => Inv'
  BY InvNext
<1>3. QED
  BY <1>1, <1>2, PTL DEF Spec

\* ServerManage keeps its types, also when appends race.
THEOREM TypeCorrect == Spec => []TypeOK
<1>1. Inv => TypeOK
  BY DEF Inv
<1>2. QED
  BY <1>1, Invariant, PTL

\* GetServer (client.go) returns nil for a listed id only when the tunnel ended.
THEOREM KnownWhenListed == Spec => []ListedKnown
<1>1. Inv => ListedKnown
  BY DEF Inv
<1>2. QED
  BY <1>1, Invariant, PTL

\* A tunnel NewServer (client.go) has made is known to the senders until its
\* reader ends, unless a racing append overwrote its entry.
THEOREM Working == Spec => []WorkingListed
<1>1. Inv => WorkingListed
  BY DEF Inv
<1>2. QED
  BY <1>1, Invariant, PTL

\* The step formula of NoResurrection.
Returns == \A t \in Id : ~Listed(t) /\ Listed(t)' /\ reader[t] \in {"close", "done"}
                            => Creating(t) \/ t \in lost

LEMMA ReturnsNext == Inv /\ [Next]_vars => Returns
<1> SUFFICES ASSUME Inv, [Next]_vars, NEW t \in Id, ~Listed(t), Listed(t)'
             PROVE  Creating(t) \/ t \in lost
  BY DEF Returns
<1> USE DEF Inv, Listed
<1>1. CASE \E p \in Proc : AppendWrites(p)
  <2> PICK p \in Proc : AppendWrites(p)
    BY <1>1
  <2>1. CASE t = cur[p]
    BY <2>1 DEF AppendWrites, Creating
  <2>2. CASE t # cur[p]
    <3>1. slice[p][t] > 0 /\ pc[p] = "write"
      BY <2>2 DEF AppendWrites, TypeOK, Bag
    <3>2. QED
      BY <3>1 DEF Slices
  <2>3. QED
    BY <2>1, <2>2
<1>2. CASE \E p \in Proc : SetServerConn(p)
  BY <1>2 DEF SetServerConn, Creating, TypeOK, Bag
<1>3. CASE \E p \in Proc : GetServerDrops(p)
  BY <1>3 DEF GetServerDrops, DelServerConn, TypeOK, Bag
<1>4. CASE \E u \in Id : Reader(u)
  BY <1>4 DEF Reader, ReaderFails, ReaderDeletes, ReaderCloses, DelServerConn, TypeOK, Bag
<1>5. CASE \E p \in Proc : Dial(p) \/ DialFails(p) \/ Store(p) \/ AppendReads(p)
  BY <1>5 DEF Dial, DialFails, Store, AppendReads
<1>6. CASE \E p \in Proc : GetServer(p) \/ GetServerLoads(p) \/ GetsNone(p) \/ Write(p)
  BY <1>6 DEF GetServer, GetServerLoads, GetsNone, Write
<1>7. CASE RefillNext \/ Booted \/ RefillSizes \/ (\E u \in Id : Breaks(u)) \/ UNCHANGED vars
  BY <1>7 DEF RefillNext, Booted, RefillSizes, Breaks, vars
<1>8. QED
  BY <1>1, <1>2, <1>3, <1>4, <1>5, <1>6, <1>7 DEF Next, NewServer, SendToServer

\* A removed tunnel is not listed again by anybody's stale copy of connIds
\* (NewServer appends under RLock, DelServerConn deletes under Lock), for any
\* number of senders.
THEOREM NoReturn == Spec => NoResurrection
<1>1. Inv /\ [Next]_vars => Returns
  BY ReturnsNext
<1>2. Spec => [][Returns]_vars
  BY <1>1, Invariant, PTL DEF Spec
<1>3. QED
  BY <1>2 DEF NoResurrection, Returns

=============================================================================
