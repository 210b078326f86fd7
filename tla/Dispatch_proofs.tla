-------------------------- MODULE Dispatch_proofs --------------------------
(***************************************************************************)
(* Theorems about Dispatch, for every number of tunnels, clients, senders, *)
(* and all keys, bodies and counters the assumptions allow.                *)
(***************************************************************************)
EXTENDS Dispatch, Codec_proofs

USE DispatchAssumption

-----------------------------------------------------------------------------
(* The inductive invariant.                                                *)

\* The dispatch that conns has for t's client does not offer t.
Off(t) == conns[ClientOf[t]] # None => t \notin ids[conns[ClientOf[t]]]

Unused(t) == tunnel[t] \in {"new", "up"}

\* Where the event loop stands.
AtLoop ==
    /\ flag \in Flags
    /\ loop # "idle" => lt \in Conn
    /\ loop \in {"refuse", "admit", "store", "append", "enter"} => tunnel[lt] = "up"
    /\ loop \in {"store", "append", "enter"} => conns[ClientOf[lt]] = ld \/ ld \in orphan
    /\ loop \in {"append", "enter"} => lt \in table[ld]
    /\ loop = "enter" => lt \in ids[ld]
    /\ loop \in {"drop", "unlist", "count", "forget"} =>
          tunnel[lt] = "gone" /\ conns[ClientOf[lt]] \in {ld, None}
    /\ loop \in {"count", "forget"} => Off(lt)

\* Where Tick and the senders stand.
AtTick ==
    /\ tick # "idle" => te \in Conn /\ ~ Unused(te)
    /\ tick \notin {"idle", "load"} => td \in Conn
    /\ tick \in {"unstore", "unlist"} => tx \in Conn /\ tunnel[tx] \in {"gone", "closed"}
    /\ tick = "forget" => Off(te)
    /\ \A s \in Sender : /\ send[s] = "get" => sd[s] \in Conn
                         /\ send[s] = "write" => sc[s] \in Conn

\* A dispatch has tunnels of one client only.
Ours ==
    /\ \A c \in Client : conns[c] # None => ClientOf[conns[c]] = c
    /\ ld # None => ClientOf[ld] = ClientOf[lt]
    /\ \A d \in Conn : \A t \in ids[d] : ClientOf[t] = ClientOf[d]

Initing(t) == loop \in {"store", "append", "enter"} /\ lt = t

\* A tunnel whose INIT was not handled is in no table and names no dispatch.
NotYet ==
    /\ \A t \in Conn : Unused(t) => /\ t \notin connId2Id
                                    /\ \A d \in Conn : t \in ids[d] => loop = "enter" /\ lt = t
    /\ \A d \in Conn : Unused(d) /\ ~ Initing(d) =>
          /\ ids[d] = {} /\ ld # d
          /\ \A c \in Client : conns[c] # d

\* A tunnel without an entry in connId2Id is offered to nobody.
NoEntry == \A t \in Conn : ~ Unused(t) /\ t \notin connId2Id => Off(t)

\* A client has its key, or its script never brought it up.
Started == \A t \in Conn : tunnel[t] # "new" /\ ClientOf[t] \in Downloaded => ~ LosesKey(flag)

Inv ==
    /\ TypeOK /\ AtLoop /\ AtTick /\ Ours /\ NotYet /\ NoEntry
    /\ FrameIntact /\ OwnKeyAdmitted
    /\ IdsKnown /\ FoundUnlessHidden /\ DeadForgotten

LEMMA InvInit == Init => Inv
<1> SUFFICES ASSUME Init PROVE Inv
  OBVIOUS
<1> USE DEF Init
<1>1. TypeOK
  BY DEF TypeOK, OrNone
<1>2. AtLoop /\ AtTick /\ Ours /\ NotYet /\ NoEntry
  BY DEF AtLoop, AtTick, Ours, NotYet, NoEntry, Off, Unused, Initing
<1>3. FrameIntact /\ OwnKeyAdmitted /\ IdsKnown /\ FoundUnlessHidden /\ DeadForgotten
  BY DEF FrameIntact, OwnKeyAdmitted, IdsKnown, FoundUnlessHidden, DeadForgotten
<1>4. QED
  BY <1>1, <1>2, <1>3 DEF Inv

-----------------------------------------------------------------------------
(* Connections.                                                            *)

LEMMA ConnectsStep ==
    ASSUME Inv, NEW u \in Conn, Connects(u)
    PROVE  Inv'
<1> USE DEF Inv, Connects, tableVars, loopVars, tickVars, sendVars
<1>1. TypeOK'
  BY DEF TypeOK
<1>2. \A t \in Conn : (Unused(t) <=> Unused(t)') /\ (Off(t) <=> Off(t)')
  BY DEF Unused, Off, TypeOK
<1>3. AtLoop' /\ AtTick'
  BY <1>2 DEF AtLoop, AtTick, TypeOK, OrNone
<1>4. Ours' /\ NotYet' /\ NoEntry'
  BY <1>2 DEF Ours, NotYet, NoEntry, Initing
<1>5. FrameIntact' /\ OwnKeyAdmitted' /\ IdsKnown' /\ FoundUnlessHidden' /\ DeadForgotten'
  BY DEF FrameIntact, OwnKeyAdmitted, IdsKnown, FoundUnlessHidden, DeadForgotten, TypeOK
<1>6. QED
  BY <1>1, <1>3, <1>4, <1>5

LEMMA EndsStep ==
    ASSUME Inv, NEW u \in Conn, Ends(u)
    PROVE  Inv'
<1> USE DEF Inv, Ends, tableVars, loopVars, tickVars, sendVars
<1>1. TypeOK'
  BY DEF TypeOK
<1>2. \A t \in Conn : (Unused(t)' => Unused(t)) /\ (Off(t) <=> Off(t)')
  BY DEF Unused, Off, TypeOK
<1>3. AtLoop' /\ AtTick'
  BY <1>2 DEF AtLoop, AtTick, TypeOK, OrNone
<1>4. Off(u) \/ u \in connId2Id
  BY DEF NotYet, NoEntry, Unused, Off, TypeOK, OrNone
<1>5. Ours' /\ NotYet' /\ NoEntry'
  BY <1>2, <1>4 DEF Ours, NotYet, NoEntry, Initing, Unused, TypeOK
<1>6. FrameIntact' /\ OwnKeyAdmitted' /\ IdsKnown' /\ FoundUnlessHidden' /\ DeadForgotten'
  BY DEF FrameIntact, OwnKeyAdmitted, IdsKnown, FoundUnlessHidden, DeadForgotten, TypeOK
<1>7. QED
  BY <1>1, <1>3, <1>5, <1>6

-----------------------------------------------------------------------------
(* React and init.                                                         *)

\* What a client wrote with one key opens with the same key only.
LEMMA SameKey ==
    ASSUME NEW k1, NEW k2, NEW count, NEW data,
           ~ DecryptFails(k2, EncryptionData(k1, count, data))
    PROVE  k1 = k2
BY DEF DecryptFails, EncryptionData, AesFails, AesEncrypt

LEMMA ReactStep ==
    ASSUME Inv, Started, NEW u \in Conn, React(u)
    PROVE  Inv'
<1> USE DEF Inv, React, tableVars, tickVars, sendVars
<1>1. TypeOK'
  BY DEF TypeOK, OrNone
<1>2. \A t \in Conn : (Unused(t) <=> Unused(t)') /\ (Off(t) <=> Off(t)')
  BY DEF Unused, Off, TypeOK
<1>3. AtLoop' /\ AtTick'
  BY <1>2 DEF AtLoop, AtTick, TypeOK
<1>4. Ours' /\ NotYet' /\ NoEntry'
  BY <1>2 DEF Ours, NotYet, NoEntry, Initing, TypeOK
<1>5. IdsKnown' /\ FoundUnlessHidden' /\ DeadForgotten'
  BY DEF IdsKnown, FoundUnlessHidden, DeadForgotten
<1>6. FrameIntact' /\ OwnKeyAdmitted'
  <2> PICK b \in Bodies, count \in Counts :
          LET frame == WriteFrame(ClientOf[u], count, b)
          IN  IF DecryptFails(ServerKey, frame)
              THEN loop' = "refuse" /\ UNCHANGED <<body, got>>
              ELSE /\ loop' = "admit"
                   /\ body' = b
                   /\ got' = DecryptData(ServerKey, frame)
    OBVIOUS
  <2>1. b \in Seq(Byte) /\ count \in Nat /\ flag \in Seq(STRING) /\ Len(flag) <= MaxKey
    BY DEF Byte, AtLoop
  <2> DEFINE key == ClientKey(ClientOf[u])
             frame == EncryptionData(key, count, b)
  <2>2. WriteFrame(ClientOf[u], count, b) = frame
    BY DEF WriteFrame
  <2>3. CASE DecryptFails(ServerKey, frame)
    <3>1. key # ServerKey
      <4> HIDE DEF key
      <4>1. QED
        BY <2>1, <2>3, RoundTrip
    <3>2. ClientOf[u] \in Downloaded /\ LosesBlock(flag)
      <4>1. ClientOf[u] \in Downloaded => ~ LosesKey(flag)
        BY DEF Started
      <4>2. ClientOf[u] \in Downloaded /\ PadKey(DownloadKey(flag)) # PadKey(flag)
        BY <3>1 DEF ClientKey, ServerKey
      <4>3. QED
        BY <2>1, <4>1, <4>2, DownloadedKeyFits
    <3>3. loop' = "refuse" /\ lt' = u /\ flag' = flag
      BY <2>2, <2>3
    <3>4. QED
      BY <3>2, <3>3 DEF FrameIntact, OwnKeyAdmitted
  <2>4. CASE ~ DecryptFails(ServerKey, frame)
    <3>1. loop' = "admit" /\ body' = b /\ got' = DecryptData(ServerKey, frame)
      BY <2>2, <2>4
    <3> HIDE DEF key
    <3>2. key = ServerKey
      BY <2>4, SameKey
    <3>3. DecryptData(key, frame) = b
      BY <2>1, RoundTrip
    <3>4. QED
      BY <3>1, <3>2, <3>3 DEF FrameIntact, OwnKeyAdmitted
  <2>5. QED
    BY <2>3, <2>4
<1>7. QED
  BY <1>1, <1>3, <1>4, <1>5, <1>6

LEMMA RefuseStep ==
    ASSUME Inv, Refuse
    PROVE  Inv'
<1> USE DEF Inv, Refuse, tableVars, tickVars, sendVars
<1>1. lt \in Conn /\ tunnel[lt] = "up" /\ ld = None
  BY DEF AtLoop, TypeOK
<1> PICK end \in {"in", "gone"} : tunnel' = [tunnel EXCEPT ![lt] = end]
  OBVIOUS
<1>2. TypeOK'
  BY <1>1 DEF TypeOK, OrNone
<1>3. \A t \in Conn : (Unused(t)' => Unused(t)) /\ (Off(t) <=> Off(t)')
  BY <1>1 DEF Unused, Off, TypeOK
<1>4. AtLoop' /\ AtTick'
  BY <1>1, <1>3 DEF AtLoop, AtTick, TypeOK, OrNone
<1>5. Off(lt) /\ lt \notin connId2Id
  BY <1>1 DEF NotYet, Unused, Off, TypeOK, OrNone
<1>6. Ours' /\ NotYet' /\ NoEntry'
  BY <1>1, <1>3, <1>5 DEF Ours, NotYet, NoEntry, Initing, Unused, TypeOK
<1>7. FrameIntact' /\ OwnKeyAdmitted' /\ IdsKnown' /\ FoundUnlessHidden' /\ DeadForgotten'
  BY <1>1, <1>5 DEF FrameIntact, OwnKeyAdmitted, IdsKnown, FoundUnlessHidden, DeadForgotten, TypeOK
<1>8. QED
  BY <1>2, <1>4, <1>6, <1>7

LEMMA InitLoadsStep ==
    ASSUME Inv, InitLoads
    PROVE  Inv'
<1> USE DEF Inv, InitLoads, tickVars, sendVars
<1> DEFINE c == ClientOf[lt]
<1>1. /\ lt \in Conn /\ tunnel[lt] = "up" /\ c \in Client
      /\ ld' \in Conn
      /\ conns' = [conns EXCEPT ![c] = ld'] /\ conns'[c] = ld'
      /\ conns[c] # None => ld' = conns[c]
      /\ conns[c] = None => ld' = lt
  BY DEF AtLoop, TypeOK, OrNone
<1>2. TypeOK'
  BY <1>1 DEF TypeOK, OrNone
<1>3. \A t \in Conn : Unused(t) <=> Unused(t)'
  BY DEF Unused
<1>4. ids[lt] = {}
  BY <1>1 DEF NotYet, Unused, Initing
<1>5. \A t \in Conn : Off(t) => Off(t)'
  <2> SUFFICES ASSUME NEW t \in Conn, Off(t) PROVE Off(t)'
    OBVIOUS
  <2>1. CASE ClientOf[t] = c /\ conns[c] = None
    BY <1>1, <1>4, <2>1 DEF Off
  <2>2. CASE ~ (ClientOf[t] = c /\ conns[c] = None)
    BY <1>1, <2>2 DEF Off, TypeOK
  <2>3. QED
    BY <2>1, <2>2
<1>6. AtLoop'
  BY <1>1 DEF AtLoop
<1>7. AtTick'
  BY <1>3, <1>5 DEF AtTick, TypeOK, OrNone
<1>8. Ours'
  BY <1>1 DEF Ours, TypeOK
<1>9. \A d \in Conn : Unused(d) /\ d # lt =>
          /\ ids[d] = {} /\ ld' # d
          /\ \A k \in Client : conns'[k] # d
  BY <1>1 DEF NotYet, Initing, TypeOK
<1>10. NotYet'
  BY <1>1, <1>3, <1>9 DEF NotYet, Initing
<1>11. NoEntry'
  BY <1>3, <1>5 DEF NoEntry
<1>12. FrameIntact' /\ OwnKeyAdmitted' /\ IdsKnown'
  BY DEF FrameIntact, OwnKeyAdmitted, IdsKnown
<1>13. FoundUnlessHidden'
  BY <1>1 DEF FoundUnlessHidden, TypeOK
<1>14. DeadForgotten'
  BY <1>1, <1>4 DEF DeadForgotten, TypeOK
<1>15. QED
  BY <1>2, <1>6, <1>7, <1>8, <1>10, <1>11, <1>12, <1>13, <1>14

LEMMA InitStoresStep ==
    ASSUME Inv, InitStores
    PROVE  Inv'
<1> USE DEF Inv, InitStores, tickVars, sendVars
<1>1. lt \in Conn /\ ld \in Conn /\ tunnel[lt] = "up"
  BY DEF AtLoop, TypeOK, OrNone
<1>2. TypeOK'
  BY <1>1 DEF TypeOK
<1>3. \A t \in Conn : (Unused(t) <=> Unused(t)') /\ (Off(t) <=> Off(t)')
  BY DEF Unused, Off
<1>4. AtLoop' /\ AtTick'
  BY <1>1, <1>3 DEF AtLoop, AtTick, TypeOK
<1>5. Ours' /\ NotYet' /\ NoEntry'
  BY <1>3 DEF Ours, NotYet, NoEntry, Initing
<1>6. FrameIntact' /\ OwnKeyAdmitted' /\ IdsKnown' /\ FoundUnlessHidden' /\ DeadForgotten'
  BY DEF FrameIntact, OwnKeyAdmitted, IdsKnown, FoundUnlessHidden, DeadForgotten, TypeOK
<1>7. QED
  BY <1>2, <1>4, <1>5, <1>6

LEMMA InitAppendsStep ==
    ASSUME Inv, InitAppends
    PROVE  Inv'
<1> USE DEF Inv, InitAppends, tickVars, sendVars
<1>1. lt \in Conn /\ ld \in Conn /\ tunnel[lt] = "up" /\ lt \in table[ld]
  BY DEF AtLoop, TypeOK, OrNone
<1>2. TypeOK'
  BY <1>1 DEF TypeOK
<1>3. \A t \in Conn : /\ Unused(t) <=> Unused(t)'
                      /\ t # lt => (Off(t) <=> Off(t)')
  BY <1>1 DEF Unused, Off, TypeOK, OrNone
<1>4. /\ lt \in ids'[ld]
      /\ \A d \in Conn : ids'[d] = IF d = ld THEN ids[d] \cup {lt} ELSE ids[d]
  BY <1>1 DEF TypeOK
<1>5. AtLoop'
  <2>1. /\ loop' = "enter" /\ lt \in ids'[ld]
        /\ tunnel' = tunnel /\ conns' = conns /\ table' = table
        /\ lt' = lt /\ ld' = ld /\ flag' = flag /\ orphan' = orphan
    BY <1>1, <1>4
  <2>2. conns[ClientOf[lt]] = ld \/ ld \in orphan
    BY DEF AtLoop
  <2>3. flag \in Flags
    BY DEF AtLoop
  <2> HIDE DEF InitAppends, Inv
  <2>4. QED
    BY <1>1, <2>1, <2>2, <2>3 DEF AtLoop
<1>6. AtTick'
  BY <1>1, <1>3 DEF AtTick, Unused, TypeOK, OrNone
<1>7. Ours'
  BY <1>1, <1>4 DEF Ours
<1>8. NotYet'
  BY <1>1, <1>3, <1>4 DEF NotYet, Initing
<1>9. NoEntry'
  BY <1>1, <1>3 DEF NoEntry, Unused
<1>10. FrameIntact' /\ OwnKeyAdmitted'
  BY DEF FrameIntact, OwnKeyAdmitted
<1>11. IdsKnown'
  BY <1>1, <1>4 DEF IdsKnown
<1>12. FoundUnlessHidden'
  BY <1>4 DEF FoundUnlessHidden
<1>13. DeadForgotten'
  BY <1>1, <1>4 DEF DeadForgotten, TypeOK, OrNone
<1>14. QED
  BY <1>2, <1>5, <1>6, <1>7, <1>8, <1>9, <1>10, <1>11, <1>12, <1>13

LEMMA InitEntersStep ==
    ASSUME Inv, InitEnters
    PROVE  Inv'
<1> USE DEF Inv, InitEnters, tickVars, sendVars
<1>1. /\ lt \in Conn /\ ld \in Conn /\ tunnel[lt] = "up"
      /\ lt \in table[ld] \cap ids[ld] /\ ClientOf[ld] = ClientOf[lt]
      /\ conns[ClientOf[lt]] = ld \/ ld \in orphan
  BY DEF AtLoop, Ours, TypeOK, OrNone
<1>2. TypeOK'
  BY <1>1 DEF TypeOK, OrNone
<1>3. \A t \in Conn : /\ Unused(t)' <=> Unused(t) /\ t # lt
                      /\ Off(t) <=> Off(t)'
  BY <1>1 DEF Unused, Off, TypeOK
<1>4. AtLoop' /\ AtTick'
  BY <1>1, <1>3 DEF AtLoop, AtTick, TypeOK, OrNone
<1>5. Ours'
  BY DEF Ours
<1>6. NotYet'
  BY <1>3 DEF NotYet, Initing
<1>7. NoEntry'
  BY <1>3 DEF NoEntry
<1>8. FrameIntact' /\ OwnKeyAdmitted' /\ IdsKnown'
  BY DEF FrameIntact, OwnKeyAdmitted, IdsKnown
<1>9. FoundUnlessHidden'
  BY <1>1 DEF FoundUnlessHidden, TypeOK
<1>10. DeadForgotten'
  BY <1>1 DEF DeadForgotten, TypeOK
<1>11. QED
  BY <1>2, <1>4, <1>5, <1>6, <1>7, <1>8, <1>9, <1>10

-----------------------------------------------------------------------------
(* OnClosed.                                                               *)

LEMMA OnClosedStep ==
    ASSUME Inv, NEW u \in Conn, OnClosed(u)
    PROVE  Inv'
<1> USE DEF Inv, OnClosed, tableVars, tickVars, sendVars
<1> DEFINE c == ClientOf[u]
<1>1. CASE u \notin connId2Id \/ conns[c] = None
  <2>1. tunnel' = [tunnel EXCEPT ![u] = "closed"] /\ UNCHANGED <<loop, lt, ld>>
    BY <1>1
  <2>2. TypeOK'
    BY <2>1 DEF TypeOK
  <2>3. \A t \in Conn : (Unused(t) <=> Unused(t)') /\ (Off(t) <=> Off(t)')
    BY <2>1 DEF Unused, Off, TypeOK
  <2>4. AtLoop' /\ AtTick'
    BY <2>1, <2>3 DEF AtLoop, AtTick, TypeOK, OrNone
  <2>5. Ours' /\ NotYet' /\ NoEntry'
    BY <2>1, <2>3 DEF Ours, NotYet, NoEntry, Initing
  <2>6. FrameIntact' /\ OwnKeyAdmitted' /\ IdsKnown' /\ FoundUnlessHidden'
    BY <2>1 DEF FrameIntact, OwnKeyAdmitted, IdsKnown, FoundUnlessHidden, TypeOK
  <2>7. Off(u)
    BY <1>1 DEF NoEntry, Unused, Off
  <2>8. \A k \in Client : conns[k] # None => u \notin ids[conns[k]]
    BY <2>7 DEF Off, Ours, TypeOK, OrNone
  <2>9. DeadForgotten'
    BY <2>1, <2>8 DEF DeadForgotten, TypeOK
  <2>10. QED
    BY <2>2, <2>4, <2>5, <2>6, <2>9
<1>2. CASE ~ (u \notin connId2Id \/ conns[c] = None)
  <2>1. /\ lt' = u /\ ld' = conns[c] /\ loop' = "drop" /\ ld' \in Conn
        /\ ClientOf[ld'] = c /\ UNCHANGED tunnel
    BY <1>2 DEF TypeOK, OrNone, Ours
  <2>2. TypeOK'
    BY <2>1 DEF TypeOK, OrNone
  <2>3. \A t \in Conn : (Unused(t) <=> Unused(t)') /\ (Off(t) <=> Off(t)')
    BY <2>1 DEF Unused, Off, TypeOK
  <2>4. AtLoop' /\ AtTick'
    BY <2>1, <2>3 DEF AtLoop, AtTick, TypeOK, OrNone
  <2>5. Ours' /\ NoEntry'
    BY <2>1, <2>3 DEF Ours, NoEntry
  <2>6. NotYet'
    BY <2>1, <2>3 DEF NotYet, Initing
  <2>7. FrameIntact' /\ OwnKeyAdmitted' /\ IdsKnown' /\ FoundUnlessHidden' /\ DeadForgotten'
    BY <2>1 DEF FrameIntact, OwnKeyAdmitted, IdsKnown, FoundUnlessHidden, DeadForgotten
  <2>8. QED
    BY <2>2, <2>4, <2>5, <2>6, <2>7
<1>3. QED
  BY <1>1, <1>2

LEMMA CloseDropsStep ==
    ASSUME Inv, CloseDrops
    PROVE  Inv'
<1> USE DEF Inv, CloseDrops, tickVars, sendVars
<1>1. lt \in Conn /\ ld \in Conn /\ tunnel[lt] = "gone"
  BY DEF AtLoop, TypeOK, OrNone
<1>2. TypeOK'
  BY <1>1 DEF TypeOK
<1>3. \A t \in Conn : (Unused(t) <=> Unused(t)') /\ (Off(t) <=> Off(t)')
  BY DEF Unused, Off
<1>4. AtLoop' /\ AtTick'
  BY <1>1, <1>3 DEF AtLoop, AtTick, TypeOK
<1>5. Ours' /\ NotYet' /\ NoEntry'
  BY <1>3 DEF Ours, NotYet, NoEntry, Initing
<1>6. FrameIntact' /\ OwnKeyAdmitted' /\ IdsKnown' /\ DeadForgotten'
  BY DEF FrameIntact, OwnKeyAdmitted, IdsKnown, DeadForgotten, TypeOK
<1>7. FoundUnlessHidden'
  BY <1>1 DEF FoundUnlessHidden, TypeOK
<1>8. QED
  BY <1>2, <1>4, <1>5, <1>6, <1>7

LEMMA CloseUnlistsStep ==
    ASSUME Inv, CloseUnlists
    PROVE  Inv'
<1> USE DEF Inv, CloseUnlists, tickVars, sendVars
<1>1. /\ lt \in Conn /\ ld \in Conn /\ tunnel[lt] = "gone"
      /\ conns[ClientOf[lt]] \in {ld, None}
  BY DEF AtLoop, TypeOK, OrNone
<1>2. TypeOK'
  BY <1>1 DEF TypeOK
<1>3. \A d \in Conn : ids'[d] = IF d = ld THEN ids[d] \ {lt} ELSE ids[d]
  BY DEF TypeOK
<1>4. Off(lt)' /\ \A t \in Conn : (Unused(t) <=> Unused(t)') /\ (Off(t) => Off(t)')
  BY <1>1, <1>3 DEF Unused, Off, TypeOK, OrNone
<1>5. AtLoop' /\ AtTick'
  BY <1>1, <1>4 DEF AtLoop, AtTick, TypeOK, OrNone
<1>6. Ours' /\ NotYet' /\ NoEntry'
  BY <1>3, <1>4 DEF Ours, NotYet, NoEntry, Initing
<1>7. FrameIntact' /\ OwnKeyAdmitted'
  BY DEF FrameIntact, OwnKeyAdmitted
<1>8. IdsKnown'
  <2> SUFFICES ASSUME NEW d \in Conn, NEW t \in ids'[d] \ table[d]
               PROVE  tick = "unlist" /\ td = d /\ tx = t
    BY DEF IdsKnown
  <2>1. t \in ids[d] \ table[d] /\ ~ (d = ld /\ t = lt)
    <3> HIDE DEF CloseUnlists, Inv
    <3>1. CASE d = ld
      <4>1. ids'[d] = ids[d] \ {lt}
        BY <1>3, <3>1
      <4>2. QED
        BY <4>1
    <3>2. CASE d # ld
      BY <1>3, <3>2
    <3>3. QED
      BY <3>1, <3>2
  <2>2. QED
    BY <2>1 DEF IdsKnown
<1>9. FoundUnlessHidden' /\ DeadForgotten'
  BY <1>1, <1>3 DEF FoundUnlessHidden, DeadForgotten, TypeOK, OrNone
<1>10. QED
  BY <1>2, <1>5, <1>6, <1>7, <1>8, <1>9

LEMMA CloseCountsStep ==
    ASSUME Inv, CloseCounts
    PROVE  Inv'
<1> USE DEF Inv, CloseCounts, tickVars, sendVars
<1>1. /\ lt \in Conn /\ ld \in Conn /\ tunnel[lt] = "gone" /\ Off(lt)
      /\ conns[ClientOf[lt]] \in {ld, None}
  BY DEF AtLoop, TypeOK, OrNone
<1>2. TypeOK'
  BY <1>1 DEF TypeOK, OrNone
<1>3. \A k \in Client : \/ conns'[k] = conns[k]
                        \/ conns'[k] = None /\ k = ClientOf[lt] /\ ids[ld] = {}
  BY DEF TypeOK
<1>4. \A t \in Conn : (Unused(t) <=> Unused(t)') /\ (Off(t) => Off(t)')
  BY <1>3 DEF Unused, Off
<1>5. AtLoop'
  <2>1. conns'[ClientOf[lt]] \in {ld, None} /\ Off(lt)'
    BY <1>1, <1>3, <1>4 DEF TypeOK
  <2>2. QED
    BY <1>1, <2>1 DEF AtLoop
<1>6. AtTick'
  BY <1>4 DEF AtTick, TypeOK, OrNone
<1>7. Ours' /\ NoEntry'
  BY <1>3, <1>4 DEF Ours, NoEntry
<1>8. NotYet'
  BY <1>3, <1>4 DEF NotYet, Initing
<1>9. FrameIntact' /\ OwnKeyAdmitted' /\ IdsKnown'
  BY DEF FrameIntact, OwnKeyAdmitted, IdsKnown
<1>10. FoundUnlessHidden' /\ DeadForgotten'
  BY <1>1, <1>3 DEF FoundUnlessHidden, DeadForgotten
<1>11. QED
  BY <1>2, <1>5, <1>6, <1>7, <1>8, <1>9, <1>10

LEMMA CloseForgetsStep ==
    ASSUME Inv, CloseForgets
    PROVE  Inv'
<1> USE DEF Inv, CloseForgets, tickVars, sendVars
<1>1. lt \in Conn /\ tunnel[lt] = "gone" /\ Off(lt)
  BY DEF AtLoop
<1>2. TypeOK'
  BY <1>1 DEF TypeOK, OrNone
<1>3. \A t \in Conn : (Unused(t) <=> Unused(t)') /\ (Off(t) <=> Off(t)')
  BY <1>1 DEF Unused, Off, TypeOK
<1>4. AtLoop' /\ AtTick'
  BY <1>1, <1>3 DEF AtLoop, AtTick, TypeOK, OrNone
<1>5. Ours' /\ NotYet' /\ NoEntry'
  BY <1>1, <1>3 DEF Ours, NotYet, NoEntry, Initing
<1>6. FrameIntact' /\ OwnKeyAdmitted' /\ IdsKnown' /\ FoundUnlessHidden'
  BY DEF FrameIntact, OwnKeyAdmitted, IdsKnown, FoundUnlessHidden, TypeOK
<1>7. \A k \in Client : conns[k] # None => lt \notin ids[conns[k]]
  BY <1>1 DEF Off, Ours, TypeOK, OrNone
<1>8. DeadForgotten'
  BY <1>1, <1>7 DEF DeadForgotten, TypeOK
<1>9. QED
  BY <1>2, <1>4, <1>5, <1>6, <1>8

-----------------------------------------------------------------------------
(* Tick.                                                                   *)

\* The steps that change no table.
LEMMA TickLooksStep ==
    ASSUME Inv, (\E t \in Conn : TickReads(t)) \/ TickLoads \/ TickCounts \/ TickPings
    PROVE  Inv'
<1> USE DEF Inv, tableVars, loopVars, sendVars
<1>1. UNCHANGED <<tunnel, tableVars, loopVars, sendVars, flag, orphan>>
  BY DEF TickReads, TickLoads, TickCounts, TickPings
<1>2. tick # "unlist" /\ tick' # "unlist"
  BY DEF TickReads, TickLoads, TickCounts, TickPings, TickIdles
<1>3. /\ tick' \in {"idle", "load", "count", "hide", "range", "unstore"}
      /\ te' \in OrNone /\ td' \in OrNone /\ tx' \in OrNone
      /\ tick' # "idle" => te' \in Conn /\ ~ Unused(te')
      /\ tick' \notin {"idle", "load"} => td' \in Conn
      /\ tick' = "unstore" => tx' \in Conn /\ tunnel[tx'] \in {"gone", "closed"}
  <2>1. CASE \E t \in Conn : TickReads(t)
    BY <2>1 DEF TickReads, NotYet, TypeOK, OrNone
  <2>2. CASE TickLoads
    BY <2>2 DEF TickLoads, TickIdles, AtTick, TypeOK, OrNone
  <2>3. CASE TickCounts
    BY <2>3 DEF TickCounts, AtTick, TypeOK, OrNone
  <2>4. CASE TickPings
    BY <2>4 DEF TickPings, TickIdles, AtTick, TypeOK, OrNone
  <2>5. QED
    BY <2>1, <2>2, <2>3, <2>4
<1>4. TypeOK'
  BY <1>1, <1>3 DEF TypeOK
<1>5. \A t \in Conn : (Unused(t) <=> Unused(t)') /\ (Off(t) <=> Off(t)')
  BY <1>1 DEF Unused, Off
<1>6. AtLoop'
  BY <1>1, <1>5 DEF AtLoop
<1>7. AtTick'
  BY <1>1, <1>2, <1>3, <1>5 DEF AtTick
<1>8. Ours' /\ NotYet' /\ NoEntry'
  BY <1>1, <1>5 DEF Ours, NotYet, NoEntry, Initing
<1>9. FrameIntact' /\ OwnKeyAdmitted' /\ FoundUnlessHidden' /\ DeadForgotten'
  BY <1>1 DEF FrameIntact, OwnKeyAdmitted, FoundUnlessHidden, DeadForgotten
<1>10. IdsKnown'
  BY <1>1, <1>2 DEF IdsKnown
<1>11. QED
  BY <1>4, <1>6, <1>7, <1>8, <1>9, <1>10

LEMMA TickHidesStep ==
    ASSUME Inv, TickHides
    PROVE  Inv'
<1> USE DEF Inv, TickHides, loopVars, sendVars
<1> DEFINE c == ClientOf[te]
<1>1. te \in Conn /\ c \in Client /\ conns[c] \in OrNone
  BY DEF AtTick, TypeOK
<1>2. TypeOK'
  BY <1>1 DEF TypeOK, OrNone
<1>3. /\ conns'[c] = None
      /\ \A k \in Client : k # c => conns'[k] = conns[k]
      /\ orphan \subseteq orphan'
      /\ conns[c] # None => conns[c] \in orphan'
  BY <1>1 DEF TypeOK
<1>4. \A t \in Conn : (Unused(t) <=> Unused(t)') /\ (Off(t) => Off(t)')
  BY <1>3 DEF Unused, Off
<1>5. AtLoop'
  <2>1. loop \in {"store", "append", "enter"} => conns'[ClientOf[lt]] = ld \/ ld \in orphan'
    BY <1>3 DEF AtLoop, TypeOK, OrNone
  <2>2. loop \in {"drop", "unlist", "count", "forget"} => conns'[ClientOf[lt]] \in {ld, None}
    BY <1>3 DEF AtLoop
  <2>3. loop \in {"count", "forget"} => Off(lt)'
    BY <1>4 DEF AtLoop
  <2>4. QED
    BY <2>1, <2>2, <2>3 DEF AtLoop
<1>6. Off(te)'
  BY <1>3 DEF Off
<1>7. AtTick'
  BY <1>1, <1>4, <1>6 DEF AtTick
<1>8. Ours' /\ NoEntry'
  BY <1>3, <1>4 DEF Ours, NoEntry
<1>9. NotYet'
  BY <1>3, <1>4 DEF NotYet, Initing
<1>10. FrameIntact' /\ OwnKeyAdmitted' /\ IdsKnown'
  BY DEF FrameIntact, OwnKeyAdmitted, IdsKnown
<1>11. FoundUnlessHidden' /\ DeadForgotten'
  BY <1>1, <1>3 DEF FoundUnlessHidden, DeadForgotten, OrNone
<1>12. QED
  BY <1>2, <1>5, <1>7, <1>8, <1>9, <1>10, <1>11

LEMMA TickForgetsStep ==
    ASSUME Inv, TickForgets
    PROVE  Inv'
<1> USE DEF Inv, TickForgets, TickIdles, loopVars, sendVars
<1>1. te \in Conn /\ Off(te)
  BY DEF AtTick
<1>2. TypeOK'
  BY DEF TypeOK, OrNone
<1>3. \A t \in Conn : (Unused(t) <=> Unused(t)') /\ (Off(t) <=> Off(t)')
  BY DEF Unused, Off
<1>4. AtLoop' /\ AtTick'
  BY <1>3 DEF AtLoop, AtTick
<1>5. Ours' /\ NotYet' /\ NoEntry'
  BY <1>1, <1>3 DEF Ours, NotYet, NoEntry, Initing
<1>6. FrameIntact' /\ OwnKeyAdmitted' /\ IdsKnown' /\ FoundUnlessHidden' /\ DeadForgotten'
  BY DEF FrameIntact, OwnKeyAdmitted, IdsKnown, FoundUnlessHidden, DeadForgotten
<1>7. QED
  BY <1>2, <1>4, <1>5, <1>6

LEMMA TickUnstoresStep ==
    ASSUME Inv, TickUnstores
    PROVE  Inv'
<1> USE DEF Inv, TickUnstores, loopVars, sendVars
<1>1. td \in Conn /\ tx \in Conn /\ tunnel[tx] \in {"gone", "closed"}
  BY DEF AtTick
<1>2. TypeOK'
  BY <1>1 DEF TypeOK
<1>3. \A t \in Conn : (Unused(t) <=> Unused(t)') /\ (Off(t) <=> Off(t)')
  BY DEF Unused, Off
<1>4. \A d, t \in Conn : t \in table[d] /\ ~ (d = td /\ t = tx) => t \in table'[d]
  BY DEF TypeOK
<1>5. AtLoop'
  <2>1. loop \in {"append", "enter"} => lt \in table'[ld]
    BY <1>1, <1>4 DEF AtLoop, TypeOK, OrNone
  <2>2. QED
    BY <1>3, <2>1 DEF AtLoop
<1>6. AtTick'
  BY <1>1, <1>3 DEF AtTick
<1>7. Ours' /\ NotYet' /\ NoEntry'
  BY <1>3 DEF Ours, NotYet, NoEntry, Initing
<1>8. FrameIntact' /\ OwnKeyAdmitted' /\ DeadForgotten'
  BY DEF FrameIntact, OwnKeyAdmitted, DeadForgotten
<1>9. IdsKnown'
  BY <1>4 DEF IdsKnown, TypeOK
<1>10. FoundUnlessHidden'
  BY <1>1, <1>4 DEF FoundUnlessHidden
<1>11. QED
  BY <1>2, <1>5, <1>6, <1>7, <1>8, <1>9, <1>10

LEMMA TickUnlistsStep ==
    ASSUME Inv, TickUnlists
    PROVE  Inv'
<1> USE DEF Inv, TickUnlists, loopVars, sendVars
<1>1. td \in Conn /\ tx \in Conn /\ tunnel[tx] \in {"gone", "closed"}
  BY DEF AtTick
<1>2. TypeOK'
  BY <1>1 DEF TypeOK, OrNone
<1>3. \A d, t \in Conn : t \in ids'[d] <=> t \in ids[d] /\ ~ (d = td /\ t = tx)
  BY DEF TypeOK
<1>4. \A d \in Conn : ids'[d] \in SUBSET Conn /\ ids[d] \in SUBSET Conn
  BY <1>2 DEF TypeOK
<1>5. \A t \in Conn : (Unused(t) <=> Unused(t)') /\ (Off(t) => Off(t)')
  BY <1>3 DEF Unused, Off, TypeOK, OrNone
<1>6. AtLoop'
  <2>1. loop = "enter" => lt \in ids'[ld]
    BY <1>1, <1>3 DEF AtLoop, TypeOK, OrNone
  <2>2. loop \in {"count", "forget"} => Off(lt)'
    BY <1>5 DEF AtLoop
  <2>3. QED
    BY <2>1, <2>2 DEF AtLoop
<1>7. AtTick'
  BY <1>1, <1>5 DEF AtTick
<1>8. Ours' /\ NoEntry'
  BY <1>3, <1>4, <1>5 DEF Ours, NoEntry
<1>9. NotYet'
  BY <1>3, <1>4, <1>5 DEF NotYet, Initing
<1>10. FrameIntact' /\ OwnKeyAdmitted'
  BY DEF FrameIntact, OwnKeyAdmitted
<1>11. IdsKnown'
  BY <1>3, <1>4 DEF IdsKnown
<1>12. FoundUnlessHidden' /\ DeadForgotten'
  BY <1>1, <1>3 DEF FoundUnlessHidden, DeadForgotten, TypeOK, OrNone
<1>13. QED
  BY <1>2, <1>6, <1>7, <1>8, <1>9, <1>10, <1>11, <1>12

-----------------------------------------------------------------------------
(* SendToClient.                                                           *)

LEMMA SendStep ==
    ASSUME Inv, NEW s \in Sender, SendToClient(s)
    PROVE  Inv'
<1> USE DEF Inv, tableVars, loopVars, tickVars
<1>1. UNCHANGED <<tunnel, tableVars, loopVars, tickVars, flag, orphan>>
  BY DEF SendToClient, SendLoads, SendGets, SendWrites
<1>2. /\ send' \in [Sender -> {"load", "get", "write"}]
      /\ sd' \in [Sender -> OrNone] /\ sc' \in [Sender -> OrNone]
      /\ \A q \in Sender : /\ send'[q] = "get" => sd'[q] \in Conn
                           /\ send'[q] = "write" => sc'[q] \in Conn
  <2>1. CASE SendLoads(s)
    BY <2>1 DEF SendLoads, AtTick, TypeOK, OrNone
  <2>2. CASE SendGets(s)
    BY <2>2 DEF SendGets, AtTick, TypeOK, OrNone
  <2>3. CASE SendWrites(s)
    BY <2>3 DEF SendWrites, AtTick, TypeOK, OrNone
  <2>4. QED
    BY <2>1, <2>2, <2>3 DEF SendToClient
<1>3. TypeOK'
  BY <1>1, <1>2 DEF TypeOK
<1>4. \A t \in Conn : (Unused(t) <=> Unused(t)') /\ (Off(t) <=> Off(t)')
  BY <1>1 DEF Unused, Off
<1>5. AtLoop' /\ AtTick'
  BY <1>1, <1>2, <1>4 DEF AtLoop, AtTick
<1>6. Ours' /\ NotYet' /\ NoEntry'
  BY <1>1, <1>4 DEF Ours, NotYet, NoEntry, Initing
<1>7. FrameIntact' /\ OwnKeyAdmitted' /\ IdsKnown' /\ FoundUnlessHidden' /\ DeadForgotten'
  BY <1>1 DEF FrameIntact, OwnKeyAdmitted, IdsKnown, FoundUnlessHidden, DeadForgotten
<1>8. QED
  BY <1>3, <1>5, <1>6, <1>7

-----------------------------------------------------------------------------
(* The theorems.                                                           *)

LEMMA InvNext == Inv /\ Started /\ [Next]_vars => Inv'
<1> SUFFICES ASSUME Inv, Started, [Next]_vars PROVE Inv'
  OBVIOUS
<1>1. CASE \E t \in Conn : Connects(t) \/ Ends(t)
  BY <1>1, ConnectsStep, EndsStep
<1>2. CASE Loop
  BY <1>2, ReactStep, RefuseStep, InitLoadsStep, InitStoresStep, InitAppendsStep, InitEntersStep,
     OnClosedStep, CloseDropsStep, CloseUnlistsStep, CloseCountsStep, CloseForgetsStep
     DEF Loop
<1>3. CASE Tick
  BY <1>3, TickLooksStep, TickHidesStep, TickForgetsStep, TickUnstoresStep, TickUnlistsStep
     DEF Tick
<1>4. CASE \E s \in Sender : SendToClient(s)
  BY <1>4, SendStep
<1>5. CASE UNCHANGED vars
  <2> USE <1>5 DEF Inv, vars, tableVars, loopVars, tickVars, sendVars
  <2>1. TypeOK' /\ AtLoop' /\ AtTick' /\ Ours' /\ NotYet' /\ NoEntry'
    BY DEF TypeOK, AtLoop, AtTick, Ours, NotYet, NoEntry, Off, Unused, Initing
  <2>2. FrameIntact' /\ OwnKeyAdmitted' /\ IdsKnown' /\ FoundUnlessHidden' /\ DeadForgotten'
    BY DEF FrameIntact, OwnKeyAdmitted, IdsKnown, FoundUnlessHidden, DeadForgotten
  <2>3. QED
    BY <2>1, <2>2
<1>6. QED
  BY <1>1, <1>2, <1>3, <1>4, <1>5 DEF Next

\* No step but Connects takes a tunnel that is new.
LEMMA StartedNext == Inv /\ Started /\ [Next]_vars => Started'
<1> SUFFICES ASSUME Inv, Started, [Next]_vars, NEW t \in Conn,
                    tunnel'[t] # "new", ClientOf[t] \in Downloaded
             PROVE  ~ LosesKey(flag')
  BY DEF Started
<1>1. flag' = flag
  BY DEF Next, Connects, Ends, vars, Loop, React, Refuse, InitLoads, InitStores, InitAppends,
     InitEnters, OnClosed, CloseDrops, CloseUnlists, CloseCounts, CloseForgets, Tick, TickReads,
     TickLoads, TickCounts, TickHides, TickForgets, TickPings, TickUnstores, TickUnlists,
     SendToClient, SendLoads, SendGets, SendWrites
<1>2. CASE \E u \in Conn : Connects(u)
  <2>1. PICK u \in Conn : Connects(u)
    BY <1>2
  <2>2. CASE t = u
    BY <1>1, <2>1, <2>2 DEF Connects
  <2>3. CASE t # u
    BY <1>1, <2>1, <2>3 DEF Connects, Started, Inv, TypeOK
  <2>4. QED
    BY <2>2, <2>3
<1>3. CASE Loop \/ \E u \in Conn : Ends(u)
  <2>1. tunnel[t] # "new"
    BY <1>3 DEF Loop, Ends, React, Refuse, InitLoads, InitStores, InitAppends, InitEnters,
       OnClosed, CloseDrops, CloseUnlists, CloseCounts, CloseForgets, Inv, AtLoop, TypeOK
  <2>2. QED
    BY <1>1, <2>1 DEF Started
<1>4. CASE Tick \/ (\E s \in Sender : SendToClient(s)) \/ UNCHANGED vars
  <2>1. tunnel' = tunnel
    BY <1>4 DEF vars, Tick, TickReads, TickLoads, TickCounts, TickHides, TickForgets, TickPings,
       TickUnstores, TickUnlists, SendToClient, SendLoads, SendGets, SendWrites
  <2>2. QED
    BY <1>1, <2>1 DEF Started
<1>5. QED
  BY <1>2, <1>3, <1>4 DEF Next

\* The tables, the event loop, Tick and the senders fit together.
THEOREM Invariant == Spec => []Inv
<1>1. Init => Inv /\ Started
  BY InvInit DEF Init, Started
<1>2. Inv /\ Started /\ [Next]_vars => Inv' /\ Started'
  BY InvNext, StartedNext
<1>3. QED
  BY <1>1, <1>2, PTL DEF Spec

\* The server's tables of tunnels keep their types in every interleaving.
THEOREM TypeCorrect == Spec => []TypeOK
<1>1. Inv => TypeOK
  BY DEF Inv
<1>2. QED
  BY <1>1, Invariant, PTL

\* init gets the bytes the client wrote, or the frame is refused (DecryptData
\* in protocol.go), for all keys, lengths and counters.
THEOREM Intact == Spec => []FrameIntact
<1>1. Inv => FrameIntact
  BY DEF Inv
<1>2. QED
  BY <1>1, Invariant, PTL

\* No client is refused but one that came up with a downloaded key that lost a
\* block of zeros (download.go, main.go); a script without a key brings up none.
THEOREM Admitted == Spec => []OwnKeyAdmitted
<1>1. Inv => OwnKeyAdmitted
  BY DEF Inv
<1>2. QED
  BY <1>1, Invariant, PTL

\* GetConn (client.go of the server) finds the tunnel it picks, unless that is
\* being removed.
THEOREM Known == Spec => []IdsKnown
<1>1. Inv => IdsKnown
  BY DEF Inv
<1>2. QED
  BY <1>1, Invariant, PTL

\* A working tunnel is found by SendToClient unless Tick (server.go) took its
\* dispatch out of conns.
THEOREM Found == Spec => []FoundUnlessHidden
<1>1. Inv => FoundUnlessHidden
  BY DEF Inv
<1>2. QED
  BY <1>1, Invariant, PTL

\* OnClosed (server.go) leaves no dead tunnel in a list that senders use.
THEOREM Forgotten == Spec => []DeadForgotten
<1>1. Inv => DeadForgotten
  BY DEF Inv
<1>2. QED
  BY <1>1, Invariant, PTL

-----------------------------------------------------------------------------
(* The refinement of Offering.                                             *)

promised == <<{t \in Conn : Offered(t)}, {t \in Conn : Past(t)}, {t \in Conn : Ended(t)}>>

LEMMA Stutters ==
    ASSUME \A t \in Conn : /\ Offered(t) <=> Offered(t)'
                           /\ Past(t) <=> Past(t)'
                           /\ Ended(t) <=> Ended(t)'
    PROVE  UNCHANGED promised
BY DEF promised

\* How the sets of Offering change when the predicates do.
LEMMA OfferSteps ==
    ASSUME NEW u \in Conn
    PROVE  /\ /\ ~ Past(u)
              /\ \A t \in Conn : /\ Offered(t)' <=> Offered(t) \/ t = u
                                 /\ Past(t)' <=> Past(t) \/ t = u
                                 /\ Ended(t)' <=> Ended(t)
              => Promise!Next
           /\ /\ \A t \in Conn : /\ Offered(t)' <=> Offered(t)
                                 /\ Past(t)' <=> Past(t) \/ t = u
                                 /\ Ended(t)' <=> Ended(t)
              => Promise!Next
           /\ /\ \A t \in Conn : /\ Offered(t)' <=> Offered(t)
                                 /\ Past(t)' <=> Past(t) \/ t = u
                                 /\ Ended(t)' <=> Ended(t) \/ t = u
              => Promise!Next
           /\ /\ Ended(u)
              /\ \A t \in Conn : /\ Offered(t)' => Offered(t)
                                 /\ Offered(t) /\ ~ Offered(t)' => t = u
                                 /\ Past(t)' <=> Past(t)
                                 /\ Ended(t)' <=> Ended(t)
              => Promise!Next \/ UNCHANGED promised
<1>1. ASSUME ~ Past(u),
             \A t \in Conn : /\ Offered(t)' <=> Offered(t) \/ t = u
                             /\ Past(t)' <=> Past(t) \/ t = u
                             /\ Ended(t)' <=> Ended(t)
      PROVE  Promise!Next
  <2>1. Promise!Offer(u)
    BY <1>1 DEF Promise!Offer, Past, Ended
  <2>2. QED
    BY <2>1 DEF Promise!Next
<1>2. ASSUME \A t \in Conn : /\ Offered(t)' <=> Offered(t)
                             /\ Past(t)' <=> Past(t) \/ t = u
                             /\ Ended(t)' <=> Ended(t)
      PROVE  Promise!Next
  <2>1. Promise!Skip(u)
    BY <1>2 DEF Promise!Skip, Past, Ended
  <2>2. QED
    BY <2>1 DEF Promise!Next
<1>3. ASSUME \A t \in Conn : /\ Offered(t)' <=> Offered(t)
                             /\ Past(t)' <=> Past(t) \/ t = u
                             /\ Ended(t)' <=> Ended(t) \/ t = u
      PROVE  Promise!Next
  <2>1. Promise!End(u)
    BY <1>3 DEF Promise!End, Past, Ended
  <2>2. QED
    BY <2>1 DEF Promise!Next
<1>4. ASSUME Ended(u),
             \A t \in Conn : /\ Offered(t)' => Offered(t)
                             /\ Offered(t) /\ ~ Offered(t)' => t = u
                             /\ Past(t)' <=> Past(t)
                             /\ Ended(t)' <=> Ended(t)
      PROVE  Promise!Next \/ UNCHANGED promised
  <2>1. CASE Offered(u) /\ ~ Offered(u)'
    <3>1. Promise!Withdraw(u)
      BY <1>4, <2>1 DEF Promise!Withdraw, Past, Ended
    <3>2. QED
      BY <3>1 DEF Promise!Next
  <2>2. CASE ~ (Offered(u) /\ ~ Offered(u)')
    <3>1. \A t \in Conn : Offered(t) <=> Offered(t)'
      BY <1>4, <2>2
    <3>2. QED
      BY <1>4, <3>1, Stutters
  <2>3. QED
    BY <2>1, <2>2
<1>5. QED
  BY <1>1, <1>2, <1>3, <1>4

\* Every step of the tables, the event loop, Tick and the senders is a step of
\* Offering or leaves what is promised alone.
LEMMA PromiseStep ==
    ASSUME Inv, [Next]_vars
    PROVE  Promise!Next \/ UNCHANGED promised
<1> USE DEF Inv, tableVars, loopVars, tickVars, sendVars
<1>1. ASSUME NEW u \in Conn, Connects(u)
      PROVE  UNCHANGED promised
  BY <1>1, Stutters DEF Connects, TypeOK, Offered, Past, Ended
<1>2. ASSUME NEW u \in Conn, Ends(u)
      PROVE  Promise!Next
  <2>1. \A t \in Conn : /\ Offered(t)' <=> Offered(t)
                        /\ Past(t)' <=> Past(t) \/ t = u
                        /\ Ended(t)' <=> Ended(t) \/ t = u
    BY <1>2 DEF Ends, TypeOK, Offered, Past, Ended
  <2>2. QED
    BY <2>1, OfferSteps
<1>3. ASSUME NEW u \in Conn, React(u)
      PROVE  UNCHANGED promised
  BY <1>3, Stutters DEF React, Offered, Past, Ended
<1>4. CASE Refuse
  <2>1. lt \in Conn /\ tunnel[lt] = "up"
    BY <1>4 DEF Refuse, AtLoop
  <2>2. CASE tunnel' = [tunnel EXCEPT ![lt] = "in"]
    <3>1. \A t \in Conn : /\ Offered(t)' <=> Offered(t)
                          /\ Past(t)' <=> Past(t) \/ t = lt
                          /\ Ended(t)' <=> Ended(t)
      BY <1>4, <2>1, <2>2 DEF Refuse, TypeOK, Offered, Past, Ended
    <3>2. QED
      BY <2>1, <3>1, OfferSteps
  <2>3. CASE tunnel' = [tunnel EXCEPT ![lt] = "gone"]
    <3>1. \A t \in Conn : /\ Offered(t)' <=> Offered(t)
                          /\ Past(t)' <=> Past(t) \/ t = lt
                          /\ Ended(t)' <=> Ended(t) \/ t = lt
      BY <1>4, <2>1, <2>3 DEF Refuse, TypeOK, Offered, Past, Ended
    <3>2. QED
      BY <2>1, <3>1, OfferSteps
  <2>4. QED
    BY <1>4, <2>2, <2>3 DEF Refuse
<1>5. CASE InitLoads
  <2>1. lt \in Conn /\ ids[lt] = {} /\ ClientOf[lt] \in Client
    BY <1>5 DEF InitLoads, AtLoop, NotYet, Unused, Initing
  <2>2. \A t \in Conn : Offered(t) <=> Offered(t)'
    BY <1>5, <2>1 DEF InitLoads, TypeOK, Offered
  <2>3. QED
    BY <1>5, <2>2, Stutters DEF InitLoads, Past, Ended
<1>6. CASE InitStores
  <2>1. lt \in Conn /\ ld \in Conn /\ \A d \in Conn : lt \notin ids[d]
    BY <1>6 DEF InitStores, AtLoop, NotYet, Unused, TypeOK, OrNone
  <2>2. \A t \in Conn : Offered(t) <=> Offered(t)'
    BY <1>6, <2>1 DEF InitStores, TypeOK, OrNone, Offered
  <2>3. QED
    BY <1>6, <2>2, Stutters DEF InitStores, Past, Ended
<1>7. CASE InitAppends
  <2>1. /\ lt \in Conn /\ ld \in Conn /\ lt \in table[ld] /\ ~ Past(lt)
        /\ \A d \in Conn : lt \notin ids[d]
    BY <1>7 DEF InitAppends, AtLoop, NotYet, Unused, TypeOK, OrNone, Past
  <2>2. \A d \in Conn : ids'[d] = IF d = ld THEN ids[d] \cup {lt} ELSE ids[d]
    BY <1>7 DEF InitAppends, TypeOK
  <2>3. \A t \in Conn : /\ Past(t)' <=> Past(t) \/ t = lt
                        /\ Ended(t)' <=> Ended(t)
    BY <1>7, <2>1 DEF InitAppends, Past, Ended
  <2>4. CASE conns[ClientOf[lt]] = ld
    <3>1. \A t \in Conn : Offered(t)' <=> Offered(t) \/ t = lt
      BY <1>7, <2>1, <2>2, <2>4 DEF InitAppends, TypeOK, OrNone, Offered
    <3>2. QED
      BY <2>1, <2>3, <3>1, OfferSteps
  <2>5. CASE conns[ClientOf[lt]] # ld
    <3>1. \A t \in Conn : Offered(t)' <=> Offered(t)
      BY <1>7, <2>1, <2>2, <2>5 DEF InitAppends, TypeOK, OrNone, Offered
    <3>2. QED
      BY <2>1, <2>3, <3>1, OfferSteps
  <2>6. QED
    BY <2>4, <2>5
<1>8. CASE InitEnters
  <2>1. lt \in Conn /\ tunnel[lt] = "up"
    BY <1>8 DEF InitEnters, AtLoop
  <2>2. QED
    BY <1>8, <2>1, Stutters DEF InitEnters, TypeOK, OrNone, Offered, Past, Ended
<1>9. ASSUME NEW u \in Conn, OnClosed(u)
      PROVE  UNCHANGED promised
  BY <1>9, Stutters DEF OnClosed, TypeOK, Offered, Past, Ended
<1>10. CASE CloseDrops \/ CloseUnlists
  <2>1. lt \in Conn /\ ld \in Conn /\ Ended(lt)
    BY <1>10 DEF CloseDrops, CloseUnlists, AtLoop, TypeOK, OrNone, Ended
  <2>2. \A t \in Conn : /\ Past(t)' <=> Past(t)
                        /\ Ended(t)' <=> Ended(t)
    BY <1>10 DEF CloseDrops, CloseUnlists, Past, Ended
  <2>3. /\ conns' = conns
        /\ \A d \in Conn : /\ ids'[d] \in {ids[d], ids[d] \ {lt}}
                           /\ table'[d] \in {table[d], table[d] \ {lt}}
    BY <1>10 DEF CloseDrops, CloseUnlists, TypeOK
  <2>4. \A t \in Conn : /\ Offered(t)' => Offered(t)
                        /\ Offered(t) /\ ~ Offered(t)' => t = lt
    BY <2>3 DEF TypeOK, OrNone, Offered
  <2>5. QED
    BY <2>1, <2>2, <2>4, OfferSteps
<1>11. CASE CloseCounts
  <2>1. ld \in Conn /\ conns[ClientOf[lt]] \in {ld, None}
    BY <1>11 DEF CloseCounts, AtLoop, TypeOK, OrNone
  <2>2. \A t \in Conn : Offered(t) <=> Offered(t)'
    BY <1>11, <2>1 DEF CloseCounts, TypeOK, OrNone, Offered
  <2>3. QED
    BY <1>11, <2>2, Stutters DEF CloseCounts, Past, Ended
<1>12. CASE CloseForgets
  <2>1. lt \in Conn /\ tunnel[lt] = "gone"
    BY <1>12 DEF CloseForgets, AtLoop
  <2>2. QED
    BY <1>12, <2>1, Stutters DEF CloseForgets, TypeOK, Offered, Past, Ended
<1>13. CASE (\E t \in Conn : TickReads(t)) \/ TickLoads \/ TickCounts \/ TickForgets \/ TickPings
  BY <1>13, Stutters DEF TickReads, TickLoads, TickCounts, TickForgets, TickPings,
     Offered, Past, Ended
<1>14. CASE TickHides
  <2> DEFINE c == ClientOf[te]
  <2>1. c \in Client
    BY <1>14 DEF TickHides, AtTick
  <2>2. \A t \in Conn : /\ Offered(t)' <=> Offered(t) /\ ClientOf[t] # c
                        /\ Past(t)' <=> Past(t)
                        /\ Ended(t)' <=> Ended(t)
    BY <1>14 DEF TickHides, TypeOK, Offered, Past, Ended
  <2>3. Promise!Hide(c)
    <3> HIDE DEF c
    <3>1. QED
      BY <2>2 DEF Promise!Hide, Past, Ended
  <2>4. QED
    BY <2>1, <2>3 DEF Promise!Next
<1>15. CASE TickUnstores \/ TickUnlists
  <2>1. td \in Conn /\ tx \in Conn /\ Ended(tx)
    BY <1>15 DEF TickUnstores, TickUnlists, AtTick, Ended
  <2>2. \A t \in Conn : /\ Past(t)' <=> Past(t)
                        /\ Ended(t)' <=> Ended(t)
    BY <1>15 DEF TickUnstores, TickUnlists, Past, Ended
  <2>3. /\ conns' = conns
        /\ \A d \in Conn : /\ ids'[d] \in {ids[d], ids[d] \ {tx}}
                           /\ table'[d] \in {table[d], table[d] \ {tx}}
    BY <1>15 DEF TickUnstores, TickUnlists, TypeOK
  <2>4. \A t \in Conn : /\ Offered(t)' => Offered(t)
                        /\ Offered(t) /\ ~ Offered(t)' => t = tx
    BY <2>3 DEF TypeOK, OrNone, Offered
  <2>5. QED
    BY <2>1, <2>2, <2>4, OfferSteps
<1>16. CASE (\E s \in Sender : SendToClient(s)) \/ UNCHANGED vars
  BY <1>16, Stutters DEF SendToClient, SendLoads, SendGets, SendWrites, vars,
     Offered, Past, Ended
<1>17. QED
  BY <1>1, <1>2, <1>3, <1>4, <1>5, <1>6, <1>7, <1>8, <1>9, <1>10, <1>11, <1>12, <1>13,
     <1>14, <1>15, <1>16 DEF Next, Loop, Tick

\* SetConn, DelConn and Tick's removals, whatever their interleaving with the
\* senders, implement one list of tunnels: a working tunnel never vanishes
\* alone, and what has left never comes back (client.go of the server).
THEOREM Implements == Spec => OffersAsPromised
<1>1. Init => Promise!Init
  BY DEF Init, Promise!Init, Offered, Past, Ended
<1>2. Inv /\ [Next]_vars => [Promise!Next]_promised
  BY PromiseStep
<1>3. QED
  BY <1>1, <1>2, Invariant, PTL DEF Spec, Promise!Spec, OffersAsPromised, promised
=============================================================================
