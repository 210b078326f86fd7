# Verification of miner-proxy

miner-proxy carries the TCP connections of mining machines ("miners") to mining
pools.  A *client* process near the miners accepts their connections, a *server*
process near the pools dials the pools, and between the two run several TCP
*tunnels* with encrypted frames.  A miner's connection is one *session*: DATA
frames go both ways, each is answered with an ACK, and each side sends its next
DATA only after the ACK (or a 3 s timer) for its previous one.

    miner -- client.Client --+                        +-- server.Client -- PoolConn -- pool
    miner -- client.Client --+== ServerManage ======== ClientDispatch =+-- server.Client -- PoolConn -- pool
                                  (n tunnels)     (one gnet event loop)

This directory holds TLA+ modules of the parts with interesting behaviour, TLC
configurations that check them on small instances, and TLAPS proofs for every
instance.

## Inventory

| part (source) | state | operations | interacts with |
|---|---|---|---|
| pool connection (`proxy/backend/pool.go`) | conn, `input`, `output`, `closed` | dial, reader and writer goroutine, Close | the session that owns it, over two unbuffered channels |
| server session (`proxy/server/server.go`: Client, getOrCreateClient, login, proxy, React) | `clients` registry, `closed`, `ready`, `readyChan`, `lastSendReq`, `seq`; the `send_req:` cache | LOGIN, DATA, ACK, CLOSE on the event loop; the dispatch goroutine | pool connection; tunnels; status sweep |
| server reconciliation (`init`, `Tick`, `ping`) | `clients` against the client's, `connDelay` | INIT, PING every 20 s, PONG with miners to close | `clients`, the tunnel registry |
| server tunnel registry (`proxy/server/client.go`, `OnClosed`) | `conns`, `connId2Id`, `ClientDispatch.conns/connIds/index` | SetConn, DelConn, GetConn, OnClosed | SendToClient of every dispatch goroutine, against the event loop |
| client session (`proxy/client/client.go`: Client) | `clients`, `ready`, `readyChan`, `lastSendReq`, `seq`; the `c_send_req:` cache | Login, Run, readServerData, SetReady, SetWait, Wait, Close | tunnel readers through the unbuffered `input` |
| client tunnel pool (ServerManage) | `conns`, `connIds`, `index` | NewServer with its reader goroutine, GetServer, DelServerConn, SetServerConn, the 5 s refill loop | every client session |
| codec (`proxy/protocol`, `pkg/encryption.go`) | the confusion counter | interleave, pad, encrypt, hash check | every frame |
| secret key (`main.go`, `app/handles/download.go`) | flag `-k` | padding; trimming for the download | the codec of both processes |
| status (`proxy/server/status.go`) | subscriber list | ClientInfo, Show, off-line message | deletes from `clients` |
| command line, web pages, service, wxPusher, utilities | - | - | - |

What is hard here:

* **Concurrency.** Four kinds of goroutines per session meet in unbuffered channels and
  in fields without locks; the server has *one* gnet event loop (`NewServer` asks for no
  more), so a blocking handler stops every miner.
* **Unreliable delivery.** Every frame picks the next tunnel round-robin, tunnels break
  and are replaced: frames are lost and reordered, and the two 3 s timers duplicate them.
* **Time.** The keys that recognise duplicates live for 60 s; retransmission has no end,
  because `count` is never incremented; an ACK names no Seq.
* **Lifecycle.** Sessions end from five sides (miner, pool, CLOSE, PONG, sweep), and a LOGIN
  may follow at once.

What makes each part correct:

* *pool connection, server session*: a request reaches the pool once, an ACK is a promise
  that it does; chunks of the pool leave in order, with bounded run-ahead; at most one open
  session per miner, but for those the status walks delete; closing ends all goroutines; the event loop always comes back.
* *client session*: the miner gets each chunk once and in order; a request not acknowledged
  is retransmitted; a tunnel reader is never stopped by one session.
* *tunnel pool, tunnel registry*: a working tunnel is listed, a removed one is not listed again;
  the number of tunnels returns to the configured one.
* *reconciliation*: what one side has lost ends on the other, after lost frames and restarts,
  and no session of a connected miner is closed on the way.
* *codec, key*: decoding inverts encoding for every length; all who should share a key do.
* *status*: a session that ended leaves the registry.  (It may take an open one along: the walks delete by
  key what they saw before.)

## Modules

| module | models |
|---|---|
| `PoolConn` | `backend.PoolConn`: reader, writer, the two channels, Close; an owner's operations on it |
| `ServerSession` | the server's sessions on top of `PoolConn`: event loop, dispatch goroutine, request cache, registry, sweep; `ClientSide` as environment |
| `MinerClient` | the client's sessions and the goroutines of its tunnels: Run, readServerData, the gate, the chunk cache; the server and the network as environment |
| `ServerManage` | the tunnels of a client: NewServer, the end of its reader goroutine, the refill loop, GetServer and the retries of SendToServer |
| `Codec` | operators: confusion bytes, padding, encryption with a key, the padded and the downloaded key |
| `Dispatch` | the server's tables of tunnels on top of `Codec`: React of INIT, OnClosed, Tick, SendToClient, in single steps |
| `Registry` | the registries of miners of both processes, with LOGIN, DATA, CLOSE, INIT, PING/PONG, ClientInfo and Show, lost frames and restarts of the server |
| `Forwarding` | what each half promises about the data it passes on, as one atomic forwarder |
| `ClientSide` | what the client's half says to the server, by frames alone: `ServerSession` assumes it, `MinerClient` implements it |
| `Offering` | what the server's tables promise to a sender: one list of tunnels, without the tables |
| `MC...` | payload functions, load bounds and symmetry for TLC |
| `..._proofs` | theorems about the module of the same name |

`ServerSession` and `MinerClient` say what happens inside one session and take tunnels as a set of
frames that may fail; `ServerManage` and `Dispatch` say what the two ends do to keep that set of
tunnels; `Registry` says how the sessions of both ends come and go together and reduces the inside of
a session to "answered or not".

### PoolConn

A goroutine blocked in `ch <- x` is an *offer* (`inOffer`, `outOffer`); a receiver takes
the offer, and the sender resumes when the offer is gone.  The same encoding serves
`readyChan` in `ServerSession`.  Closing a channel under a blocked sender makes it panic
(`ReaderPanics`, `Withdraw`).  `pool` merges conn, output and the closed flag, which
`PoolConn.Close` sets together; a goroutine that looked at the flag before is committed to
its receive (`WriterChecks`).

### ServerSession

One *session* is one incarnation of `server.Client`.  `dispatch[s]` is the program counter
of its dispatch goroutine, `loop` that of the event loop; a handler that cannot block is one
step (`RecvLogin`, `RecvClose`, ...), one that can is several: `RecvData`, then `ForwardDone`
or `ForwardPanics`; `RecvAck`, `SetReadyClears`, `SetReadyStores`, `SetReadyReturns`.  The
stores of `SetReady` and `SetWait` are separate steps, since they race.

| code | action |
|---|---|
| `login`, `getOrCreateClient` | `RecvLogin` = `LoginAgain`, `LoginCreates`, `LoginDialFails` |
| `proxy` | `RecvData` = `DataNeedsLogin`, `DataIsSend`, `DataForward`; then `ForwardDone`, `ForwardPanics` |
| `SetReady` | `RecvAck`, `SetReadyClears`, `SetReadyStores`, `SetReadyReturns` |
| CLOSE, `ping` for one miner | `RecvClose` |
| `Wait` | `DispLoop`, `DispReady`, `DispTimeout` |
| retransmission | `DispLate`, `DispResend` |
| select on `output` and the 5 s ticker | `DispTakes`, `DispOutputClosed`, `DispTick` |
| `SendToClient` | `DispSend`; it succeeds, or fails and ends the session |
| `SetWait` | `DispSaves`, `DispUnready` |
| `ClientInfo`, `Show` | `Sweep` |
| 60 s expiry of the cache | `Expire` |

Abstracted: a chunk is its ordinal (down) or `<<miner, seq>>` (up) with a `Payload` that
stands for its CRC; ERROR counts as CLOSE and LOGIN's answer as ACK, as the client treats
them; timers may fire whenever they are armed.  `Sweep` is a deletion from `clients` by key, at any time and
whatever the key stands for by then.  `ClientInfo` and `Show` decide on an entry they saw before: one
without data for 30 s (`status.go:236`), or a closed one (`status.go:230`, `:54`), in whose place a LOGIN may
have stored an open one.  Every entry starts without data, so a walk may have picked any key; that look
changes nothing, and what else the walks do is in `Registry`.  `swept` remembers the open sessions
that left the registry in this way.  The environment (`Peer`) is `ClientSide`; the network
is a set of frames, from which a frame may never be taken (a broken tunnel).  A copy sent while its
twin is in flight is absorbed by it: duplicates come from a retransmission after a delivery.  `down`
keeps every frame ever sent to the client: what `ClientSide` answers to may be late.

### MinerClient

`run[m]` is the program counter of `newClient` and `Run`, `reader[m]` that of `readServerData`,
`tunnel[t]` the frame a tunnel's goroutine offers on `input`.

| code | action |
|---|---|
| `newClient`, `Login` | `Accept` (with Login's `SetWait`), `Login` |
| loop head of `Run`, `Wait` | `RunChecks`, `RunReady`, `RunTimeout` |
| `SendTryLastRequest` | `RunLate`, `RunResends` |
| `lconn.Read`, `SetWait`, `SendDataToServer` | `RunReads`, `RunReadFails`, `RunStores`, `RunSends` |
| `SendCloseToServer`, the deferred `Close` | `RunSaysBye` |
| select of `readServerData` | `ReaderChecks`, `ReaderTicks`, `ReaderTakes` |
| `SetReady` | `ReaderClears`, `ReaderStores`, `ReaderResumes` |
| `IsSend`, `lconn.Write`, `SetSend`, the ACK | `ReaderKnows`, `ReaderWrites`, `ReaderMarks`, `ReaderAcks` |
| reader goroutine of `NewServer` | `TunnelReads`, `TunnelCloses` (the answer to INIT) |
| 60 s expiry of the cache | `Expire` |

Request 0 is LOGIN.  `SetReady` runs in the reader, so unlike on the server a blocked `SetReady`
stops one session - and every tunnel that brings a frame for it.  A miner that reconnects gets a
new id, so a session is never re-used.  The environment (`SrvReceives`, `SrvAcked`, `SrvSends`,
`SrvResends`, `SrvCloses`) answers what it receives or not at all, and sends at most two chunks per
ACK: what `ServerSession!WindowPerAck` proves of the server.  It stands for one incarnation of the
session on the server, whose chunks are numbered 1, 2, ...; a LOGIN that is handled again after a
close would start from 1 again.  `told` remembers which sessions were sent an ACK, or a chunk, and
`said` and `connected` are what the server can tell of a session (`Side`).  The network is a set of frames, as in
`ServerSession`; a `Request` is stored whole, except that a copy taken while it is being zeroed may
panic in the marshaller (`RunResends`).

### ServerManage

| code | action |
|---|---|
| `NewServer` | `Dial` (up to the start of the reader) or `DialFails`; `Store`; `AppendReads`, `AppendWrites` |
| `NewServerManage`, `InitServerManage` | `Init`, `RefillNext`, `Booted`; its loop every 5 s: `RefillSizes`, `RefillNext` |
| `GetServer` | `GetServer`, `GetServerLoads`, `GetServerDrops`, then `NewServer` and `SetServerConn` |
| `SendToServer` | the same, `GetsNone` and `NewServer`; `Write` |
| end of the reader goroutine | `ReaderFails`, `ReaderDeletes`, `ReaderCloses` |

`NewServer` starts the reader, then stores, then appends, holding `m.RLock` only: appends of several
goroutines overlap.  Such an append starts from the slice it read, so the last store wins (`lost`
remembers whose entry is gone), and an append to a shared backing array also changes entries of a
longer copy (`Copies`).  The writers' lock waits for appends under way (`Lock`).  A reader may run to
its end before its tunnel is entered; the entry made afterwards is of a dead tunnel, and it stays until
`GetServer` picks it: as a closed server if `Store` was late, as an id without an entry in `conns`,
which nobody removes, if only the append was.  `GetServer` may list an id that `NewServer` has listed
already; it then counts as two (`connIds` is a bag).  `conns` and `connIds` are all that is left of the
round-robin: a sender may get any listed id.  What tunnels carry is in `MinerClient`, whose sends may
fail and whose frames may take any tunnel.

### Codec

A byte string is a sequence of numbers; a ciphertext is the record of its key and the padded
plaintext, and does not open with another key.

| code | operator |
|---|---|
| `buildConfusionData`, `EncryptionData`, `separateConfusionData` | `ConfusionData`, `Confuse`, `Separate` |
| `PKCS7Padding`, `PKCS7UnPadding` | `Pad`, `UnpadFails`, `Unpad` |
| `AesEncrypt`, `AesDecrypt`, `DecryptData` | `EncryptionData`, `DecryptFails`, `DecryptData` |
| the loop of `main.go` over `len(secretKey)%16` | `PadKey` |
| `strings.TrimRight(secretKey, "0")` of `download.go`, applied to the padded key | `TrimKey`, `LosesKey` |
| `ZipParams.build`, what follows `-k` in the script | `DownloadKey`, `LosesBlock` |

A server whose flag is empty, the default, or consists of zeros hands `build` an empty key.  The words of the
script are joined with blanks, so `-k` takes the next one, `-r`, as its key; the address after it is no
flag, and `-l`, `-c` and `-u` behind it are not read (`LosesKey`).  Such a script starts a server, not a client.
Keys are of characters that the shell leaves alone: the script quotes nothing.

The comments at `protocol.go:80-98` are about another version: they give the confusion a length of
10 to 135, values of 1 to 255 and a place after every 25 bytes; the code has 10 to 355, 1 to 254, and
one before every byte.  The module follows the code.

### Dispatch

| code | action |
|---|---|
| `React`, `Protocol.Decode` of the first frame | `React`, `Refuse` |
| `init`, `SetConn` | `InitLoads`, `InitStores`, `InitAppends`, `InitEnters` |
| `OnClosed`, `DelConn` | `OnClosed`, `CloseDrops`, `CloseUnlists`, `CloseCounts`, `CloseForgets` |
| `Tick` over `connId2Id` | `TickReads`, `TickLoads`, `TickCounts`, `TickHides`, `TickForgets` |
| `Tick` over a dispatch, its `DelConn` | `TickPings`, `TickUnstores`, `TickUnlists` |
| `SendToClient`, `GetConn` | `SendLoads`, `SendGets`, `SendWrites` |

The event loop does one thing at a time; `Tick` and the senders interleave with it at every access to
a shared table.  A `ClientDispatch` is named after the tunnel whose INIT created it, since a pointer
fetched before may still be used after its replacement.  `connIds` is the set of its ids (each is
added once), and a sender may get any: the round-robin index is left out.  `orphan` remembers the
dispatches that `Tick` took out of `conns`.  That can really hide a live one: `Tick` sees an empty
dispatch, `init` adds a tunnel to it, `Tick` deletes its entry.  Its tunnels are then found by nobody
until the client's next tunnel makes a new dispatch, and they stay unused for as long as they last.
A client of the downloaded script connects only if the script has a key (`Connects`).
`FoundUnlessHidden` says that this is the only way to lose a tunnel.

### Registry

| code | action |
|---|---|
| `newClient`, `Login`; `SendDataToServer`; `SendTryLastRequest`; `Close` with CLOSE | `Accepts`; `Speaks`; `Resends`; `Leaves` |
| reader goroutine of `NewServer`: CLOSE and ERROR, ACK, PING | `RecvMandate`, `RecvAck`, `RecvPing` |
| `login`, `proxy`, CLOSE | `RecvLogin`, `RecvData`, `RecvBye` |
| `init` | `RecvInit` |
| `Tick`, `ping` | `Tick`, `RecvPong` |
| end of the dispatch goroutine | `SessionEnds` |
| `ClientInfo` (web page and `Show`), the rest of `Show` | `ClientInfo`, `Show` |
| end and start of the server process | `Restart` |

`loose` are the sessions that are open and in no registry: `ClientInfo` deletes an unused one, and
`Show` deletes by id what it saw closed, though a LOGIN may have stored a new one meanwhile.  `forgot`
remembers miners whose session a restart took, `lapsed` those whose session ended or was lost in any
way since they came, `early` those that were told to hang up while their LOGIN was under way.
`CloseHasReason` is about a miner past its LOGIN: it is told to hang up only if it has lapsed, and it hangs
up on a CLOSE only for that - with one exception that the code does have.  `NewServer` lists in INIT every
miner of the process, one whose LOGIN is under way, too - the tunnel may have been dialled within that
very `Login` - and `init`, which finds no session for it, answers CLOSE; a dial to the pool that failed
does so as well, though LOGIN may be sent again and succeed.  If that CLOSE is late it meets a miner whose LOGIN
was answered in the meantime, and ends a session that lives.  The run reaches this; without
`early` the property is violated.  The age in `ClientInfo` (30 s) may have passed or not.
`Show` deletes at the first walk: it is handed the flag `offline`, which does not exist (the flag is
`o`, `main.go:436`), so its delay is 0, not the configured one, nor the four minutes of the usage text.
A client without an entry in `conns` is in nobody's list, so its ended sessions are not reported before
it has a tunnel again (`Connected`).

### Forwarding

`Hand`, `Answer`, `Forget` on keys.  `ServerSession!Promise` maps it: `handed` is how often the
writers took a chunk, `known` the cache plus the chunk the event loop has handed over and not
yet marked (`Taken`), `answered` the acknowledged chunks.  `MinerClient!Promise` maps it in the
other direction: `handed` is how often a chunk was written to its miner, `known` the cache plus the
chunks written and not yet marked (`Written`).

### ClientSide

The contract between the two halves of a session, in one direction.  `Numbers` (a request gets its
number, DATA only after an answer to LOGIN), `Says` (the newest request is sent, or again), `Acks` (only
a miner that was sent a chunk), `Ends` (with a CLOSE or without); frames of an ended session may still
be in flight, and its reader may still acknowledge.  `ServerSession` is checked, and proved correct,
against every behaviour of it.  `MinerClient!SpeaksAsPromised` says that the client has no others: a
reordering of the stores of `SetWait`, a second `Run` or an ACK too many would be a step the server
was never checked for.

### Offering

`Offer`, `Skip`, `End`, `Withdraw`, `Hide` on one set of tunnels.  `Dispatch!Promise` maps it: a tunnel
is `Offered` while a sender that starts at `conns` can get it, `Past` once `InitAppends` made it so, or it was
refused or has ended, `Ended` when its connection has.  `CloseDrops`, `CloseUnlists` and Tick's `DelConn` take
a tunnel away piece by piece; whichever piece takes it from the senders is `Withdraw`.  `TickHides` is
`Hide`: all tunnels of a client go at once, and none of them comes back.

## Runs

| run | instance | checks | shows |
|---|---|---|---|
| `session` | see *Bounds* | `TypeOK`, `ForwardOnce`, `AckMeansForwarded`, `OneOpenSession`, `DownstreamOrder`, `WindowPerAck`, `OpenIsServed`, `ForwardsAsPromised` | the server implements the forwarder; registry, order and window; no open session lacks its dispatch goroutine, nor reader or writer while the pool connection is open |
| `session_live` | 1 session, 1 chunk each way | `ClosedSessionEnds` | all goroutines of a closed session end |
| `session_loop_blocks` | 1 session, 1 chunk each way | `LoopReturns` **violated** | finding 1 |
| `session_collision` | 2 miners, same payload | `AckMeansForwarded` **violated** | finding 2 |
| `session_sweep` | 1 session, no data | `SweptSessionEnds` **violated** | finding 3 |
| `client` | see *Bounds* | `TypeOK`, `RetransmitsNewest`, `RequestsPerAck`, `AckMeansDelivered`, `OpenIsAttended`, `DeliversAsPromised`, `SpeaksAsPromised` | the gate, with late and repeated ACKs; no registered session lacks a goroutine; the reader implements the forwarder, the client `ClientSide` |
| `client_live` | 1 session, 2 requests | `ClosedRunEnds` | `Run` ends, wherever it was blocked |
| `client_request_lost` | 1 session, 2 requests | `KeptUntilReceived` **violated** | finding 4 |
| `client_tunnel_blocks` | 1 session, no data | `TunnelReturns` **violated** | finding 5 |
| `tunnels` | 4 tunnels, 2 wanted, 1 sender | `TypeOK`, `ListedKnown`, `WorkingListed`, `NoResurrection`, `ShortageEnds` | the two tables against each other and against the readers, with racing appends; the refill loop restores the number of entries |
| `dispatch` | 3 tunnels of 2 clients, 1 sender | `TypeOK`, `FrameIntact`, `OwnKeyAdmitted`, `IdsKnown`, `FoundUnlessHidden`, `DeadForgotten`, `OffersAsPromised`, `AllReached` | codec and keys on the way of INIT; the tables of tunnels, which implement `Offering`; a sender gets through |
| `registry` | 2 miners of one machine, 1 tunnel, 2 frames | `TypeOK`, `PongSparesConnected`, `CloseHasReason`, `LeftMinerEnds`, `RequestAnswered`, `RestartNoticed`, `EndedLeaves` | what one side has lost ends on the other, and nothing else does, but for a late CLOSE of the LOGIN phase |

*Bounds.*  `MaxUp` requests per miner and `MaxDown` chunks per pool connection; each cache key
expires at most once; a session that is not used again is not re-used.  The product of all loads
is too large, so the state constraint `Load` of each MC module explores their union: for `session`
one miner with two sessions and one request, or one session with two requests, or with four chunks,
or with one of each; for `client` three requests, or two chunks, or one of each.  Two requests are
enough for a late copy of request 1 to arrive while request 2 is forwarded; two sessions for a
session closed during a forward and its successor; four chunks for the gate to be passed twice by
one ACK and for the run-ahead to be exceeded if it could be; three requests let one pair of permits
be used up and the next pair be opened by a late ACK.  The client has one tunnel: frames leave the
network set in any order whatever the number of tunnels, and a second goroutine only adds frames
that wait.  The temporal runs use no constraint.  For
`ServerManage`, `Id` bounds the tunnels made: each has a fresh id, and since one is as good as another they are
taken in order (`InOrder`).  The start takes two; with four, the sender and the refill loop append the
other two at once, an append is overwritten (`lost`) also of a tunnel that works, an id gets listed twice,
and an entry of a dead tunnel is present meanwhile.  Two cases need a fifth id: an append to a shared array
that changes a longer copy, and the exception of `NoResurrection` for an overwritten tunnel.  With
five, safety alone takes 5.9 million states (no violation), too many for the run with
`ShortageEnds`; for every number of ids the theorems `Working` and `NoReturn` cover them.  For `Dispatch`, two tunnels of one client are the fewest for one to be added while the other
is removed and `Tick` has counted, a third belongs to a client that has its key from the download page; a
block of 4 bytes and small moduli stand for 16, 356 and 254, so that bodies of 0 to 5 bytes (0 to 10
with confusion) go over two block boundaries and the counter wraps; the flags are one to be padded, one whose second
block is zeros only, one of zeros only, and none.  `RoundTrip` and the theorems of `Dispatch_proofs` cover all other
values.  For `Registry`, one miner comes, and one of the same address (`Past`) logged in and left before, its CLOSE
being lost; two frames in flight (`InFlight`) are enough for a late one to overtake; frames are lost
with the tunnel or when there is no room.  Deadlock is not checked: when the
sessions have ended and the bounded environment has nothing left to send, the processes are idle.

*Fairness* (`session_live`, and the temporal violations): the event loop inside a handler, both
pool goroutines and the dispatch goroutine run when they can (weak fairness; the Go scheduler is
fair, and a timer that stays armed fires); a select whose channel stays ready is not always decided
for its timer (strong fairness on the two receives).  Nothing is assumed about the pool, the miner,
the network, or the success of a send to the client.  `MinerClient!Fairness` is the same for the
client: `Run` and the reader run when they can, a receive that stays possible is not always passed
over for a timer, and `Read` returns on a closed connection; the miner need not speak, a tunnel
need not bring a frame, a send may fail.
`ServerManage!Fairness`: tunnel readers, the senders and the loop of `InitServerManage` go on when they can
(weak fairness); what the refill loop calls is strongly fair, for its `NewServer` waits for a lock that comes
free again and again and dials a server that is reached again; that last one is an assumption about
the network, without which nothing can be refilled.  `ShortageEnds` excuses tunnels that keep breaking, a
start that failed, and the bound `Id` - the last only if every tunnel ever made is listed, overwritten or
at its end, so a loop that dials and never lists does not pass.  It counts the entries of `connIds`, as the loop
does: a tunnel listed twice and a dead one count, and while they are there fewer tunnels work than `-n` says.
`Dispatch!Fairness`: the event loop, `Tick` and each sender run when they can; nothing is assumed about
tunnels.  `AllReached` is about a sender whose client has, from some time on, a tunnel that is listed.
`Registry!Fairness`: a tunnel is dialled and its INIT handled, a frame that is not lost is handled,
`Tick`, `Resends` and `Show` come again and again, as their timers do.  `Calm` is an assumption
about the outside: the last tunnel breaks and the last restart comes some day; the properties say
what is put right after that.

### Findings

1. *The event loop blocks* (`server.go:376`, `server.go:75`).  The pool hangs up: reader and writer
   end, the session is still open.  If the dispatch goroutine waits for an ACK it retransmits for
   ever, and `proxy` has no receiver for `input`; the ACK cannot be read, since the loop is blocked.
   The ACK handler blocks in the same way: `SetReady` ends with a send on `readyChan` that only `Wait`
   receives, and the dispatch goroutine may pass `Wait` by the flag, set one line before, or return
   because `lastSendReq` is zeroed.  TLC reports whichever it meets first.
2. *Colliding keys* (`server.go:56`).  The key has no miner id.  Two miners of one client whose nth
   requests have the same bytes collide; the second is acknowledged and never forwarded.  Theorem
   `AckKept` shows that this is the only way to lose the promise.  The client's cache
   (`client.go:282`) has the same key and the same theorem.
3. *Swept sessions* (`status.go:236`).  `ClientInfo` removes a session that moved no data for 30 s
   from `clients` and does not close it; no path can find it afterwards.  The deletions of closed sessions
   (`status.go:54`, `:230`) are by key and can do the same to an open session that a LOGIN has just stored.
4. *Lost request* (`client.go:454`).  `SetReady` leaves a flag and a token, and an ACK names no Seq:
   two requests may leave on one ACK, and the second takes the place of the first in `lastSendReq`.  If
   the tunnel of the first breaks, nobody has it any more; the miner's byte stream has a gap.
5. *Blocked tunnel* (`client.go:207`).  A tunnel's goroutine looks the session up and blocks in
   `input <- req`; the session ends in between.  The tunnel is lost to all miners and never replaced.
   With one request in the bounds the reader of an *open* session can leave it waiting as well: `Run`
   passes `Wait` by the flag and reads a silent miner, `readServerData` waits on `readyChan`.

## Proofs

`ServerSession_proofs` proves, for all constants that satisfy `PoolAssumption` and
`SessionAssumption`:

| theorem | statement |
|---|---|
| `CoreInvariant` | `Spec => []Core` |
| `TypeCorrect` | `Spec => []TypeOK` |
| `OneOpen` | `Spec => []OneOpenSession` |
| `Once` | `Spec => []ForwardOnce` |
| `AckKept` | `CollisionFree` implies `Spec => []AckMeansForwarded` |
| `Ordered` | `Spec => []DownstreamOrder` |
| `Window` | `Spec => []WindowPerAck` |
| `Served` | `Spec => []OpenIsServed` |
| `Implements` | `Spec => ForwardsAsPromised` |

`Core` is the inductive invariant: `TypeOK`; `Pipeline` (which positions the reader, the writer,
the dispatcher and the pool connection can have together); `InHand` (whose chunk is offered or in
the writer's hand); `Registry` (a registered session belongs to its miner, a session not yet
dialled to nobody); `InHandler` (what the event loop works on while it is inside a handler).
`ForwardOnce` needs besides that a handed chunk is remembered, expired, or still being forwarded;
`WindowPerAck` needs `Gate`, which counts the permits for the next chunk: the flag, the token in
`readyChan`, and a dispatcher that has passed `Wait` on the token.
`OneOpen` excepts the sessions in `swept`, as `OneOpenSession` does.
`OpenIsServed` needs `Whole`: a session with an owner was dialled and started, and a goroutine that
returned has closed its side - the dispatcher the input channel, reader or writer the pool connection.  So
it allows an open session with its dispatch goroutine only, once the pool connection is closed; finding 1
is what can come of that.
`AckKept` assumes that `Key` is injective; `session_collision` is what happens otherwise.  `Implements` maps every action to `Hand`
(the writer takes the chunk), `Answer` (`ForwardDone`, `DataIsSend`), `Forget` (`Expire`) or a stutter.

`MinerClient_proofs` proves, for all constants that satisfy `ClientAssumption`:

| theorem | statement |
|---|---|
| `CoreInvariant` | `Spec => []Core` |
| `TypeCorrect` | `Spec => []TypeOK` |
| `Newest` | `Spec => []RetransmitsNewest` |
| `Window` | `Spec => []RequestsPerAck` |
| `AckKept` | `CollisionFree` implies `Spec => []AckMeansDelivered` |
| `Attended` | `Spec => []OpenIsAttended` |
| `Implements` | `CollisionFree` implies `Spec => DeliversAsPromised` |
| `Speaks` | `Spec => SpeaksAsPromised` |

Here `Core` is `TypeOK`, `InHand` (the reader holds a chunk exactly while it works on one) and `Early`
(a session that was not accepted has touched nothing).  `RequestsPerAck` needs `Gate`: `Permits`, the
flag plus the token, are bounded by what the ACKs have opened and `Run` has not used (`Allowance`).
`AckMeansDelivered` needs `Delivered`: a key that is cached, or about to be, is the key of a chunk that
was written.  `OpenIsAttended` needs `Whole`, as on the server.

`Speaks` is the link between the two halves: the environment the theorems of `ServerSession` assume is
what the client does.  Every step of `Run` is `Numbers` (`Accept`, `RunReads`), `Says` (a send that
succeeds), `Ends`, or a stutter, `ReaderAcks` is `Acks`, the server and the network are `Others`.  Three
invariants carry it: `RetransmitsNewest`, or `RunResends` would repeat an older request; `Allowance`, by
which a request can be read only after an ACK opened the gate; and `Heard`, by which an ACK or a chunk
that is in flight, in a tunnel or in a reader was sent by the server.  There is no circle in this: the
theorems about `MinerClient` use of the server only which frames it ever sent (`told`), none of the guards
of `SrvReceives`, `SrvSends` and the others, which are there to keep TLC's instances to what a server does.

`ServerManage_proofs` proves, for any set of ids and of senders, `TypeCorrect` (`TypeOK`),
`KnownWhenListed` (`ListedKnown`), `Working` (`WorkingListed`) and `NoReturn` (`NoResurrection`) from
`Invariant`: `Links` (connection against reader), `AtWork` (the tunnel in the hand of each process),
`Refills`, `Boots`, and `Slices`: the copy an append is about to store lists only tunnels that are
listed, known, being created, or overwritten before.  Without it a stale copy could bring back anything.

`Codec_proofs` has no state.  `RoundTrip`: for every key, counter, length and block size, decryption is
not refused and returns the data.  `KeyFits`: every accepted flag is padded to a key AES takes.
`DownloadedKeyFits`: the key of the script pads to the server's, unless `LosesKey` or `LosesBlock`.

`Dispatch_proofs` proves, for all constants that satisfy `CodecAssumption` and `DispatchAssumption`,
`TypeCorrect`, `Intact` (`FrameIntact`), `Admitted` (`OwnKeyAdmitted`), `Known` (`IdsKnown`), `Found`
(`FoundUnlessHidden`) and `Forgotten` (`DeadForgotten`).  They are inductive only together, with
`AtLoop` and `AtTick` (what the event loop, `Tick` and the senders hold where they stand), `Ours` (a
dispatch has tunnels of one client), `NotYet` (a tunnel without INIT is in no table) and `NoEntry` (a
tunnel that `connId2Id` does not know is offered to nobody).  The first two rest on `RoundTrip` and
`DownloadedKeyFits`, the second besides on `Started`: a client of the script that has a tunnel has a key.  `Implements` (`OffersAsPromised`) follows from the same invariant: `InitAppends` is
`Offer`, or `Skip` if the dispatch was hidden meanwhile; a refused INIT is `Skip`, or `End` if it closes the
connection; `Ends` is `End`; the removals are `Withdraw`, `TickHides` is `Hide`, and every other step a stutter.

`Registry_proofs` proves `TypeCorrect` and `Spared` (`PongSparesConnected`) from `Origins`: LOGIN and PING
name miners that were accepted, a PONG only miners that have left, and miners do not come back
under their id.  `Reasoned` (`CloseHasReason`) needs `Grounded` (`AlwaysGrounded`) besides: a miner that is past
its LOGIN is `Backed`, by an open session in the registry or by having lapsed, and an ACK on its way
vouches for that, so that a CLOSE sent to it can only follow a lapse (`Emitted`).  For the hang-up it needs `Told`:
from the moment a CLOSE is sent until it arrives, the miners it names have left, have lapsed, or are in `early`.

What the properties do not say:

* `RetransmitsNewest` rules out that an old request is retransmitted, not that the newest is lost; that is
  `KeptUntilReceived`, finding 4.
* The `client` run has one session, so colliding keys (finding 2) do not occur in it; `AckKept` of
  `MinerClient_proofs` assumes them away.
* `AllReached` and `RequestAnswered` are about a sender that goes on trying: the limits of `SendToClient` and
  `SendToServer` (1 or 10 tries) are left out; a session whose tries are used up ends, which is another step.
* `RequestAnswered` is about `Registry`, where handlers return and tunnels deliver: a blocked event loop
  or a blocked tunnel (findings 1 and 5) would keep the answer back.
* `EndedLeaves` assumes that a tunnel of the client holds some day.  The ended sessions of a client process that
  has gone for good stay in the registry if they moved data (`Connected`), and are not reported.

Only model-checked: all liveness (`ClosedSessionEnds`, `ClosedRunEnds`, `ShortageEnds`, `AllReached`,
`LeftMinerEnds`, `RequestAnswered`, `RestartNoticed`, `EndedLeaves`), which is beyond the prover.  The
violations are counterexamples of TLC.

## Plan

Done: `PoolConn`, `ServerSession`, `Forwarding`, `ClientSide`, `MinerClient`, `ServerManage`, `Codec`,
`Dispatch`, `Offering`, `Registry`, with runs, mutants and theorems.  Left:

1. `Relay`: both halves end to end on one session, as a refinement of a relay of two queues.  The
   duplicate and loss cases of findings 2 and 4 are the obstacle: such a relay must be allowed them.
2. A module for the off-line message: who is told what about which session, once the two counts
   of `ClientInfo` (by address and by client) are modelled, too.
3. Theorems about `PoolConn` by itself, and an inductive invariant for the bounded run-ahead of
   both halves together.

## Not modelled

Service installation, flag parsing, HTTP pages, logging, zip and the wxPusher API are I/O without
state of their own.  msgpack, AES, CRC32 and the length prefix of gnet's codec are taken as given:
their errors appear as a refused frame.  `connDelay` is displayed only.  The table `Show` prints, the
text of its message and the list of its receivers, refreshed every five minutes, are left out.  The
round-robin indexes of both ends are replaced by a free choice, which allows more than they do.
