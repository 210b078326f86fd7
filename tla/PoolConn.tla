------------------------------ MODULE PoolConn ------------------------------
(***************************************************************************)
(* backend.PoolConn (proxy/backend/pool.go): one TCP connection from the   *)
(* server to a mining pool, driven by two goroutines,                      *)
(*                                                                         *)
(*   reader   conn.Read -> output   (the anonymous goroutine of Start)     *)
(*   writer   input -> conn.Write   (the loop of Start itself)             *)
(*                                                                         *)
(* and owned by somebody who sends on `input', receives from `output' and  *)
(* closes `input'.  Both channels are unbuffered.  A goroutine blocked in  *)
(* a send is an offer: inOffer and outOffer hold what is offered, a        *)
(* receiver takes the offer, and the sender resumes when its offer is      *)
(* gone.  A send offered on a closed channel panics.                       *)
(*                                                                         *)
(* PoolConn.Close closes conn and output inside a sync.Once and sets the   *)
(* closed flag; whoever else calls it waits for the first call, and nobody *)
(* reads the three separately, so they are the single state "closed".      *)
(*                                                                         *)
(* A chunk read from the pool is its ordinal on that connection; a chunk   *)
(* for the pool is an element of UpChunk.                                  *)
(***************************************************************************)
EXTENDS Naturals

CONSTANTS Session,   \* connections; one per incarnation of a miner session
          UpChunk,   \* chunks the owner may send to the pool
          NoChunk,   \* "no chunk offered / in hand"
          MaxDown    \* bound: chunks read from one connection

ASSUME PoolAssumption ==
    /\ NoChunk \notin UpChunk
    /\ MaxDown \in Nat

VARIABLES
    pool,         \* "none", "open", "gone" (the pool hung up), "closed"
    reader,       \* where the reading goroutine stands
    writer,       \* where the writing goroutine stands
    hand,         \* chunk the writer took from input and has not written
    inOffer,      \* chunk offered on input, or NoChunk
    inputClosed,  \* close(input) was called
    outOffer,     \* ordinal of the chunk offered on output, or 0
    got,          \* number of chunks read from conn so far
    copies,       \* history: how often the writers took a chunk
    written       \* history: chunks written while the pool was connected

poolVars == <<pool, reader, writer, hand, inOffer, inputClosed, outOffer,
              got, copies, written>>

PoolTypeOK ==
    /\ pool \in [Session -> {"none", "open", "gone", "closed"}]
    /\ reader \in [Session -> {"off", "read", "send", "done"}]
    /\ writer \in [Session -> {"off", "check", "recv", "write", "done"}]
    /\ hand \in [Session -> UpChunk \cup {NoChunk}]
    /\ inOffer \in [Session -> UpChunk \cup {NoChunk}]
    /\ inputClosed \in [Session -> BOOLEAN]
    /\ outOffer \in [Session -> 0..MaxDown]
    /\ got \in [Session -> 0..MaxDown]
    /\ copies \in [UpChunk -> Nat]
    /\ written \in SUBSET UpChunk

PoolInit ==
    /\ pool = [s \in Session |-> "none"]
    /\ reader = [s \in Session |-> "off"]
    /\ writer = [s \in Session |-> "off"]
    /\ hand = [s \in Session |-> NoChunk]
    /\ inOffer = [s \in Session |-> NoChunk]
    /\ inputClosed = [s \in Session |-> FALSE]
    /\ outOffer = [s \in Session |-> 0]
    /\ got = [s \in Session |-> 0]
    /\ copies = [c \in UpChunk |-> 0]
    /\ written = {}

-----------------------------------------------------------------------------
(* What the owner does to a connection.                                    *)

\* NewPoolConn dials, and Start launches the two goroutines.
Dial(s) ==
    /\ pool[s] = "none"
    /\ pool' = [pool EXCEPT ![s] = "open"]
    /\ reader' = [reader EXCEPT ![s] = "read"]
    /\ writer' = [writer EXCEPT ![s] = "check"]
    /\ UNCHANGED <<hand, inOffer, inputClosed, outOffer, got, copies, written>>

\* The owner blocks in `input <- c'.
Offer(s, c) ==
    /\ inOffer[s] = NoChunk
    /\ inOffer' = [inOffer EXCEPT ![s] = c]
    /\ UNCHANGED <<pool, reader, writer, hand, inputClosed, outOffer, got,
                   copies, written>>

\* The send panics: input was closed before the writer took the offer.
Withdraw(s) ==
    /\ inOffer[s] # NoChunk
    /\ inputClosed[s]
    /\ inOffer' = [inOffer EXCEPT ![s] = NoChunk]
    /\ UNCHANGED <<pool, reader, writer, hand, inputClosed, outOffer, got,
                   copies, written>>

\* The owner receives from output.
Take(s) ==
    /\ outOffer[s] # 0
    /\ pool[s] # "closed"
    /\ outOffer' = [outOffer EXCEPT ![s] = 0]
    /\ UNCHANGED <<pool, reader, writer, hand, inOffer, inputClosed, got,
                   copies, written>>

\* The owner's own Close: close(input), then PoolConn.Close.
CloseInput(s) ==
    /\ inputClosed' = [inputClosed EXCEPT ![s] = TRUE]
    /\ pool' = [pool EXCEPT ![s] = "closed"]
    /\ UNCHANGED <<reader, writer, hand, inOffer, outOffer, got, copies,
                   written>>

-----------------------------------------------------------------------------
(* The reader.                                                             *)

\* The pool sent something and conn.Read returned it; the reader blocks in
\* `output <- data'.
ReadPool(s) ==
    /\ reader[s] = "read"
    /\ pool[s] = "open"
    /\ got[s] < MaxDown
    /\ reader' = [reader EXCEPT ![s] = "send"]
    /\ got' = [got EXCEPT ![s] = @ + 1]
    /\ outOffer' = [outOffer EXCEPT ![s] = got[s] + 1]
    /\ UNCHANGED <<pool, writer, hand, inOffer, inputClosed, copies, written>>

\* EOF or a read error, or the closed flag at the top of the loop.
ReaderEnds(s) ==
    /\ reader[s] = "read"
    /\ pool[s] \in {"gone", "closed"}
    /\ reader' = [reader EXCEPT ![s] = "done"]
    /\ pool' = [pool EXCEPT ![s] = "closed"]
    /\ UNCHANGED <<writer, hand, inOffer, inputClosed, outOffer, got, copies,
                   written>>

ReaderResumes(s) ==
    /\ reader[s] = "send"
    /\ outOffer[s] = 0
    /\ reader' = [reader EXCEPT ![s] = "read"]
    /\ UNCHANGED <<pool, writer, hand, inOffer, inputClosed, outOffer, got,
                   copies, written>>

\* output was closed under a blocked send: the panic is recovered and the
\* chunk is gone.
ReaderPanics(s) ==
    /\ reader[s] = "send"
    /\ outOffer[s] # 0
    /\ pool[s] = "closed"
    /\ reader' = [reader EXCEPT ![s] = "done"]
    /\ outOffer' = [outOffer EXCEPT ![s] = 0]
    /\ UNCHANGED <<pool, writer, hand, inOffer, inputClosed, got, copies,
                   written>>

Reader(s) == ReaderEnds(s) \/ ReaderResumes(s) \/ ReaderPanics(s)

-----------------------------------------------------------------------------
(* The writer.                                                             *)

\* The top of the loop of Start: the flag is read once, then the writer is
\* committed to the receive.
WriterChecks(s) ==
    /\ writer[s] = "check"
    /\ writer' = [writer EXCEPT ![s] =
                      IF pool[s] = "closed" THEN "done" ELSE "recv"]
    /\ UNCHANGED <<pool, reader, hand, inOffer, inputClosed, outOffer, got,
                   copies, written>>

WriterReceives(s) ==
    /\ writer[s] = "recv"
    /\ inOffer[s] # NoChunk
    /\ ~inputClosed[s]
    /\ writer' = [writer EXCEPT ![s] = "write"]
    /\ hand' = [hand EXCEPT ![s] = inOffer[s]]
    /\ copies' = [copies EXCEPT ![inOffer[s]] = @ + 1]
    /\ inOffer' = [inOffer EXCEPT ![s] = NoChunk]
    /\ UNCHANGED <<pool, reader, inputClosed, outOffer, got, written>>

\* `data, isOpen := <-p.input' with isOpen = false.
WriterSeesClose(s) ==
    /\ writer[s] = "recv"
    /\ inputClosed[s]
    /\ writer' = [writer EXCEPT ![s] = "done"]
    /\ pool' = [pool EXCEPT ![s] = "closed"]
    /\ UNCHANGED <<reader, hand, inOffer, inputClosed, outOffer, got, copies,
                   written>>

\* conn.Write succeeds.  After the pool hung up the kernel may still accept
\* the bytes, which then reach nobody.
WriterWrites(s) ==
    /\ writer[s] = "write"
    /\ pool[s] \in {"open", "gone"}
    /\ writer' = [writer EXCEPT ![s] = "check"]
    /\ hand' = [hand EXCEPT ![s] = NoChunk]
    /\ written' = IF pool[s] = "open" THEN written \cup {hand[s]} ELSE written
    /\ UNCHANGED <<pool, reader, inOffer, inputClosed, outOffer, got, copies>>

\* conn.Write fails; the chunk in hand is lost and the deferred Close runs.
WriterFails(s) ==
    /\ writer[s] = "write"
    /\ pool[s] \in {"gone", "closed"}
    /\ writer' = [writer EXCEPT ![s] = "done"]
    /\ hand' = [hand EXCEPT ![s] = NoChunk]
    /\ pool' = [pool EXCEPT ![s] = "closed"]
    /\ UNCHANGED <<reader, inOffer, inputClosed, outOffer, got, copies,
                   written>>

Writer(s) ==
    \/ WriterChecks(s) \/ WriterReceives(s) \/ WriterSeesClose(s)
    \/ WriterWrites(s) \/ WriterFails(s)

\* The mining pool hangs up, or the route to it breaks.
PoolHangsUp(s) ==
    /\ pool[s] = "open"
    /\ pool' = [pool EXCEPT ![s] = "gone"]
    /\ UNCHANGED <<reader, writer, hand, inOffer, inputClosed, outOffer, got,
                   copies, written>>

=============================================================================
